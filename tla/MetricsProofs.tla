---------------------------- MODULE MetricsProofs ---------------------------
(***************************************************************************)
(* Theorems about the path of the metrics (module MetricsPath).            *)
(*                                                                         *)
(* Whatever the samples and however they come, the totals, the charts and  *)
(* the histograms of the controller tell of the same operations, and the   *)
(* charts of a run that is over stay as they are.  The sums over buckets,  *)
(* points and queues are the folds of the model; what they do when an      *)
(* element comes, goes or changes is proved first, from their definition   *)
(* and by descent to a least counterexample.                               *)
(***************************************************************************)
EXTENDS MetricsPath, FiniteSetTheorems, SequenceTheorems, WellFoundedInduction, TLAPS

-----------------------------------------------------------------------------
(***************************************************************************)
(* Sums                                                                    *)
(***************************************************************************)
LEMMA LeastOf ==
    ASSUME NEW S, S \subseteq Nat, S # {}
    PROVE  \E n \in S : \A m \in S : n <= m
<1>1. PICK x \in S : \A y \in S : ~ (<<y, x>> \in OpToRel(<, Nat))
    BY NatLessThanWellFounded, WFMin
<1>2. ASSUME NEW y \in S
      PROVE  x <= y
  <2>1. ~ (y < x)
    BY <1>1 DEF OpToRel
  <2>2. x \in Nat /\ y \in Nat
    OBVIOUS
  <2> QED
    BY <2>1, <2>2
<1> QED
    BY <1>2

LEMMA Induct ==
    ASSUME NEW S, 0 \in S, \A n \in Nat : n \in S => n + 1 \in S
    PROVE  Nat \subseteq S
<1> SUFFICES ASSUME Nat \ S # {}
             PROVE  FALSE
    OBVIOUS
<1>1. PICK n \in Nat \ S : \A m \in Nat \ S : n <= m
    BY LeastOf
<1>2. n # 0 /\ n - 1 \in Nat /\ n - 1 \in S
    BY <1>1
<1>3. (n - 1) + 1 \in S
    BY <1>2
<1> QED
    BY <1>1, <1>2, <1>3

LEMMA LeastSet ==
    ASSUME NEW S, IsFiniteSet(S), NEW B, B \subseteq SUBSET S, B # {}
    PROVE  \E T \in B : \A U \in B : U \subseteq T => U = T
<1>1. SUBSET S = FiniteSubsetsOf(S)
    BY FS_FiniteSubsetsOfFinite
<1>2. PICK T \in B : \A U \in B : ~ (<<U, T>> \in StrictSubsetOrdering(S))
    BY <1>1, FS_StrictSubsetOrderingWellFounded, WFMin
<1>3. ASSUME NEW U \in B, U \subseteq T, U # T
      PROVE  FALSE
  <2>1. U \in SUBSET S /\ T \in SUBSET S
    OBVIOUS
  <2> QED
    BY <1>2, <1>3, <2>1 DEF StrictSubsetOrdering
<1> QED
    BY <1>3

LEMMA SetInduct ==
    ASSUME NEW S, IsFiniteSet(S), NEW P, {} \in P,
           \A T \in SUBSET S : \A x \in S \ T : T \in P => T \cup {x} \in P
    PROVE  S \in P
<1> SUFFICES ASSUME S \notin P
             PROVE  FALSE
    OBVIOUS
<1>1. PICK T \in (SUBSET S) \ P : \A U \in (SUBSET S) \ P : U \subseteq T => U = T
  <2> DEFINE B == (SUBSET S) \ P
  <2>1. B \subseteq SUBSET S /\ B # {}
    OBVIOUS
  <2> HIDE DEF B
  <2>2. \E T \in B : \A U \in B : U \subseteq T => U = T
    BY <2>1, LeastSet
  <2> QED
    BY <2>2 DEF B
<1>2. PICK x : x \in T
    OBVIOUS
<1>3. T \ {x} \in P
    BY <1>1, <1>2
<1>4. (T \ {x}) \cup {x} = T
    BY <1>2
<1>5. T \ {x} \in SUBSET S /\ x \in S \ (T \ {x})
    BY <1>2
<1>6. (T \ {x}) \cup {x} \in P
    BY <1>3, <1>5
<1> QED
    BY <1>4, <1>6

Some(s) == CHOOSE x \in s : TRUE

IsSum(g, f, S) ==
    g = [s \in SUBSET S |-> IF s = {} THEN 0 ELSE f[Some(s)] + g[s \ {Some(s)}]]

TheSum(f, S) == CHOOSE g : IsSum(g, f, S)

LEMMA SumIsThat == \A f, S : SumFunctionOnSet(f, S) = TheSum(f, S)[S]
  BY DEF SumFunctionOnSet, FoldFunctionOnSet, MapThenFoldSet, TheSum, IsSum, Some

LEMMA SomeIsIn == \A s : s # {} => Some(s) \in s
  BY DEF Some

\* The function that the fold defines exists.
LEMMA SumExists ==
    ASSUME NEW f, NEW S, IsFiniteSet(S)
    PROVE  IsSum(TheSum(f, S), f, S)
<1> DEFINE Small(n) == {s \in SUBSET S : Cardinality(s) <= n}
           Turn(g, s) == IF s = {} THEN 0 ELSE f[Some(s)] + g[s \ {Some(s)}]
           Is(g, n) == \A s \in Small(n) : g[s] = Turn(g, s)
           P == {n \in Nat : \E g : Is(g, n)}
<1>1. \A s \in SUBSET S : IsFiniteSet(s) /\ Cardinality(s) \in Nat /\ Cardinality(s) <= Cardinality(S)
    BY FS_Subset, FS_CardinalityType
<1>2. ASSUME NEW s \in SUBSET S, s # {}
      PROVE  s \ {Some(s)} \in SUBSET S /\ Cardinality(s \ {Some(s)}) = Cardinality(s) - 1
    BY <1>1, <1>2, SomeIsIn, FS_RemoveElement
<1>3. 0 \in P
  <2>1. \A s \in Small(0) : s = {}
    BY <1>1, FS_EmptySet
  <2>2. Is([s \in Small(0) |-> 0], 0)
    BY <2>1
  <2> QED
    BY <2>2
<1>4. ASSUME NEW n \in Nat, n \in P
      PROVE  n + 1 \in P
  <2>1. PICK g : Is(g, n)
    BY <1>4
  <2> DEFINE h == [s \in Small(n + 1) |-> Turn(g, s)]
  <2>2. ASSUME NEW s \in Small(n + 1), s # {}
        PROVE  h[s \ {Some(s)}] = g[s \ {Some(s)}]
    <3>1. s \ {Some(s)} \in Small(n) /\ s \ {Some(s)} \in Small(n + 1)
      BY <1>1, <1>2, <2>2
    <3> QED
      BY <2>1, <3>1
  <2>3. Is(h, n + 1)
    BY <2>2
  <2> HIDE DEF h, Is
  <2> QED
    BY <2>3
<1> HIDE DEF P
<1>5. Cardinality(S) \in P
    BY <1>1, <1>3, <1>4, Induct
<1>6. PICK g : Is(g, Cardinality(S))
    BY <1>5 DEF P
<1> DEFINE h == [s \in SUBSET S |-> g[s]]
<1>7. IsSum(h, f, S)
  <2>1. \A s \in SUBSET S : h[s] = Turn(h, s)
    BY <1>1, <1>2, <1>6
  <2> HIDE DEF h
  <2>2. h = [s \in SUBSET S |-> h[s]]
    BY DEF h
  <2> QED
    BY <2>1, <2>2 DEF IsSum
<1> HIDE DEF h
<1> QED
    BY <1>7 DEF TheSum

\* What the fold is, one element at a time.
LEMMA SumUnfolds ==
    ASSUME NEW f, NEW S, IsFiniteSet(S)
    PROVE  SumFunctionOnSet(f, S) =
               IF S = {} THEN 0
               ELSE f[Some(S)] + SumFunctionOnSet(f, S \ {Some(S)})
<1> DEFINE R == S \ {Some(S)}
           g == TheSum(f, S)
           h == TheSum(f, R)
<1>1. IsFiniteSet(R) /\ R \in SUBSET S
    BY FS_Subset
<1>2. IsSum(g, f, S) /\ IsSum(h, f, R)
    BY <1>1, SumExists
<1> HIDE DEF g, h
<1>3. ASSUME S # {}
      PROVE  g[R] = h[R]
  <2> DEFINE B == {s \in SUBSET R : g[s] # h[s]}
  <2> SUFFICES ASSUME B # {}
               PROVE  FALSE
    OBVIOUS
  <2>1. PICK s \in B : \A t \in B : t \subseteq s => t = s
    <3> HIDE DEF R
    <3>1. B \subseteq SUBSET R
      OBVIOUS
    <3> HIDE DEF B
    <3> QED
      BY <1>1, <3>1, LeastSet
  <2>2. s \in SUBSET R /\ s \in SUBSET S /\ g[s] # h[s]
    OBVIOUS
  <2>3. s # {}
    BY <1>2, <2>2 DEF IsSum
  <2>4. s \ {Some(s)} \in SUBSET R /\ s \ {Some(s)} \notin B
    BY <2>1, <2>2, <2>3, SomeIsIn
  <2>5. g[s \ {Some(s)}] = h[s \ {Some(s)}]
    BY <2>4
  <2>6. /\ g[s] = f[Some(s)] + g[s \ {Some(s)}]
        /\ h[s] = f[Some(s)] + h[s \ {Some(s)}]
    BY <1>2, <2>2, <2>3 DEF IsSum
  <2> QED
    BY <2>2, <2>5, <2>6
<1>4. g[S] = IF S = {} THEN 0 ELSE f[Some(S)] + g[R]
    BY <1>2 DEF IsSum
<1>5. SumFunctionOnSet(f, S) = g[S] /\ SumFunctionOnSet(f, R) = h[R]
    BY SumIsThat DEF g, h
<1> QED
    BY <1>3, <1>4, <1>5

LEMMA SumOfNone == \A f : SumFunctionOnSet(f, {}) = 0
    BY SumUnfolds, FS_EmptySet

Ints(f, S) == \A x \in S : f[x] \in Int

LEMMA SumIsInt ==
    ASSUME NEW f, NEW S, IsFiniteSet(S), Ints(f, S)
    PROVE  SumFunctionOnSet(f, S) \in Int
<1> DEFINE B == {T \in SUBSET S : SumFunctionOnSet(f, T) \notin Int}
<1> SUFFICES ASSUME B # {}
             PROVE  FALSE
    OBVIOUS
<1>1. PICK T \in B : \A U \in B : U \subseteq T => U = T
  <2>1. B \subseteq SUBSET S
    OBVIOUS
  <2> HIDE DEF B
  <2> QED
    BY <2>1, LeastSet
<1>2. T \in SUBSET S /\ IsFiniteSet(T) /\ SumFunctionOnSet(f, T) \notin Int
    BY FS_Subset
<1>3. T # {}
    BY <1>2, SumOfNone
<1>4. Some(T) \in T /\ f[Some(T)] \in Int
    BY <1>2, <1>3, SomeIsIn DEF Ints
<1>5. SumFunctionOnSet(f, T \ {Some(T)}) \in Int
  <2>1. T \ {Some(T)} \notin B
    BY <1>1, <1>4
  <2> QED
    BY <1>2, <2>1
<1>6. SumFunctionOnSet(f, T) = f[Some(T)] + SumFunctionOnSet(f, T \ {Some(T)})
    BY <1>2, <1>3, SumUnfolds
<1> QED
    BY <1>2, <1>4, <1>5, <1>6

\* Any element may be taken out of a sum.
LEMMA SumTakes ==
    ASSUME NEW f, NEW S, IsFiniteSet(S), Ints(f, S), NEW x \in S
    PROVE  SumFunctionOnSet(f, S) = f[x] + SumFunctionOnSet(f, S \ {x})
<1> DEFINE Sum(T) == SumFunctionOnSet(f, T)
           B == {T \in SUBSET S : \E y \in T : Sum(T) # f[y] + Sum(T \ {y})}
<1> SUFFICES ASSUME B # {}
             PROVE  FALSE
    OBVIOUS
<1>1. PICK T \in B : \A U \in B : U \subseteq T => U = T
  <2>1. B \subseteq SUBSET S
    OBVIOUS
  <2> HIDE DEF B
  <2> QED
    BY <2>1, LeastSet
<1>2. \A U \in SUBSET S : IsFiniteSet(U) /\ Sum(U) \in Int
    BY FS_Subset, SumIsInt DEF Ints
<1>3. \A U \in SUBSET S : U # {} => Sum(U) = f[Some(U)] + Sum(U \ {Some(U)})
    BY <1>2, SumUnfolds
<1> HIDE DEF Sum
<1>4. PICK y \in T : Sum(T) # f[y] + Sum(T \ {y})
    OBVIOUS
<1> DEFINE z == Some(T)
<1>5. z \in T /\ T \in SUBSET S /\ f[z] \in Int /\ f[y] \in Int
    BY <1>4, SomeIsIn DEF Ints
<1> HIDE DEF z
<1>6. Sum(T) = f[z] + Sum(T \ {z})
    BY <1>3, <1>5 DEF z
<1>7. y # z
    BY <1>4, <1>6
<1>8. Sum(T \ {z}) = f[y] + Sum((T \ {z}) \ {y})
  <2>1. T \ {z} \notin B
    BY <1>1, <1>5
  <2> QED
    BY <1>4, <1>5, <1>7, <2>1
<1>9. Sum(T \ {y}) = f[z] + Sum((T \ {y}) \ {z})
  <2>1. T \ {y} \notin B
    BY <1>1, <1>4
  <2> QED
    BY <1>5, <1>7, <2>1
<1>10. (T \ {z}) \ {y} = (T \ {y}) \ {z}
    OBVIOUS
<1>11. Sum((T \ {z}) \ {y}) \in Int
    BY <1>2, <1>5
<1> QED
    BY <1>4, <1>5, <1>6, <1>8, <1>9, <1>10, <1>11

\* A sum is the same if its terms are.
LEMMA SumAgrees ==
    ASSUME NEW f, NEW g, NEW S, IsFiniteSet(S), \A x \in S : f[x] = g[x]
    PROVE  SumFunctionOnSet(f, S) = SumFunctionOnSet(g, S)
<1> DEFINE P == {T \in SUBSET S : SumFunctionOnSet(f, T) # SumFunctionOnSet(g, T)}
<1> SUFFICES ASSUME P # {}
             PROVE  FALSE
    OBVIOUS
<1>1. PICK T \in P : \A U \in P : U \subseteq T => U = T
  <2>1. P \subseteq SUBSET S
    OBVIOUS
  <2> HIDE DEF P
  <2> QED
    BY <2>1, LeastSet
<1>2. T \in SUBSET S /\ IsFiniteSet(T) /\ SumFunctionOnSet(f, T) # SumFunctionOnSet(g, T)
    BY FS_Subset
<1>3. T # {}
    BY <1>2, SumOfNone
<1>4. Some(T) \in T /\ f[Some(T)] = g[Some(T)]
    BY <1>2, <1>3, SomeIsIn
<1>5. SumFunctionOnSet(f, T \ {Some(T)}) = SumFunctionOnSet(g, T \ {Some(T)})
  <2>1. T \ {Some(T)} \notin P
    BY <1>1, <1>4
  <2> QED
    BY <1>2, <2>1
<1> QED
    BY <1>2, <1>3, <1>4, <1>5, SumUnfolds

\* The sum over two sets that have nothing in common.
LEMMA SumSplits ==
    ASSUME NEW f, NEW S, IsFiniteSet(S), Ints(f, S), NEW T \in SUBSET S
    PROVE  SumFunctionOnSet(f, S) = SumFunctionOnSet(f, T) + SumFunctionOnSet(f, S \ T)
<1> DEFINE Sum(U) == SumFunctionOnSet(f, U)
           P == {U \in SUBSET T : Sum(S) = Sum(U) + Sum(S \ U)}
<1>1. \A U \in SUBSET S : IsFiniteSet(U) /\ Sum(U) \in Int
    BY FS_Subset, SumIsInt DEF Ints
<1>2. ASSUME NEW U \in SUBSET S, NEW x \in U
      PROVE  f[x] \in Int /\ Sum(U) = f[x] + Sum(U \ {x})
  <2>1. IsFiniteSet(U) /\ Ints(f, U) /\ f[x] \in Int
    BY <1>1 DEF Ints
  <2> QED
    BY <2>1, SumTakes
<1>3. Sum({}) = 0
    BY SumOfNone
<1> HIDE DEF Sum
<1>4. {} \in P
  <2>1. S \ {} = S /\ Sum(S) \in Int
    BY <1>1
  <2> QED
    BY <1>3, <2>1
<1>5. ASSUME NEW U \in SUBSET T, NEW x \in T \ U, U \in P
      PROVE  U \cup {x} \in P
  <2>1. Sum(S \ U) = f[x] + Sum((S \ U) \ {x})
    BY <1>2
  <2>2. Sum(U \cup {x}) = f[x] + Sum((U \cup {x}) \ {x})
    BY <1>2
  <2>3. (U \cup {x}) \ {x} = U /\ (S \ U) \ {x} = S \ (U \cup {x})
    OBVIOUS
  <2>4. Sum(U) \in Int /\ Sum(S \ (U \cup {x})) \in Int /\ f[x] \in Int
    BY <1>1, <1>2
  <2>5. Sum(S) = Sum(U) + Sum(S \ U)
    BY <1>5
  <2>6. Sum(S \ U) = f[x] + Sum(S \ (U \cup {x}))
    BY <2>1, <2>3
  <2>7. Sum(U \cup {x}) = f[x] + Sum(U)
    BY <2>2, <2>3
  <2>8. Sum(S) = Sum(U \cup {x}) + Sum(S \ (U \cup {x}))
    BY <2>4, <2>5, <2>6, <2>7
  <2> QED
    BY <2>8
<1> HIDE DEF P
<1>6. T \in P
    BY <1>1, FS_Subset, <1>4, <1>5, SetInduct
<1> QED
    BY <1>6 DEF P, Sum

LEMMA SumIsNat ==
    ASSUME NEW f, NEW S, IsFiniteSet(S), \A x \in S : f[x] \in Nat
    PROVE  SumFunctionOnSet(f, S) \in Nat
<1> DEFINE P == {T \in SUBSET S : SumFunctionOnSet(f, T) \in Nat}
<1>1. \A T \in SUBSET S : IsFiniteSet(T)
    BY FS_Subset
<1>2. {} \in P
    BY SumOfNone
<1>3. ASSUME NEW T \in SUBSET S, NEW x \in S \ T, T \in P
      PROVE  T \cup {x} \in P
  <2>1. SumFunctionOnSet(f, T \cup {x}) = f[x] + SumFunctionOnSet(f, (T \cup {x}) \ {x})
    BY <1>1, SumTakes DEF Ints
  <2>2. (T \cup {x}) \ {x} = T
    OBVIOUS
  <2>3. SumFunctionOnSet(f, T \cup {x}) \in Nat
    BY <1>3, <2>1, <2>2
  <2> QED
    BY <2>3
<1> HIDE DEF P
<1>4. S \in P
    BY <1>2, <1>3, SetInduct
<1> QED
    BY <1>4 DEF P

\* A sum in which one term changes.
LEMMA SumChanges ==
    ASSUME NEW f, NEW g, NEW S, IsFiniteSet(S), Ints(f, S), NEW x \in S, g[x] \in Int,
           \A y \in S \ {x} : g[y] = f[y]
    PROVE  SumFunctionOnSet(g, S) = SumFunctionOnSet(f, S) + g[x] - f[x]
<1> DEFINE R == S \ {x}
<1>1. IsFiniteSet(R) /\ Ints(f, R) /\ Ints(g, S) /\ f[x] \in Int
    BY FS_Subset DEF Ints
<1>2. SumFunctionOnSet(f, R) = SumFunctionOnSet(g, R)
    BY <1>1, SumAgrees
<1>3. SumFunctionOnSet(f, S) = f[x] + SumFunctionOnSet(f, R)
    BY SumTakes
<1>4. SumFunctionOnSet(g, S) = g[x] + SumFunctionOnSet(g, R)
    BY <1>1, SumTakes
<1>5. SumFunctionOnSet(f, R) \in Int
    BY <1>1, SumIsInt
<1> QED
    BY <1>1, <1>2, <1>3, <1>4, <1>5

\* The terms of g over S are those of f over R, in other places.
Moved(g, S, f, R, q) ==
    /\ \A i \in S : q[i] \in R /\ g[i] = f[q[i]]
    /\ \A y \in R : \E i \in S : y = q[i]
    /\ \A i, j \in S : q[i] = q[j] => i = j

LEMMA SumMoves ==
    ASSUME NEW f, NEW g, NEW S, IsFiniteSet(S), Ints(g, S), NEW R, NEW q, Moved(g, S, f, R, q)
    PROVE  SumFunctionOnSet(g, S) = SumFunctionOnSet(f, R)
<1> USE DEF Moved
<1> DEFINE To(T) == {q[i] : i \in T}
           P == {T \in SUBSET S : /\ IsFiniteSet(To(T)) 
                                  /\ SumFunctionOnSet(g, T) = SumFunctionOnSet(f, To(T))}
<1>1. \A T \in SUBSET S : IsFiniteSet(T) /\ Ints(g, T) /\ Ints(f, To(T))
    BY FS_Subset DEF Ints
<1>2. {} \in P
  <2>1. To({}) = {}
    OBVIOUS
  <2> QED
    BY <2>1, SumOfNone, FS_EmptySet
<1>3. ASSUME NEW T \in SUBSET S, NEW x \in S \ T, T \in P
      PROVE  T \cup {x} \in P
  <2> DEFINE U == T \cup {x}
             M == To(U)
  <2>1. M = To(T) \cup {q[x]} /\ M \ {q[x]} = To(T) /\ q[x] \in M
    OBVIOUS
  <2>2. IsFiniteSet(M)
    <3>1. IsFiniteSet(To(T))
      BY <1>3
    <3> HIDE DEF To
    <3>2. IsFiniteSet(To(T) \cup {q[x]})
      BY <3>1, FS_AddElement
    <3> QED
      BY <2>1, <3>2
  <2>3. Ints(f, M) /\ IsFiniteSet(U) /\ Ints(g, U) /\ x \in U /\ U \ {x} = T
    BY <1>1
  <2> HIDE DEF M, U
  <2>4. SumFunctionOnSet(f, M) = f[q[x]] + SumFunctionOnSet(f, To(T))
    <3>1. SumFunctionOnSet(f, M) = f[q[x]] + SumFunctionOnSet(f, M \ {q[x]})
      BY <2>1, <2>2, <2>3, SumTakes
    <3> QED
      BY <2>1, <3>1
  <2>5. SumFunctionOnSet(g, U) = g[x] + SumFunctionOnSet(g, T)
    <3>1. SumFunctionOnSet(g, U) = g[x] + SumFunctionOnSet(g, U \ {x})
      BY <2>3, SumTakes
    <3> QED
      BY <2>3, <3>1
  <2>6. SumFunctionOnSet(g, U) = SumFunctionOnSet(f, M)
    BY <1>3, <2>4, <2>5
  <2> QED
    BY <2>2, <2>6 DEF M, U
<1>4. To(S) = R
    OBVIOUS
<1> HIDE DEF P
<1>5. S \in P
    BY <1>2, <1>3, SetInduct
<1> QED
    BY <1>4, <1>5 DEF P

-----------------------------------------------------------------------------
(***************************************************************************)
(* Sums of sequences.                                                      *)
(***************************************************************************)

LEMMA SeqIsFinite ==
    ASSUME NEW S, NEW s \in Seq(S)
    PROVE  IsFiniteSet(DOMAIN s) /\ Len(s) \in Nat /\ DOMAIN s = 1..Len(s)
    BY FS_Interval

LEMMA SumOfSeq ==
    ASSUME NEW s \in Seq(Int)
    PROVE  /\ SumFunction(s) \in Int
           /\ s \in Seq(Nat) => SumFunction(s) \in Nat
<1>1. IsFiniteSet(DOMAIN s) /\ Ints(s, DOMAIN s)
    BY SeqIsFinite DEF Ints
<1>2. s \in Seq(Nat) => \A i \in DOMAIN s : s[i] \in Nat
    OBVIOUS
<1> QED
    BY <1>1, <1>2, SumIsInt, SumIsNat DEF SumFunction

LEMMA SumConcat ==
    ASSUME NEW s \in Seq(Int), NEW t \in Seq(Int)
    PROVE  SumFunction(s \o t) = SumFunction(s) + SumFunction(t)
<1> DEFINE u == s \o t
           q == [i \in DOMAIN t |-> Len(s) + i]
<1>1. /\ u \in Seq(Int) /\ Len(u) = Len(s) + Len(t)
      /\ DOMAIN u = 1..(Len(s) + Len(t)) /\ DOMAIN s = 1..Len(s) /\ DOMAIN t = 1..Len(t)
      /\ Len(s) \in Nat /\ Len(t) \in Nat
    BY ConcatProperties
<1>2. /\ \A i \in DOMAIN s : u[i] = s[i]
      /\ \A i \in DOMAIN t : u[Len(s) + i] = t[i]
    BY ConcatProperties
<1>3. IsFiniteSet(DOMAIN u) /\ IsFiniteSet(DOMAIN s) /\ IsFiniteSet(DOMAIN t)
    BY <1>1, FS_Interval
<1>4. Ints(u, DOMAIN u) /\ Ints(t, DOMAIN t)
    BY <1>1 DEF Ints
<1> HIDE DEF u
<1>5. SumFunctionOnSet(u, DOMAIN u) =
          SumFunctionOnSet(u, DOMAIN s) + SumFunctionOnSet(u, DOMAIN u \ DOMAIN s)
  <2>1. DOMAIN s \in SUBSET DOMAIN u
    BY <1>1
  <2> QED
    BY <1>3, <1>4, <2>1, SumSplits
<1>6. SumFunctionOnSet(u, DOMAIN s) = SumFunctionOnSet(s, DOMAIN s)
    BY <1>2, <1>3, SumAgrees
<1>7. /\ \A k \in DOMAIN u \ DOMAIN s : \E i \in DOMAIN t : k = q[i]
      /\ \A i \in DOMAIN t : q[i] \in DOMAIN u \ DOMAIN s
  <2>1. ASSUME NEW k \in DOMAIN u \ DOMAIN s
        PROVE  \E i \in DOMAIN t : k = q[i]
    <3>1. k - Len(s) \in DOMAIN t /\ k = Len(s) + (k - Len(s))
      BY <1>1
    <3> QED
      BY <3>1
  <2>2. \A i \in DOMAIN t : q[i] \in DOMAIN u \ DOMAIN s
    BY <1>1
  <2> QED
    BY <2>1, <2>2
<1>8. SumFunctionOnSet(t, DOMAIN t) = SumFunctionOnSet(u, DOMAIN u \ DOMAIN s)
  <2>1. \A i \in DOMAIN t : t[i] = u[q[i]]
    BY <1>2
  <2>2. \A i, j \in DOMAIN t : q[i] = q[j] => i = j
    BY <1>1
  <2> DEFINE D == DOMAIN t
             R == DOMAIN u \ DOMAIN s
  <2>3. /\ IsFiniteSet(D) /\ Ints(t, D)
        /\ Moved(t, D, u, R, q)
    BY <1>3, <1>4, <1>7, <2>1, <2>2 DEF Moved
  <2> HIDE DEF q, D, R
  <2>4. SumFunctionOnSet(t, D) = SumFunctionOnSet(u, R)
    BY <2>3, SumMoves
  <2> QED
    BY <2>4 DEF D, R
<1> QED
    BY <1>5, <1>6, <1>8 DEF SumFunction, u

LEMMA SumAppend ==
    ASSUME NEW s \in Seq(Int), NEW x \in Int
    PROVE  SumFunction(Append(s, x)) = SumFunction(s) + x
<1> DEFINE u == Append(s, x)
<1>1. /\ u \in Seq(Int) /\ Len(u) = Len(s) + 1
      /\ DOMAIN u = 1..(Len(s) + 1) /\ DOMAIN s = 1..Len(s)
      /\ Len(s) \in Nat /\ u[Len(s) + 1] = x
      /\ \A i \in DOMAIN s : u[i] = s[i]
    BY AppendProperties
<1> HIDE DEF u
<1>2. /\ IsFiniteSet(DOMAIN u) /\ IsFiniteSet(DOMAIN s)
      /\ Ints(u, DOMAIN u) /\ Ints(s, DOMAIN s)
  <2>1. Ints(u, DOMAIN u) /\ Ints(s, DOMAIN s)
    BY <1>1 DEF Ints
  <2>2. IsFiniteSet(DOMAIN u) /\ IsFiniteSet(DOMAIN s)
    BY <1>1, SeqIsFinite
  <2> QED
    BY <2>1, <2>2
<1>3. Len(s) + 1 \in DOMAIN u /\ DOMAIN u \ {Len(s) + 1} = DOMAIN s
    BY <1>1
<1>4. SumFunctionOnSet(u, DOMAIN u) = x + SumFunctionOnSet(u, DOMAIN s)
    BY <1>1, <1>2, <1>3, SumTakes
<1>5. SumFunctionOnSet(u, DOMAIN s) = SumFunctionOnSet(s, DOMAIN s)
  <2> DEFINE D == DOMAIN s
  <2>1. IsFiniteSet(D) /\ \A i \in D : u[i] = s[i]
    BY <1>1, <1>2
  <2> HIDE DEF D
  <2>2. SumFunctionOnSet(u, D) = SumFunctionOnSet(s, D)
    BY <2>1, SumAgrees
  <2> QED
    BY <2>2 DEF D
<1>6. SumFunctionOnSet(s, DOMAIN s) \in Int
    BY <1>2, SumIsInt
<1> QED
    BY <1>4, <1>5, <1>6 DEF SumFunction, u

LEMMA SumTail ==
    ASSUME NEW s \in Seq(Int), s # << >>
    PROVE  SumFunction(s) = Head(s) + SumFunction(Tail(s))
<1>1. Head(s) \in Int /\ Tail(s) \in Seq(Int) /\ Len(s) >= 1
    BY HeadTailProperties, EmptySeq
<1>2. s = <<Head(s)>> \o Tail(s)
  <2>1. SubSeq(s, 1, Len(s)) = <<s[1]>> \o SubSeq(s, 2, Len(s))
    BY <1>1, SubSeqRecursiveFirst
  <2> QED
    BY <2>1, SubSeqFull, TailIsSubSeq
<1>3. SumFunction(<<Head(s)>>) = Head(s)
  <2>1. <<Head(s)>> = Append(<< >>, Head(s)) /\ << >> \in Seq(Int)
    OBVIOUS
  <2>2. SumFunction(<< >>) = 0
    <3>1. DOMAIN << >> = {}
      OBVIOUS
    <3> QED
      BY <3>1, SumOfNone DEF SumFunction
  <2>3. SumFunction(Append(<< >>, Head(s))) = SumFunction(<< >>) + Head(s)
    BY <1>1, <2>1, SumAppend
  <2> QED
    BY <1>1, <2>1, <2>2, <2>3
<1>4. <<Head(s)>> \in Seq(Int)
    BY <1>1
<1> QED
    BY <1>1, <1>2, <1>3, <1>4, SumConcat

LEMMA SumOfZeros ==
    ASSUME NEW f, NEW S, IsFiniteSet(S), \A x \in S : f[x] = 0
    PROVE  SumFunctionOnSet(f, S) = 0
<1> DEFINE P == {T \in SUBSET S : SumFunctionOnSet(f, T) = 0}
<1>1. \A T \in SUBSET S : IsFiniteSet(T)
    BY FS_Subset
<1>2. {} \in P
    BY SumOfNone
<1>3. ASSUME NEW T \in SUBSET S, NEW x \in S \ T, T \in P
      PROVE  T \cup {x} \in P
  <2>1. SumFunctionOnSet(f, T \cup {x}) = f[x] + SumFunctionOnSet(f, (T \cup {x}) \ {x})
    BY <1>1, SumTakes DEF Ints
  <2>2. (T \cup {x}) \ {x} = T
    OBVIOUS
  <2>3. SumFunctionOnSet(f, T \cup {x}) = 0
    BY <1>3, <2>1, <2>2
  <2> QED
    BY <2>3
<1> HIDE DEF P
<1>4. S \in P
    BY <1>2, <1>3, SetInduct
<1> QED
    BY <1>4 DEF P

LEMMA SumAdds ==
    ASSUME NEW f, NEW g, NEW h, NEW S, IsFiniteSet(S), Ints(f, S), Ints(g, S),
           \A x \in S : h[x] = f[x] + g[x]
    PROVE  SumFunctionOnSet(h, S) = SumFunctionOnSet(f, S) + SumFunctionOnSet(g, S)
<1> DEFINE P == {T \in SUBSET S : SumFunctionOnSet(h, T) =
                     SumFunctionOnSet(f, T) + SumFunctionOnSet(g, T)}
<1>1. \A T \in SUBSET S : IsFiniteSet(T) /\ Ints(f, T) /\ Ints(g, T) /\ Ints(h, T)
    BY FS_Subset DEF Ints
<1>2. {} \in P
    BY SumOfNone
<1>3. ASSUME NEW T \in SUBSET S, NEW x \in S \ T, T \in P
      PROVE  T \cup {x} \in P
  <2> DEFINE U == T \cup {x}
  <2>1. U \in SUBSET S /\ x \in U /\ U \ {x} = T
    OBVIOUS
  <2>2. /\ IsFiniteSet(U) /\ Ints(f, U) /\ Ints(g, U) /\ Ints(h, U)
        /\ IsFiniteSet(T) /\ Ints(f, T) /\ Ints(g, T)
    BY <1>1, <2>1
  <2> HIDE DEF U
  <2>3. /\ SumFunctionOnSet(f, U) = f[x] + SumFunctionOnSet(f, U \ {x})
        /\ SumFunctionOnSet(g, U) = g[x] + SumFunctionOnSet(g, U \ {x})
        /\ SumFunctionOnSet(h, U) = h[x] + SumFunctionOnSet(h, U \ {x})
    BY <2>1, <2>2, SumTakes
  <2>4. SumFunctionOnSet(f, T) \in Int /\ SumFunctionOnSet(g, T) \in Int
    BY <2>2, SumIsInt
  <2>5. f[x] \in Int /\ g[x] \in Int /\ h[x] = f[x] + g[x]
    BY DEF Ints
  <2>6. SumFunctionOnSet(h, T) = SumFunctionOnSet(f, T) + SumFunctionOnSet(g, T)
    BY <1>3
  <2>7. SumFunctionOnSet(h, U) = SumFunctionOnSet(f, U) + SumFunctionOnSet(g, U)
    <3>1. /\ SumFunctionOnSet(f, U) = f[x] + SumFunctionOnSet(f, T)
          /\ SumFunctionOnSet(g, U) = g[x] + SumFunctionOnSet(g, T)
          /\ SumFunctionOnSet(h, U) = h[x] + SumFunctionOnSet(h, T)
      BY <2>1, <2>3
    <3> QED
      BY <3>1, <2>4, <2>5, <2>6
  <2> QED
    BY <2>7 DEF U
<1> HIDE DEF P
<1>4. S \in P
    BY <1>2, <1>3, SetInduct
<1> QED
    BY <1>4 DEF P

-----------------------------------------------------------------------------
(***************************************************************************)
(* Histograms                                                              *)
(***************************************************************************)
\* The histograms of the program: of the scale of io, with all their buckets,
\* and in these as many latencies as they count.
GoodLatencies ==
    {h \in Histograms : /\ h.scale = "io"
                        /\ Len(h.counts) = Len(Edges["io"]) + 1
                        /\ AddsUp(h)}

LEMMA EdgesAreNumbers ==
    /\ Edges["io"] \in Seq(Nat)
    /\ Len(Edges["io"]) \in Nat
    BY LatencyAssumption DEF Scales

LEMMA NewLatenciesAreGood == NewLatencies \in GoodLatencies /\ NewLatencies.total = 0
<1> DEFINE z == Zeros("io")
<1>1. z \in Seq(Nat) /\ Len(z) = Len(Edges["io"]) + 1 /\ \A i \in DOMAIN z : z[i] = 0
    BY EdgesAreNumbers DEF Zeros
<1>2. NewLatencies = [counts |-> z, total |-> 0, failures |-> 0, scale |-> "io"]
    BY DEF NewLatencies, NewLatencyHistogramScale
<1> HIDE DEF z
<1>3. SumFunction(z) = 0
    BY <1>1, SeqIsFinite, SumOfZeros DEF SumFunction
<1>4. NewLatencies \in Histograms
    BY <1>1, <1>2 DEF Histograms, Scales
<1> QED
    BY <1>1, <1>2, <1>3, <1>4 DEF GoodLatencies, AddsUp

LEMMA GoodIsEnsured ==
    ASSUME NEW h \in GoodLatencies
    PROVE  ensureCounts(h) = h
    BY DEF ensureCounts, GoodLatencies

LEMMA GoodCounts ==
    ASSUME NEW h \in GoodLatencies
    PROVE  /\ h \in Histograms
           /\ h.counts \in Seq(Nat) /\ h.counts \in Seq(Int)
           /\ DOMAIN h.counts = 1..(Len(Edges["io"]) + 1)
           /\ Len(h.counts) = Len(Edges["io"]) + 1
           /\ IsFiniteSet(DOMAIN h.counts)
           /\ Ints(h.counts, DOMAIN h.counts)
           /\ h.total \in Nat /\ h.total = SumFunctionOnSet(h.counts, DOMAIN h.counts)
           /\ h.scale = "io"
<1>1. h.counts \in Seq(Nat) /\ h.total \in Nat /\ h.scale = "io" /\ h \in Histograms
    BY DEF GoodLatencies, Histograms
<1>2. h.counts \in Seq(Int) /\ DOMAIN h.counts = 1..Len(h.counts)
    BY <1>1
<1>3. IsFiniteSet(DOMAIN h.counts)
    BY <1>2, SeqIsFinite
<1>4. Ints(h.counts, DOMAIN h.counts)
    BY <1>2 DEF Ints
<1> QED
    BY <1>1, <1>2, <1>3, <1>4 DEF GoodLatencies, AddsUp, SumFunction

LEMMA BucketIsThere ==
    ASSUME NEW us \in Nat
    PROVE  BucketOf("io", us) \in 1..(Len(Edges["io"]) + 1)
<1> DEFINE above == {i \in DOMAIN Edges["io"] : us <= Edges["io"][i]}
<1>1. above \subseteq 1..Len(Edges["io"]) /\ Len(Edges["io"]) \in Nat
    BY EdgesAreNumbers
<1>2. CASE above = {}
    BY <1>1, <1>2 DEF BucketOf
<1>3. CASE above # {}
  <2>2. BucketOf("io", us) = CHOOSE i \in above : \A j \in above : i <= j
    BY <1>3 DEF BucketOf
  <2> HIDE DEF above
  <2>1. \E n \in above : \A m \in above : n <= m
    <3>1. above \subseteq Nat
      BY <1>1
    <3> QED
      BY <1>3, <3>1, LeastOf
  <2>3. BucketOf("io", us) \in above
    BY <2>1, <2>2
  <2> DEFINE k == BucketOf("io", us)
             N == Len(Edges["io"])
  <2>4. above \subseteq 1..N /\ N \in Nat /\ k \in above
    BY <1>1, <2>3
  <2> HIDE DEF k, N
  <2>5. k \in 1..(N + 1)
    BY <2>4
  <2> QED
    BY <2>5 DEF k, N
<1> QED
    BY <1>2, <1>3

LEMMA ObserveIsGood ==
    ASSUME NEW h \in GoodLatencies, NEW us \in Nat
    PROVE  ObserveUs(h, us) \in GoodLatencies /\ ObserveUs(h, us).total = h.total + 1
<1> DEFINE k == BucketOf("io", us)
           c == [h.counts EXCEPT ![k] = @ + 1]
           D == DOMAIN h.counts
<1>1. k \in D /\ IsFiniteSet(D) /\ Ints(h.counts, D) /\ h \in Histograms
    BY BucketIsThere, GoodCounts
<1>2. ObserveUs(h, us) = [h EXCEPT !.total = h.total + 1, !.counts = c]
    BY GoodIsEnsured, GoodCounts DEF ObserveUs, Histograms
<1> HIDE DEF k
<1>3. c \in Seq(Nat) /\ Len(c) = Len(h.counts) /\ DOMAIN c = D
    BY <1>1, GoodCounts
<1>4. c[k] = h.counts[k] + 1 /\ c[k] \in Int /\ h.counts[k] \in Int
      /\ \A i \in D \ {k} : c[i] = h.counts[i]
    BY <1>1 DEF Ints
<1> HIDE DEF c, D
<1>5. SumFunctionOnSet(c, D) = SumFunctionOnSet(h.counts, D) + c[k] - h.counts[k]
    BY <1>1, <1>4, SumChanges
<1>6. SumFunctionOnSet(c, D) = h.total + 1 /\ h.total \in Nat
    BY <1>4, <1>5, GoodCounts DEF D
<1> DEFINE t == h.total + 1
<1>7. t \in Nat
    BY <1>6
<1> HIDE DEF t
<1>8. ObserveUs(h, us) = [h EXCEPT !.total = t, !.counts = c]
    BY <1>2 DEF t
<1>9. /\ ObserveUs(h, us) \in Histograms
      /\ ObserveUs(h, us).total = t /\ ObserveUs(h, us).counts = c
      /\ ObserveUs(h, us).scale = h.scale
    BY <1>1, <1>3, <1>7, <1>8 DEF Histograms
<1>10. SumFunctionOnSet(c, DOMAIN c) = t /\ Len(c) = Len(Edges["io"]) + 1 /\ h.scale = "io"
    BY <1>3, <1>6, GoodCounts DEF t
<1> QED
    BY <1>9, <1>10 DEF GoodLatencies, AddsUp, SumFunction, t

LEMMA MergeIsGood ==
    ASSUME NEW h \in GoodLatencies, NEW o \in GoodLatencies
    PROVE  Merge(h, o) \in GoodLatencies /\ Merge(h, o).total = h.total + o.total
<1> DEFINE D == 1..(Len(Edges["io"]) + 1)
           c == [i \in D |-> h.counts[i] + o.counts[i]]
<1>1. /\ DOMAIN h.counts = D /\ DOMAIN o.counts = D /\ IsFiniteSet(D)
      /\ Ints(h.counts, D) /\ Ints(o.counts, D)
      /\ h.counts \in Seq(Nat) /\ o.counts \in Seq(Nat)
      /\ Len(o.counts) = Len(Edges["io"]) + 1 /\ Len(h.counts) = Len(Edges["io"]) + 1
      /\ h \in Histograms /\ o \in Histograms
    BY GoodCounts
<1>2. [h EXCEPT !.scale = IF h.scale = "io" THEN o.scale ELSE h.scale] = h
    BY GoodCounts DEF Histograms
<1>3. \A i \in D : h.counts[i] + (IF i <= Len(o.counts) THEN o.counts[i] ELSE 0) = c[i]
    BY <1>1
<1> DEFINE t == h.total + o.total
           n == h.failures + o.failures
           d == [i \in DOMAIN h.counts |->
                    h.counts[i] + (IF i <= Len(o.counts) THEN o.counts[i] ELSE 0)]
<1>11. Merge(h, o) = [h EXCEPT !.total = t, !.failures = n, !.counts = d]
  <2> DEFINE g == ensureCounts([h EXCEPT !.scale = IF @ = "io" THEN o.scale ELSE @])
  <2>1. g = h
    BY <1>2, GoodIsEnsured
  <2>2. Merge(h, o) = [g EXCEPT !.total = @ + o.total,
                  !.failures = @ + o.failures,
                  !.counts = [i \in DOMAIN @ |->
                      @[i] + IF i <= Len(o.counts) THEN o.counts[i] ELSE 0]]
    BY DEF Merge
  <2> HIDE DEF g
  <2> QED
    BY <1>1, <2>1, <2>2 DEF Histograms
<1>12. d = c
    BY <1>1, <1>3
<1>4. Merge(h, o) = [h EXCEPT !.total = t, !.failures = n, !.counts = c]
    BY <1>11, <1>12
<1>5. c \in Seq(Nat) /\ Len(c) = Len(Edges["io"]) + 1 /\ DOMAIN c = D
  <2> DEFINE N == Len(Edges["io"]) + 1
  <2>6. \A i \in D : h.counts[i] \in Nat /\ o.counts[i] \in Nat
    <3> DEFINE a == h.counts
               b == o.counts
    <3>1. a \in Seq(Nat) /\ b \in Seq(Nat) /\ DOMAIN a = D /\ DOMAIN b = D
      BY <1>1
    <3> HIDE DEF a, b, D
    <3>2. \A i \in D : a[i] \in Nat /\ b[i] \in Nat
      BY <3>1
    <3> QED
      BY <3>2 DEF a, b
  <2>1. N \in Nat /\ \A i \in D : c[i] \in Nat
    <3>1. N \in Nat
      BY EdgesAreNumbers
    <3> QED
      BY <2>6, <3>1
  <2>2. D = 1..N /\ DOMAIN c = D
    OBVIOUS
  <2>3. c = [i \in D |-> c[i]]
    OBVIOUS
  <2> HIDE DEF c, D, N
  <2>4. c \in [1..N -> Nat]
    BY <2>1, <2>2, <2>3
  <2>5. c \in Seq(Nat) /\ Len(c) = N
    BY <2>1, <2>4
  <2> QED
    BY <2>2, <2>5 DEF N
<1>6. \A i \in D : c[i] = h.counts[i] + o.counts[i]
    OBVIOUS
<1> HIDE DEF c, D
<1>7. SumFunctionOnSet(c, D) = SumFunctionOnSet(h.counts, D) + SumFunctionOnSet(o.counts, D)
    BY <1>1, <1>6, SumAdds
<1>8. SumFunctionOnSet(c, D) = t /\ t \in Nat
  <2>1. /\ h.total = SumFunctionOnSet(h.counts, D) /\ h.total \in Nat
        /\ o.total = SumFunctionOnSet(o.counts, D) /\ o.total \in Nat
    BY <1>1, GoodCounts
  <2> QED
    BY <1>7, <2>1
<1>13. n \in Nat
    BY <1>1 DEF Histograms
<1> HIDE DEF t, n
<1>9. /\ Merge(h, o) \in Histograms
      /\ Merge(h, o).total = t /\ Merge(h, o).counts = c /\ Merge(h, o).scale = h.scale
    BY <1>1, <1>4, <1>5, <1>8, <1>13 DEF Histograms
<1>10. h.scale = "io" /\ SumFunctionOnSet(c, DOMAIN c) = t
    BY <1>5, <1>8, GoodCounts
<1> QED
    BY <1>5, <1>9, <1>10 DEF GoodLatencies, AddsUp, SumFunction, t

-----------------------------------------------------------------------------
(***************************************************************************)
(* Buckets, points and what they tell of                                   *)
(***************************************************************************)
LEMMA MaxOfSet ==
    ASSUME NEW S, IsFiniteSet(S), S \subseteq Int, S # {}
    PROVE  Max(S) \in S /\ \A x \in S : x <= Max(S)
<1> DEFINE P == {T \in SUBSET S : T # {} => \E m \in T : \A x \in T : m >= x}
<1>1. {} \in P
    OBVIOUS
<1>2. ASSUME NEW T \in SUBSET S, NEW y \in S \ T, T \in P
      PROVE  T \cup {y} \in P
  <2>1. \E m \in T \cup {y} : \A x \in T \cup {y} : m >= x
    <3>1. CASE T = {}
      BY <3>1
    <3>2. CASE T # {}
      <4>1. PICK m \in T : \A x \in T : m >= x
        BY <1>2, <3>2
      <4>2. CASE m >= y
        BY <4>1, <4>2
      <4>3. CASE ~(m >= y)
        <5>1. \A x \in T : y >= x
          BY <4>1, <4>3
        <5> QED
          BY <5>1
      <4> QED
        BY <4>2, <4>3
    <3> QED
      BY <3>1, <3>2
  <2> QED
    BY <2>1
<1> HIDE DEF P
<1>3. S \in P
    BY <1>1, <1>2, SetInduct
<1>4. PICK m \in S : \A x \in S : m >= x
    BY <1>3 DEF P
<1>5. Max(S) \in S /\ \A x \in S : Max(S) >= x
    BY <1>4 DEF Max
<1> QED
    BY <1>5

LEMMA Limits ==
    /\ MaxTime \in Nat /\ MaxRuns \in Nat /\ Ahead \in Nat /\ Late \in Nat /\ CatchUp \in Nat
    /\ Retention \in Nat /\ InCap \in Nat /\ Unit \in Nat
    /\ MaxTime > 0 /\ InCap > 0
    /\ \A w \in Windows : w \in Nat /\ w > 0 /\ w <= Max(Windows)
    /\ Max(Windows) \in Nat /\ Max(Windows) > 0
<1>1. /\ MaxTime \in Nat /\ MaxRuns \in Nat /\ Ahead \in Nat /\ Late \in Nat /\ CatchUp \in Nat
      /\ Retention \in Nat /\ InCap \in Nat /\ Unit \in Nat
      /\ MaxTime > 0 /\ InCap > 0
      /\ \A w \in Windows : w \in Nat /\ w > 0
    BY MetricsAssumption
<1>2. IsFiniteSet(Windows) /\ Windows \subseteq Int /\ Windows # {}
    BY MetricsAssumption
<1>3. Max(Windows) \in Windows /\ \A w \in Windows : w <= Max(Windows)
    BY <1>2, MaxOfSet
<1> QED
    BY <1>1, <1>3

LEMMA SecondsAreFinite ==
    /\ IsFiniteSet(Seconds)
    /\ Seconds \subseteq Int
    /\ \A x, y \in Seconds : x..y \subseteq Seconds
<1>1. 1 - Max(Windows) \in Int /\ MaxTime + Ahead \in Int
    BY Limits
<1> QED
    BY <1>1, FS_Interval DEF Seconds

Buckets(b) == DOMAIN b \subseteq Seconds /\ \A s \in DOMAIN b : b[s] \in Nat

LEMMA BucketsAddUp ==
    ASSUME NEW b, Buckets(b)
    PROVE  IsFiniteSet(DOMAIN b) /\ Ints(b, DOMAIN b) /\ SumFunction(b) \in Nat
<1>1. IsFiniteSet(DOMAIN b)
    BY SecondsAreFinite, FS_Subset DEF Buckets
<1>2. Ints(b, DOMAIN b)
    BY DEF Buckets, Ints
<1>3. SumFunction(b) \in Nat
    BY <1>1, SumIsNat DEF Buckets, SumFunction
<1> QED
    BY <1>1, <1>2, <1>3

\* The operations of each point.
OpsOf(h) == [i \in DOMAIN h |-> h[i].ops]

LEMMA OpsAreNumbers ==
    ASSUME NEW h \in Seq(Points)
    PROVE  /\ OpsOf(h) \in Seq(Nat) /\ OpsOf(h) \in Seq(Int)
           /\ Len(OpsOf(h)) = Len(h) /\ DOMAIN OpsOf(h) = DOMAIN h
           /\ DOMAIN h = 1..Len(h) /\ Len(h) \in Nat /\ IsFiniteSet(DOMAIN h)
           /\ Ints(OpsOf(h), DOMAIN h)
           /\ Ops(h) = SumFunctionOnSet(OpsOf(h), DOMAIN h)
           /\ Ops(h) \in Nat
<1>1. \A i \in DOMAIN h : h[i].ops \in Nat
  <2>1. \A i \in DOMAIN h : h[i] \in Points
    OBVIOUS
  <2> QED
    BY <2>1 DEF Points
<1>2. DOMAIN h = 1..Len(h) /\ Len(h) \in Nat /\ IsFiniteSet(DOMAIN h)
    BY SeqIsFinite
<1>3. OpsOf(h) \in [1..Len(h) -> Nat]
    BY <1>1, <1>2 DEF OpsOf
<1>4. OpsOf(h) \in Seq(Nat) /\ OpsOf(h) \in Seq(Int) /\ Len(OpsOf(h)) = Len(h)
    BY <1>2, <1>3
<1>5. Ops(h) = SumFunction(OpsOf(h))
    BY DEF Ops, OpsOf
<1>6. Ops(h) \in Nat
    BY <1>4, <1>5, SumOfSeq
<1>7. DOMAIN OpsOf(h) = DOMAIN h /\ Ints(OpsOf(h), DOMAIN h)
    BY <1>1 DEF OpsOf, Ints
<1> QED
    BY <1>2, <1>4, <1>5, <1>6, <1>7 DEF SumFunction

LEMMA PointIsThere ==
    ASSUME NEW h \in Seq(Points), NEW s \in Seconds
    PROVE  PointOf(h, s) \in DOMAIN h \cup {0}
<1> DEFINE upTo == {i \in DOMAIN h : h[i].sec <= s}
<1>1. upTo \in SUBSET DOMAIN h /\ IsFiniteSet(DOMAIN h) /\ DOMAIN h \subseteq Int
    BY OpsAreNumbers
<1>2. IsFiniteSet(upTo)
    BY <1>1, FS_Subset
<1>3. upTo # {} => Max(upTo) \in DOMAIN h
  <2> HIDE DEF upTo
  <2> QED
    BY <1>1, <1>2, MaxOfSet
<1>4. PointOf(h, s) = IF upTo # {} /\ h[Max(upTo)].sec = s THEN Max(upTo) ELSE 0
    BY DEF PointOf
<1> QED
    BY <1>3, <1>4

\* The history and the buckets tell of so many operations.
Told(h, b) == SumFunction(b) + Ops(h)

\* The seconds of V that are credited to point i.
Patched(h, b, V, i) == {s \in V \ DOMAIN b : PointOf(h, s) = i}

\* c is the history h with inc operations more for each second of V it has.
HistoryIsCredited(c, h, b, V, inc) ==
    /\ c \in Seq(Points)
    /\ Len(c) = Len(h)
    /\ DOMAIN c = DOMAIN h
    /\ \A i \in DOMAIN h :
           /\ c[i].ops = h[i].ops + inc * Cardinality(Patched(h, b, V, i))
           /\ c[i].sec = h[i].sec
           /\ h[i].ops \in Nat
           /\ Cardinality(Patched(h, b, V, i)) \in Nat

LEMMA CreditedHistoryIs ==
    ASSUME NEW h \in Seq(Points), NEW b, NEW V \in SUBSET Seconds, NEW inc \in Nat
    PROVE  HistoryIsCredited(CreditedHistory(h, b, V, inc), h, b, V, inc)
<1> DEFINE c == CreditedHistory(h, b, V, inc)
           N(i) == Cardinality(Patched(h, b, V, i))
<1>1. DOMAIN h = 1..Len(h) /\ Len(h) \in Nat
    BY OpsAreNumbers
<1>2. ASSUME NEW i \in DOMAIN h
      PROVE  N(i) \in Nat
  <2>1. Patched(h, b, V, i) \in SUBSET Seconds
    BY DEF Patched
  <2> QED
    BY <2>1, SecondsAreFinite, FS_Subset, FS_CardinalityType
<1>3. c = [i \in DOMAIN h |-> [h[i] EXCEPT !.ops = @ + inc * N(i)]]
    BY DEF CreditedHistory, Patched
<1> HIDE DEF c, N
<1>4. ASSUME NEW i \in DOMAIN h
      PROVE  /\ c[i] \in Points
             /\ c[i].ops = h[i].ops + inc * N(i) /\ c[i].sec = h[i].sec
             /\ h[i].ops \in Nat
  <2> DEFINE n == inc * N(i)
  <2>1. n \in Nat
    BY <1>2
  <2>2. h[i] \in Points /\ c[i] = [h[i] EXCEPT !.ops = @ + n]
    BY <1>3
  <2> HIDE DEF n
  <2>3. c[i] \in Points /\ c[i].ops = h[i].ops + n /\ c[i].sec = h[i].sec /\ h[i].ops \in Nat
    BY <2>1, <2>2 DEF Points
  <2> QED
    BY <2>3 DEF n
<1>5. DOMAIN c = DOMAIN h
    BY <1>3
<1>6. c \in [1..Len(h) -> Points]
    BY <1>1, <1>3, <1>4
<1>7. c \in Seq(Points) /\ Len(c) = Len(h)
    BY <1>1, <1>6
<1> QED
    BY <1>2, <1>4, <1>5, <1>7 DEF c, N, HistoryIsCredited

\* c is the buckets b with inc operations more for each second of V they have,
\* or that the history does not have.
BucketsAreCredited(c, h, b, V, inc) ==
    /\ Buckets(c)
    /\ DOMAIN c = DOMAIN b \cup {t \in V : PointOf(h, t) = 0}
    /\ \A s \in DOMAIN c :
           c[s] = (IF s \in DOMAIN b THEN b[s] ELSE 0) + (IF s \in V THEN inc ELSE 0)

LEMMA CreditedBucketsAre ==
    ASSUME NEW h \in Seq(Points), NEW b, Buckets(b), NEW V \in SUBSET Seconds, NEW inc \in Nat
    PROVE  BucketsAreCredited(CreditedBuckets(h, b, V, inc), h, b, V, inc)
<1> DEFINE c == CreditedBuckets(h, b, V, inc)
           D == DOMAIN b \cup {t \in V : PointOf(h, t) = 0}
<1>1. c = [s \in D |-> (IF s \in DOMAIN b THEN b[s] ELSE 0) + (IF s \in V THEN inc ELSE 0)]
    BY DEF CreditedBuckets
<1>2. D \subseteq Seconds
    BY DEF Buckets
<1> HIDE DEF c, D
<1>3. \A s \in D : c[s] \in Nat
    BY <1>1 DEF Buckets
<1>4. DOMAIN c = D
    BY <1>1
<1>5. Buckets(c)
    BY <1>2, <1>3, <1>4 DEF Buckets
<1> QED
    BY <1>1, <1>4, <1>5 DEF c, D, BucketsAreCredited

\* creditSecond tells of inc operations more.
LEMMA CreditTells ==
    ASSUME NEW h \in Seq(Points), NEW b, Buckets(b), NEW V \in SUBSET Seconds, NEW inc \in Nat,
           NEW t \in Seconds \ V
    PROVE  LET W == V \cup {t}
           IN  Told(CreditedHistory(h, b, W, inc), CreditedBuckets(h, b, W, inc)) =
                   Told(CreditedHistory(h, b, V, inc), CreditedBuckets(h, b, V, inc)) + inc
<1> DEFINE W == V \cup {t}
           p == PointOf(h, t)
           hV == CreditedHistory(h, b, V, inc)
           hW == CreditedHistory(h, b, W, inc)
           bV == CreditedBuckets(h, b, V, inc)
           bW == CreditedBuckets(h, b, W, inc)
           At(U, i) == Patched(h, b, U, i)
<1> SUFFICES Told(hW, bW) = Told(hV, bV) + inc
    OBVIOUS
<1>1. W \in SUBSET Seconds
    OBVIOUS
<1>2. p \in DOMAIN h \cup {0} /\ 0 \notin DOMAIN h
    BY PointIsThere, OpsAreNumbers
<1>3. /\ Buckets(bV) /\ Buckets(bW)
      /\ DOMAIN bV = DOMAIN b \cup {s \in V : PointOf(h, s) = 0}
      /\ DOMAIN bW = DOMAIN b \cup {s \in W : PointOf(h, s) = 0}
      /\ \A s \in DOMAIN bV :
             bV[s] = (IF s \in DOMAIN b THEN b[s] ELSE 0) + (IF s \in V THEN inc ELSE 0)
      /\ \A s \in DOMAIN bW :
             bW[s] = (IF s \in DOMAIN b THEN b[s] ELSE 0) + (IF s \in W THEN inc ELSE 0)
  <2>1. /\ BucketsAreCredited(bV, h, b, V, inc)
        /\ BucketsAreCredited(bW, h, b, W, inc)
    BY <1>1, CreditedBucketsAre
  <2> HIDE DEF bV, bW, W
  <2> QED
    BY <2>1 DEF BucketsAreCredited
<1>4. /\ hV \in Seq(Points) /\ hW \in Seq(Points)
      /\ DOMAIN hV = DOMAIN h /\ DOMAIN hW = DOMAIN h
      /\ Len(hV) = Len(h) /\ Len(hW) = Len(h)
      /\ \A i \in DOMAIN h : /\ hV[i].ops = h[i].ops + inc * Cardinality(At(V, i))
                             /\ hW[i].ops = h[i].ops + inc * Cardinality(At(W, i))
                             /\ h[i].ops \in Nat
                             /\ Cardinality(At(V, i)) \in Nat /\ Cardinality(At(W, i)) \in Nat
  <2>1. /\ HistoryIsCredited(hV, h, b, V, inc)
        /\ HistoryIsCredited(hW, h, b, W, inc)
    BY <1>1, CreditedHistoryIs
  <2> HIDE DEF hV, hW, W
  <2> QED
    BY <2>1 DEF HistoryIsCredited
<1> HIDE DEF hV, hW, bV, bW
<1>5. /\ Ops(hV) = SumFunctionOnSet(OpsOf(hV), DOMAIN h) /\ Ops(hV) \in Nat
      /\ Ops(hW) = SumFunctionOnSet(OpsOf(hW), DOMAIN h) /\ Ops(hW) \in Nat
      /\ IsFiniteSet(DOMAIN h) /\ Ints(OpsOf(hV), DOMAIN h) /\ Ints(OpsOf(hW), DOMAIN h)
      /\ \A i \in DOMAIN h : OpsOf(hV)[i] = hV[i].ops /\ OpsOf(hW)[i] = hW[i].ops
    BY <1>4, OpsAreNumbers DEF OpsOf
<1>6. /\ SumFunction(bV) = SumFunctionOnSet(bV, DOMAIN bV) /\ SumFunction(bV) \in Nat
      /\ SumFunction(bW) = SumFunctionOnSet(bW, DOMAIN bW) /\ SumFunction(bW) \in Nat
      /\ IsFiniteSet(DOMAIN bV) /\ Ints(bV, DOMAIN bV)
      /\ IsFiniteSet(DOMAIN bW) /\ Ints(bW, DOMAIN bW)
    BY <1>3, BucketsAddUp DEF SumFunction
<1>7. ASSUME t \in DOMAIN b \/ p = 0
      PROVE  Ops(hW) = Ops(hV)
  <2>1. \A i \in DOMAIN h : At(W, i) = At(V, i)
    BY <1>2, <1>7 DEF Patched
  <2>2. \A i \in DOMAIN h : OpsOf(hW)[i] = OpsOf(hV)[i]
    BY <1>4, <1>5, <2>1
  <2> QED
    BY <1>5, <2>2, SumAgrees
<1>8. CASE t \in DOMAIN b
  <2>1. DOMAIN bW = DOMAIN bV /\ t \in DOMAIN bV
    BY <1>3, <1>8
  <2>2. \A s \in DOMAIN bV \ {t} : bW[s] = bV[s]
    BY <1>3, <2>1
  <2>3. bW[t] = b[t] + inc /\ bV[t] = b[t] /\ b[t] \in Nat
    BY <1>3, <1>8, <2>1 DEF Buckets
  <2>4. SumFunctionOnSet(bW, DOMAIN bV) = SumFunctionOnSet(bV, DOMAIN bV) + bW[t] - bV[t]
    BY <1>6, <2>1, <2>2, <2>3, SumChanges
  <2>5. SumFunction(bW) = SumFunction(bV) + inc
    BY <1>6, <2>1, <2>3, <2>4
  <2> QED
    BY <1>5, <1>6, <1>7, <1>8, <2>5 DEF Told
<1>9. CASE t \notin DOMAIN b /\ p = 0
  <2>1. t \in DOMAIN bW /\ DOMAIN bW \ {t} = DOMAIN bV
    BY <1>3, <1>9
  <2>2. \A s \in DOMAIN bV : bW[s] = bV[s]
    BY <1>3, <2>1
  <2>3. bW[t] = inc
    BY <1>3, <1>9, <2>1
  <2>4. SumFunctionOnSet(bW, DOMAIN bW) = bW[t] + SumFunctionOnSet(bW, DOMAIN bW \ {t})
    BY <1>6, <2>1, SumTakes
  <2>5. SumFunctionOnSet(bW, DOMAIN bV) = SumFunctionOnSet(bV, DOMAIN bV)
    BY <1>6, <2>2, SumAgrees
  <2>6. SumFunction(bW) = SumFunction(bV) + inc
    BY <1>6, <2>1, <2>3, <2>4, <2>5
  <2> QED
    BY <1>5, <1>6, <1>7, <1>9, <2>6 DEF Told
<1>10. CASE t \notin DOMAIN b /\ p # 0
  <2>1. DOMAIN bW = DOMAIN bV /\ \A s \in DOMAIN bV : bW[s] = bV[s]
    BY <1>3, <1>10
  <2>2. SumFunction(bW) = SumFunction(bV)
    BY <1>6, <2>1, SumAgrees
  <2>3. \A i \in DOMAIN h \ {p} : At(W, i) = At(V, i)
    BY DEF Patched
  <2>4. At(W, p) = At(V, p) \cup {t} /\ t \notin At(V, p) /\ IsFiniteSet(At(V, p))
    <3>1. At(V, p) \in SUBSET Seconds
      BY DEF Patched
    <3>2. IsFiniteSet(At(V, p))
      BY <3>1, SecondsAreFinite, FS_Subset
    <3> QED
      BY <1>10, <3>2 DEF Patched
  <2>5. Cardinality(At(W, p)) = Cardinality(At(V, p)) + 1
    BY <2>4, FS_AddElement
  <2>6. p \in DOMAIN h
    BY <1>2, <1>10
  <2> DEFINE m == Cardinality(At(V, p))
  <2>7. hW[p].ops = h[p].ops + inc * (m + 1) /\ hV[p].ops = h[p].ops + inc * m
        /\ h[p].ops \in Nat /\ m \in Nat
    BY <1>4, <2>5, <2>6
  <2>8. \A i \in DOMAIN h \ {p} : OpsOf(hW)[i] = OpsOf(hV)[i]
    BY <1>4, <1>5, <2>3
  <2> HIDE DEF m
  <2>9. inc * (m + 1) = inc * m + inc /\ inc * m \in Nat
    BY <2>7
  <2>10. OpsOf(hW)[p] = OpsOf(hV)[p] + inc /\ OpsOf(hW)[p] \in Int /\ OpsOf(hV)[p] \in Int
    <3> DEFINE n == inc * m
               k == inc * (m + 1)
    <3>1. n \in Nat /\ k = n + inc
      BY <2>9
    <3>2. hW[p].ops = h[p].ops + k /\ hV[p].ops = h[p].ops + n
      BY <2>7
    <3>3. OpsOf(hW)[p] = hW[p].ops /\ OpsOf(hV)[p] = hV[p].ops /\ h[p].ops \in Nat
      BY <1>5, <2>6, <2>7
    <3> HIDE DEF n, k
    <3> DEFINE a == h[p].ops
    <3>4. a \in Nat /\ OpsOf(hW)[p] = a + k /\ OpsOf(hV)[p] = a + n
      BY <3>2, <3>3
    <3> HIDE DEF a
    <3> QED
      BY <3>1, <3>4
  <2>11. SumFunctionOnSet(OpsOf(hW), DOMAIN h) =
             SumFunctionOnSet(OpsOf(hV), DOMAIN h) + OpsOf(hW)[p] - OpsOf(hV)[p]
    BY <1>5, <2>6, <2>8, <2>10, SumChanges
  <2>12. Ops(hW) = Ops(hV) + inc
    BY <1>5, <2>10, <2>11
  <2> QED
    BY <1>5, <1>6, <2>2, <2>12 DEF Told
<1> QED
    BY <1>8, <1>9, <1>10

LEMMA WindowTells ==
    ASSUME NEW h \in Seq(Points), NEW b, Buckets(b), NEW V \in SUBSET Seconds, NEW inc \in Nat
    PROVE  Told(CreditedHistory(h, b, V, inc), CreditedBuckets(h, b, V, inc)) =
               Told(h, b) + inc * Cardinality(V)
<1> DEFINE T(U) == Told(CreditedHistory(h, b, U, inc), CreditedBuckets(h, b, U, inc))
           P == {U \in SUBSET V : T(U) = Told(h, b) + inc * Cardinality(U)}
<1>1. IsFiniteSet(V) /\ Told(h, b) \in Nat
  <2>1. IsFiniteSet(V)
    BY SecondsAreFinite, FS_Subset
  <2>2. Ops(h) \in Nat /\ SumFunction(b) \in Nat
    BY OpsAreNumbers, BucketsAddUp
  <2> QED
    BY <2>1, <2>2 DEF Told
<1>2. \A U \in SUBSET V : IsFiniteSet(U) /\ Cardinality(U) \in Nat
    BY <1>1, FS_Subset, FS_CardinalityType
<1>3. {} \in P
  <2> DEFINE c == CreditedHistory(h, b, {}, inc)
             d == CreditedBuckets(h, b, {}, inc)
  <2>1. c \in Seq(Points) /\ Len(c) = Len(h) /\ DOMAIN c = DOMAIN h
        /\ \A i \in DOMAIN h : c[i].ops = h[i].ops + inc * 0
    <3>1. \A i \in DOMAIN h : Patched(h, b, {}, i) = {}
      BY DEF Patched
    <3>2. Cardinality({}) = 0
      BY FS_EmptySet
    <3>3. HistoryIsCredited(c, h, b, {}, inc)
      BY CreditedHistoryIs
    <3> HIDE DEF c
    <3> QED
      BY <3>1, <3>2, <3>3 DEF HistoryIsCredited
  <2>2. Buckets(d) /\ DOMAIN d = DOMAIN b /\ \A s \in DOMAIN b : d[s] = b[s]
    <3>1. BucketsAreCredited(d, h, b, {}, inc)
      BY CreditedBucketsAre
    <3> HIDE DEF d
    <3> QED
      BY <3>1 DEF BucketsAreCredited, Buckets
  <2> HIDE DEF c, d
  <2>3. \A i \in DOMAIN h : OpsOf(c)[i] = OpsOf(h)[i]
    <3>1. \A i \in DOMAIN h : OpsOf(h)[i] = h[i].ops /\ OpsOf(h)[i] \in Int
      BY OpsAreNumbers DEF OpsOf, Ints
    <3>2. \A i \in DOMAIN h : OpsOf(c)[i] = c[i].ops
      BY <2>1 DEF OpsOf
    <3> QED
      BY <2>1, <3>1, <3>2
  <2>4. Ops(c) = Ops(h)
    <3>1. /\ Ops(c) = SumFunctionOnSet(OpsOf(c), DOMAIN h)
          /\ Ops(h) = SumFunctionOnSet(OpsOf(h), DOMAIN h)
          /\ IsFiniteSet(DOMAIN h)
      BY <2>1, OpsAreNumbers
    <3> QED
      BY <2>3, <3>1, SumAgrees
  <2>5. SumFunction(d) = SumFunction(b)
    BY <2>2, BucketsAddUp, SumAgrees DEF SumFunction
  <2>6. T({}) = Told(h, b) /\ inc * Cardinality({}) = 0
    BY <2>4, <2>5, FS_EmptySet DEF Told, c, d
  <2>7. T({}) = Told(h, b) + inc * Cardinality({})
    BY <1>1, <2>6
  <2> QED
    BY <2>7
<1>4. ASSUME NEW U \in SUBSET V, NEW t \in V \ U, U \in P
      PROVE  U \cup {t} \in P
  <2>1. T(U \cup {t}) = T(U) + inc
    BY CreditTells
  <2>2. Cardinality(U \cup {t}) = Cardinality(U) + 1
    BY <1>2, FS_AddElement
  <2> DEFINE m == Cardinality(U)
             n == Cardinality(U \cup {t})
             x == T(U)
             y == T(U \cup {t})
  <2>3. m \in Nat /\ n = m + 1 /\ y = x + inc /\ x = Told(h, b) + inc * m
    BY <1>2, <1>4, <2>1, <2>2
  <2> HIDE DEF m, n, x, y, T
  <2>4. inc * n = inc * m + inc /\ inc * m \in Nat
    BY <2>3
  <2>5. y = Told(h, b) + inc * n
    <3> DEFINE k == inc * m
               l == inc * n
    <3>1. k \in Nat /\ l = k + inc /\ x = Told(h, b) + k
      BY <2>3, <2>4
    <3> HIDE DEF k, l
    <3>2. y = Told(h, b) + l
      BY <1>1, <2>3, <3>1
    <3> QED
      BY <3>2 DEF l
  <2>6. U \cup {t} \in SUBSET V
    OBVIOUS
  <2> QED
    BY <2>5, <2>6 DEF n, y
<1> HIDE DEF P
<1>5. V \in P
    BY <1>1, <1>3, <1>4, SetInduct
<1> QED
    BY <1>5 DEF P

Rank(S, s) == Cardinality({t \in S : t <= s})

\* q names the elements of S, each once, in increasing order.
Enumerates(q, S) ==
    /\ DOMAIN q = 1..Cardinality(S)
    /\ \A i \in DOMAIN q : q[i] \in S
    /\ \A s \in S : \E i \in DOMAIN q : s = q[i]
    /\ \A i, j \in DOMAIN q : q[i] = q[j] => i = j

LEMMA RankGrows ==
    ASSUME NEW S, IsFiniteSet(S), S \subseteq Int
    PROVE  /\ \A s \in S : Rank(S, s) \in 1..Cardinality(S)
           /\ \A s, t \in S : Rank(S, s) = Rank(S, t) => s = t
<1> DEFINE U(s) == {t \in S : t <= s}
<1>1. Cardinality(S) \in Nat
    BY FS_CardinalityType
<1>2. ASSUME NEW s \in S
      PROVE  /\ IsFiniteSet(U(s)) /\ Cardinality(U(s)) \in Nat
             /\ Cardinality(U(s)) <= Cardinality(S) /\ Cardinality(U(s)) # 0
  <2>1. U(s) \in SUBSET S /\ s \in U(s)
    OBVIOUS
  <2> HIDE DEF U
  <2> QED
    BY <2>1, FS_Subset, FS_CardinalityType, FS_EmptySet
<1>3. ASSUME NEW s \in S, NEW t \in S, s < t, Cardinality(U(s)) = Cardinality(U(t))
      PROVE  FALSE
  <2>1. U(s) \in SUBSET U(t) /\ U(s) # U(t)
    <3>1. s \in Int /\ t \in Int /\ s < t
      BY <1>3
    <3>2. \A x \in S : x <= s => x <= t
      <4> SUFFICES ASSUME NEW x \in S, x <= s
                   PROVE  x <= t
        OBVIOUS
      <4>1. x \in Int
        OBVIOUS
      <4> QED
        BY <3>1, <4>1
    <3>3. t <= t /\ ~(t <= s)
      BY <3>1
    <3>4. t \in U(t) /\ t \notin U(s)
      BY <3>3
    <3> QED
      BY <3>2, <3>4
  <2>2. IsFiniteSet(U(t))
    BY <1>2
  <2> HIDE DEF U
  <2> QED
    BY <1>3, <2>1, <2>2, FS_Subset
<1>4. \A s \in S : Rank(S, s) = Cardinality(U(s))
    BY DEF Rank
<1> HIDE DEF U
<1>5. ASSUME NEW s \in S, NEW t \in S, Rank(S, s) = Rank(S, t)
      PROVE  s = t
  <2>1. Cardinality(U(s)) = Cardinality(U(t))
    BY <1>4, <1>5
  <2>2. ~(s < t) /\ ~(t < s) /\ s \in Int /\ t \in Int
    BY <1>3, <2>1
  <2> QED
    BY <2>2
<1>6. ASSUME NEW s \in S
      PROVE  Rank(S, s) \in 1..Cardinality(S)
  <2> DEFINE m == Cardinality(U(s))
             n == Cardinality(S)
  <2>1. m \in Nat /\ n \in Nat /\ m <= n /\ m # 0
    BY <1>1, <1>2
  <2>2. Rank(S, s) = m
    BY <1>4
  <2> HIDE DEF m, n
  <2>3. m \in 1..n
    BY <2>1
  <2> QED
    BY <2>2, <2>3 DEF n
<1> QED
    BY <1>5, <1>6

LEMMA InOrderEnumerates ==
    ASSUME NEW S, IsFiniteSet(S), S \subseteq Int
    PROVE  Enumerates(InOrder(S), S)
<1> DEFINE n == Cardinality(S)
           r == [s \in S |-> Rank(S, s)]
           q == InOrder(S)
<1>1. n \in Nat /\ IsFiniteSet(1..n) /\ Cardinality(1..n) = n
    BY FS_CardinalityType, FS_Interval
<1>2. r \in Injection(S, 1..n)
    BY RankGrows DEF Injection, IsInjective
<1>3. r \in Surjection(S, 1..n)
    BY <1>1, <1>2, FS_Injection
<1>4. \A i \in 1..n : \E s \in S : Rank(S, s) = i
    BY <1>3 DEF Surjection
<1>5. q = [i \in 1..n |-> CHOOSE s \in S : Rank(S, s) = i]
    BY DEF InOrder, Rank
<1> HIDE DEF q, n
<1>6. \A i \in 1..n : q[i] \in S /\ Rank(S, q[i]) = i
    BY <1>4, <1>5
<1>7. DOMAIN q = 1..n
    BY <1>5
<1>8. ASSUME NEW s \in S
      PROVE  \E i \in DOMAIN q : s = q[i]
  <2>1. Rank(S, s) \in 1..n
    BY RankGrows DEF n
  <2>2. q[Rank(S, s)] = s
    BY <1>6, <2>1, RankGrows
  <2> QED
    BY <1>7, <2>1, <2>2
<1>9. \A i, j \in DOMAIN q : q[i] = q[j] => i = j
    BY <1>6, <1>7
<1> QED
    BY <1>6, <1>7, <1>8, <1>9 DEF Enumerates, n, q

LEMMA OpsConcat ==
    ASSUME NEW h \in Seq(Points), NEW d \in Seq(Points)
    PROVE  h \o d \in Seq(Points) /\ Ops(h \o d) = Ops(h) + Ops(d)
<1>1. h \o d \in Seq(Points)
    BY ConcatProperties, SeqIsFinite
<1>2. OpsOf(h \o d) = OpsOf(h) \o OpsOf(d)
  <2>1. /\ OpsOf(h) \in Seq(Int) /\ OpsOf(d) \in Seq(Int)
        /\ Len(OpsOf(h)) = Len(h) /\ Len(OpsOf(d)) = Len(d)
        /\ Len(h) \in Nat /\ Len(d) \in Nat
        /\ DOMAIN h = 1..Len(h) /\ DOMAIN d = 1..Len(d)
        /\ OpsOf(h \o d) \in Seq(Int) /\ Len(OpsOf(h \o d)) = Len(h \o d)
    BY <1>1, OpsAreNumbers
  <2>2. /\ Len(h \o d) = Len(h) + Len(d)
        /\ \A i \in 1..(Len(h) + Len(d)) :
               (h \o d)[i] = IF i <= Len(h) THEN h[i] ELSE d[i - Len(h)]
    BY ConcatProperties
  <2>3. \A i \in 1..(Len(h) + Len(d)) : OpsOf(h \o d)[i] = (h \o d)[i].ops
    <3>1. DOMAIN (h \o d) = 1..(Len(h) + Len(d))
      BY <1>1, <2>2, OpsAreNumbers
    <3> QED
      BY <3>1 DEF OpsOf
  <2>4. /\ \A i \in 1..Len(h) : OpsOf(h)[i] = h[i].ops
        /\ \A i \in 1..Len(d) : OpsOf(d)[i] = d[i].ops
    BY <2>1 DEF OpsOf
  <2> DEFINE u == OpsOf(h)
             v == OpsOf(d)
             w == OpsOf(h \o d)
             m == Len(h)
             n == Len(d)
  <2>5. /\ u \o v \in Seq(Int) /\ Len(u \o v) = m + n
        /\ \A i \in 1..(m + n) : (u \o v)[i] = IF i <= m THEN u[i] ELSE v[i - m]
    <3>1. u \in Seq(Int) /\ v \in Seq(Int) /\ Len(u) = m /\ Len(v) = n
      BY <2>1
    <3> HIDE DEF u, v, m, n
    <3> QED
      BY <3>1, ConcatProperties
  <2>6. \A i \in 1..(m + n) : w[i] = (u \o v)[i]
    <3> SUFFICES ASSUME NEW i \in 1..(m + n)
                 PROVE  w[i] = (u \o v)[i]
      OBVIOUS
    <3>1. CASE i <= m
      <4>1. i \in 1..m /\ (u \o v)[i] = u[i] /\ (h \o d)[i] = h[i]
        BY <2>1, <2>2, <2>5, <3>1
      <4> QED
        BY <2>3, <2>4, <4>1
    <3>2. CASE ~(i <= m)
      <4>1. i - m \in 1..n /\ (u \o v)[i] = v[i - m] /\ (h \o d)[i] = d[i - m]
        BY <2>1, <2>2, <2>5, <3>2
      <4> QED
        BY <2>3, <2>4, <4>1
    <3> QED
      BY <3>1, <3>2
  <2>7. w \in Seq(Int) /\ Len(w) = m + n
    BY <2>1, <2>2
  <2> HIDE DEF u, v, w, m, n
  <2>8. w = u \o v
    BY <2>5, <2>6, <2>7, SeqEqual
  <2> QED
    BY <2>8 DEF u, v, w
<1>3. SumFunction(OpsOf(h) \o OpsOf(d)) = SumFunction(OpsOf(h)) + SumFunction(OpsOf(d))
    BY OpsAreNumbers, SumConcat
<1> QED
    BY <1>1, <1>2, <1>3 DEF Ops, OpsOf

\* flushClosed moves operations from the buckets to the history.
LEMMA FlushTells ==
    ASSUME NEW h \in Seq(Points), NEW b, Buckets(b), NEW sec \in Int
    PROVE  /\ FlushedHistory(h, b, sec) \in Seq(Points)
           /\ \E d \in Seq(Points) : FlushedHistory(h, b, sec) = h \o d
           /\ Buckets(FlushedBuckets(b, sec))
           /\ \A s \in DOMAIN FlushedBuckets(b, sec) : s >= sec
           /\ Told(FlushedHistory(h, b, sec), FlushedBuckets(b, sec)) = Told(h, b)
<1> DEFINE D == Due(b, sec)
           q == InOrder(D)
           d == [i \in DOMAIN q |-> [sec |-> q[i], ops |-> b[q[i]]]]
           n == Cardinality(D)
           c == FlushedBuckets(b, sec)
<1>1. /\ IsFiniteSet(DOMAIN b) /\ Ints(b, DOMAIN b) /\ SumFunction(b) \in Nat
      /\ DOMAIN b \subseteq Int
    BY BucketsAddUp, SecondsAreFinite DEF Buckets
<1>2. D \in SUBSET DOMAIN b /\ \A s \in DOMAIN b : s \in D <=> s < sec
    BY DEF Due
<1>3. IsFiniteSet(D) /\ n \in Nat /\ D \subseteq Int
    BY <1>1, <1>2, FS_Subset, FS_CardinalityType
<1>4. FlushedHistory(h, b, sec) = h \o d
    BY DEF FlushedHistory
<1> HIDE DEF D
<1>5. Enumerates(q, D)
    BY <1>3, InOrderEnumerates
<1> HIDE DEF q
<1>6. /\ DOMAIN d = 1..n /\ DOMAIN q = 1..n
      /\ \A i \in 1..n : /\ d[i] = [sec |-> q[i], ops |-> b[q[i]]]
                         /\ q[i] \in D /\ q[i] \in Seconds /\ b[q[i]] \in Nat
  <2>1. DOMAIN q = 1..n /\ \A i \in 1..n : q[i] \in D
    BY <1>5 DEF Enumerates
  <2>2. \A i \in 1..n : q[i] \in Seconds /\ b[q[i]] \in Nat
    BY <1>2, <2>1 DEF Buckets
  <2> QED
    BY <2>1, <2>2
<1>7. d \in Seq(Points)
  <2>1. \A i \in 1..n : d[i] \in Points
    BY <1>6 DEF Points
  <2>2. d = [i \in 1..n |-> d[i]]
    BY <1>6
  <2> HIDE DEF d, n
  <2>3. d \in [1..n -> Points]
    BY <2>1, <2>2
  <2> QED
    BY <1>3, <2>3
<1>8. \A i \in 1..n : d[i].ops = b[q[i]]
    BY <1>6
<1> HIDE DEF d
<1>9. h \o d \in Seq(Points) /\ Ops(h \o d) = Ops(h) + Ops(d)
    BY <1>7, OpsConcat
<1>10. Ops(d) = SumFunctionOnSet(b, D)
  <2>1. /\ Ops(d) = SumFunctionOnSet(OpsOf(d), DOMAIN d)
        /\ IsFiniteSet(DOMAIN d) /\ Ints(OpsOf(d), DOMAIN d)
    BY <1>7, OpsAreNumbers
  <2>2. Moved(OpsOf(d), DOMAIN d, b, D, q)
    BY <1>5, <1>6, <1>8 DEF Moved, Enumerates, OpsOf
  <2> QED
    BY <2>1, <2>2, SumMoves
<1>11. DOMAIN c = DOMAIN b \ D /\ \A s \in DOMAIN c : c[s] = b[s]
    BY DEF FlushedBuckets, D
<1> HIDE DEF c
<1>12. Buckets(c) /\ \A s \in DOMAIN c : s >= sec
  <2>1. \A s \in DOMAIN c : s >= sec
    BY <1>1, <1>2, <1>11
  <2> QED
    BY <1>11, <2>1 DEF Buckets
<1>13. SumFunction(c) = SumFunctionOnSet(b, DOMAIN b \ D)
    BY <1>11, <1>12, BucketsAddUp, SumAgrees DEF SumFunction
<1>14. SumFunction(b) = SumFunctionOnSet(b, D) + SumFunctionOnSet(b, DOMAIN b \ D)
    BY <1>1, <1>2, SumSplits DEF SumFunction
<1>15. Told(h \o d, c) = Told(h, b)
  <2>1. Ops(h) \in Nat /\ Ops(d) \in Nat /\ SumFunction(c) \in Nat
    BY <1>7, <1>12, OpsAreNumbers, BucketsAddUp
  <2> QED
    BY <1>9, <1>10, <1>13, <1>14, <2>1 DEF Told
<1>16. \E e \in Seq(Points) : h \o d = h \o e
    BY <1>7
<1> QED
    BY <1>4, <1>9, <1>12, <1>15, <1>16 DEF c

\* ensureSecondsThrough adds buckets without operations.
LEMMA EnsureTells ==
    ASSUME NEW h \in Seq(Points), NEW b, Buckets(b), NEW sec \in 1..MaxTime
    PROVE  /\ Buckets(ensureSecondsThrough(h, b, sec))
           /\ Told(h, ensureSecondsThrough(h, b, sec)) = Told(h, b)
<1> DEFINE first == IF h = << >> THEN sec ELSE Last(h).sec + 1
           start == IF sec - first > CatchUp THEN sec - CatchUp ELSE first
           D == DOMAIN b \cup start..sec
           c == ensureSecondsThrough(h, b, sec)
<1>1. c = [s \in D |-> IF s \in DOMAIN b THEN b[s] ELSE 0]
    BY DEF ensureSecondsThrough
<1>2. first \in Int /\ first >= 1 - Max(Windows)
  <2>1. CASE h = << >>
    BY <2>1, Limits
  <2>2. CASE h # << >>
    <3>1. Len(h) \in DOMAIN h
      BY <2>2, OpsAreNumbers, EmptySeq
    <3>2. Last(h) \in Points
      BY <3>1 DEF Last
    <3>3. Last(h).sec \in Seconds
      BY <3>2 DEF Points
    <3>4. Last(h).sec \in Int /\ Last(h).sec >= 1 - Max(Windows)
      BY <3>3, Limits DEF Seconds
    <3> QED
      BY <2>2, <3>4, Limits
  <2> QED
    BY <2>1, <2>2
<1>3. start..sec \subseteq Seconds
  <2> HIDE DEF first
  <2>1. start \in Int /\ start >= 1 - Max(Windows) /\ sec <= MaxTime + Ahead
    BY <1>2, Limits
  <2> HIDE DEF start
  <2> QED
    BY <2>1, Limits DEF Seconds
<1> HIDE DEF start, first
<1>4. D \subseteq Seconds /\ DOMAIN b \in SUBSET D
    BY <1>3 DEF Buckets
<1> HIDE DEF c, D
<1>5. Buckets(c) /\ DOMAIN c = D
    BY <1>1, <1>4 DEF Buckets
<1>6. IsFiniteSet(D) /\ Ints(c, D) /\ SumFunction(c) = SumFunctionOnSet(c, D)
    BY <1>5, BucketsAddUp DEF SumFunction
<1>7. SumFunctionOnSet(c, DOMAIN b) = SumFunction(b)
    BY <1>1, <1>4, BucketsAddUp, SumAgrees DEF SumFunction
<1>8. SumFunctionOnSet(c, D \ DOMAIN b) = 0
  <2> DEFINE R == D \ DOMAIN b
  <2>1. IsFiniteSet(R) /\ \A x \in R : c[x] = 0
    BY <1>1, <1>6, FS_Subset
  <2> HIDE DEF R
  <2>2. SumFunctionOnSet(c, R) = 0
    BY <2>1, SumOfZeros
  <2> QED
    BY <2>2 DEF R
<1>9. SumFunction(c) = SumFunction(b)
  <2>1. SumFunctionOnSet(c, D) =
            SumFunctionOnSet(c, DOMAIN b) + SumFunctionOnSet(c, D \ DOMAIN b)
    BY <1>4, <1>6, SumSplits
  <2>2. SumFunction(b) \in Nat
    BY BucketsAddUp
  <2> QED
    BY <1>6, <1>7, <1>8, <2>1, <2>2
<1> QED
    BY <1>5, <1>9 DEF Told, c

\* trim takes the points it drops, and only those.
LEMMA TrimTells ==
    ASSUME NEW h \in Seq(Points), now \in Int
    PROVE  /\ SubSeq(h, TrimCount(h) + 1, Len(h)) \in Seq(Points)
           /\ SubSeq(h, 1, TrimCount(h)) \in Seq(Points)
           /\ Ops(h) = Ops(SubSeq(h, 1, TrimCount(h)))
                           + Ops(SubSeq(h, TrimCount(h) + 1, Len(h)))
<1> DEFINE kept == {i \in DOMAIN h : h[i].sec >= now - Retention}
           n == TrimCount(h)
           N == Len(h)
<1>1. DOMAIN h = 1..N /\ N \in Nat
    BY OpsAreNumbers
<1>2. n = IF kept = {} THEN N ELSE Min(kept) - 1
    BY DEF TrimCount
<1>3. kept \subseteq 1..N
    BY <1>1
<1> HIDE DEF kept, n, N
<1>4. n \in 0..N
  <2>1. CASE kept = {}
    BY <1>1, <1>2, <2>1
  <2>2. CASE kept # {}
    <3>1. kept \subseteq Nat
      BY <1>1, <1>3
    <3>2. \E x \in kept : \A y \in kept : x <= y
      BY <2>2, <3>1, LeastOf
    <3>3. Min(kept) \in kept
      BY <3>2 DEF Min
    <3>4. Min(kept) \in 1..N
      BY <1>3, <3>3
    <3> QED
      BY <1>1, <1>2, <2>2, <3>4
  <2> QED
    BY <2>1, <2>2
<1>5. SubSeq(h, 1, n) \in Seq(Points) /\ SubSeq(h, n + 1, N) \in Seq(Points)
  <2>1. \A i \in 1..N : h[i] \in Points
    BY <1>1
  <2>2. (\A i \in 1..n : h[i] \in Points) /\ (\A i \in (n + 1)..N : h[i] \in Points)
    BY <1>1, <1>4, <2>1
  <2>3. n \in Int /\ n + 1 \in Int /\ 1 \in Int /\ N \in Int
    BY <1>1, <1>4
  <2> QED
    BY <2>2, <2>3, SubSeqProperties
<1>6. SubSeq(h, 1, n) \o SubSeq(h, n + 1, N) = h
  <2>1. 1 \in 1..(N + 1) /\ n \in (1 - 1)..N /\ N \in n..N
    BY <1>1, <1>4
  <2>2. SubSeq(h, 1, n) \o SubSeq(h, n + 1, N) = SubSeq(h, 1, N)
    BY <2>1, ConcatAdjacentSubSeq DEF N
  <2>3. SubSeq(h, 1, N) = h
    BY SubSeqFull DEF N
  <2> QED
    BY <2>2, <2>3
<1>7. Ops(h) = Ops(SubSeq(h, 1, n)) + Ops(SubSeq(h, n + 1, N))
    BY <1>5, <1>6, OpsConcat
<1> QED
    BY <1>5, <1>7 DEF n, N

LEMMA DividesEvenly ==
    ASSUME NEW n \in Nat, NEW w \in Windows
    PROVE  /\ (n * Unit) \div w \in Nat
           /\ ((n * Unit) \div w) * w = n * Unit
<1>1. w \in Nat /\ w > 0 /\ Unit \in Nat /\ Unit % w = 0
    BY MetricsAssumption
<1> DEFINE k == Unit \div w
<1>2. k \in Nat /\ Unit = w * k
    BY <1>1
<1> HIDE DEF k
<1>3. n * Unit = w * (n * k) /\ n * k \in Nat
    BY <1>1, <1>2
<1> DEFINE m == n * k
           x == n * Unit
<1>4. x = w * m /\ m \in Nat
    BY <1>3
<1> HIDE DEF m, x
<1>5. x \div w = m
    BY <1>1, <1>4
<1>6. m * w = x
    BY <1>1, <1>4
<1> QED
    BY <1>4, <1>5, <1>6 DEF x

\* The seconds of a window.
LEMMA WindowIsThere ==
    ASSUME NEW sec \in 1..(MaxTime + Ahead), NEW w \in Windows
    PROVE  /\ (sec - w + 1)..sec \in SUBSET Seconds
           /\ Cardinality((sec - w + 1)..sec) = w
<1>1. /\ sec \in Int /\ sec >= 1 /\ sec <= MaxTime + Ahead
      /\ w \in Int /\ w >= 1 /\ w <= Max(Windows) /\ Max(Windows) \in Int
      /\ MaxTime + Ahead \in Int
    BY Limits
<1>2. (sec - w + 1)..sec \in SUBSET Seconds
    BY <1>1 DEF Seconds
<1> DEFINE a == sec - w + 1
<1>3. a \in Int /\ ~(a > sec) /\ sec - a + 1 = w
    BY <1>1
<1> HIDE DEF a
<1>4. Cardinality(a..sec) = w
    BY <1>1, <1>3, FS_Interval
<1> QED
    BY <1>2, <1>4 DEF a

-----------------------------------------------------------------------------
(***************************************************************************)
(* Samples on their way                                                    *)
(***************************************************************************)
\* The numbers f of what is in a queue.
Numbers(q, f) == [i \in DOMAIN q |-> f[q[i]]]

AreNumbersOf(u, q, f) ==
    /\ u \in Seq(Nat) /\ u \in Seq(Int)
    /\ Len(u) = Len(q) /\ Len(q) \in Nat
    /\ \A i \in 1..Len(q) : u[i] = f[q[i]]
    /\ SumFunction(u) \in Nat

LEMMA NumbersOf ==
    ASSUME NEW S, NEW f \in [S -> Nat], NEW q \in Seq(S)
    PROVE  AreNumbersOf(Numbers(q, f), q, f)
<1> DEFINE u == Numbers(q, f)
<1>1. DOMAIN q = 1..Len(q) /\ Len(q) \in Nat
    BY SeqIsFinite
<1>2. \A i \in DOMAIN q : f[q[i]] \in Nat
    OBVIOUS
<1>3. u \in [1..Len(q) -> Nat] /\ \A i \in 1..Len(q) : u[i] = f[q[i]]
    BY <1>1, <1>2 DEF Numbers
<1> HIDE DEF u
<1>4. u \in Seq(Nat) /\ u \in Seq(Int) /\ Len(u) = Len(q)
    BY <1>1, <1>3
<1>5. SumFunction(u) \in Nat
    BY <1>4, SumOfSeq
<1> QED
    BY <1>1, <1>3, <1>4, <1>5 DEF u, AreNumbersOf

LEMMA QueueGrows ==
    ASSUME NEW S, NEW f \in [S -> Nat], NEW q \in Seq(S), NEW x \in S
    PROVE  SumFunction(Numbers(Append(q, x), f)) = SumFunction(Numbers(q, f)) + f[x]
<1> DEFINE n == Len(q)
           a == Append(q, x)
           u == Numbers(q, f)
           v == Append(u, f[x])
           w == Numbers(a, f)
<1>1. a \in Seq(S) /\ Len(a) = n + 1 /\ n \in Nat
      /\ \A i \in 1..(n + 1) : a[i] = IF i <= n THEN q[i] ELSE x
    BY AppendProperties
<1> HIDE DEF a, n
<1>11. AreNumbersOf(u, q, f) /\ AreNumbersOf(w, a, f)
    BY <1>1, NumbersOf
<1> HIDE DEF u, w
<1>2. u \in Seq(Int) /\ Len(u) = n /\ \A i \in 1..n : u[i] = f[q[i]]
    BY <1>11 DEF AreNumbersOf, n
<1>3. w \in Seq(Int) /\ Len(w) = n + 1 /\ \A i \in 1..(n + 1) : w[i] = f[a[i]]
    BY <1>1, <1>11 DEF AreNumbersOf
<1>4. v \in Seq(Int) /\ Len(v) = n + 1
      /\ \A i \in 1..(n + 1) : v[i] = IF i <= n THEN u[i] ELSE f[x]
    BY <1>2, AppendProperties
<1> HIDE DEF v
<1>5. ASSUME NEW i \in 1..(n + 1)
      PROVE  w[i] = v[i]
  <2>1. w[i] = f[a[i]]
    BY <1>3
  <2>2. CASE i <= n
    <3>1. i \in 1..n /\ a[i] = q[i]
      BY <1>1, <2>2
    <3> QED
      BY <1>2, <1>4, <2>1, <2>2, <3>1
  <2>3. CASE ~(i <= n)
    BY <1>1, <1>4, <2>1, <2>3
  <2> QED
    BY <2>2, <2>3
<1>6. w = v
    BY <1>3, <1>4, <1>5, SeqEqual
<1>7. SumFunction(v) = SumFunction(u) + f[x]
    BY <1>2, SumAppend DEF v
<1> QED
    BY <1>6, <1>7 DEF u, w, a

LEMMA QueueShrinks ==
    ASSUME NEW S, NEW f \in [S -> Nat], NEW q \in Seq(S), q # << >>
    PROVE  SumFunction(Numbers(q, f)) = f[Head(q)] + SumFunction(Numbers(Tail(q), f))
<1> DEFINE n == Len(q)
           t == Tail(q)
           u == Numbers(q, f)
           v == Tail(u)
           w == Numbers(t, f)
<1>1. /\ t \in Seq(S) /\ Len(t) = n - 1 /\ n \in Nat /\ n > 0
      /\ \A i \in 1..(n - 1) : t[i] = q[i + 1]
      /\ Head(q) = q[1]
    BY HeadTailProperties, EmptySeq
<1> HIDE DEF t, n
<1>11. AreNumbersOf(u, q, f) /\ AreNumbersOf(w, t, f)
    BY <1>1, NumbersOf
<1> HIDE DEF u, w
<1>2. u \in Seq(Int) /\ Len(u) = n /\ \A i \in 1..n : u[i] = f[q[i]]
    BY <1>11 DEF AreNumbersOf, n
<1>3. w \in Seq(Int) /\ Len(w) = n - 1 /\ \A i \in 1..(n - 1) : w[i] = f[t[i]]
    BY <1>1, <1>11 DEF AreNumbersOf
<1>4. u # << >> /\ Head(u) = f[Head(q)]
    BY <1>1, <1>2
<1>5. v \in Seq(Int) /\ Len(v) = n - 1 /\ \A i \in 1..(n - 1) : v[i] = u[i + 1]
    BY <1>2, <1>4, HeadTailProperties
<1> HIDE DEF v
<1>6. ASSUME NEW i \in 1..(n - 1)
      PROVE  w[i] = v[i]
  <2>1. i + 1 \in 1..n
    BY <1>1
  <2>2. v[i] = u[i + 1] /\ w[i] = f[t[i]] /\ t[i] = q[i + 1]
    BY <1>1, <1>3, <1>5
  <2>3. u[i + 1] = f[q[i + 1]]
    BY <1>2, <2>1
  <2> QED
    BY <2>2, <2>3
<1>7. w = v
    BY <1>1, <1>3, <1>5, <1>6, SeqEqual
<1>8. SumFunction(u) = Head(u) + SumFunction(v)
    BY <1>2, <1>4, SumTail DEF v
<1> QED
    BY <1>4, <1>7, <1>8 DEF u, w, t

\* The operations of a queue and its latencies.
Numbered(S) == \A s \in S : s.ops \in Nat /\ s.lat.total \in Nat

LEMMA QueueTells ==
    ASSUME NEW S, Numbered(S), NEW q \in Seq(S)
    PROVE  /\ Ops(q) \in Nat /\ Latencies(q) \in Nat
           /\ \A x \in S : /\ Ops(Append(q, x)) = Ops(q) + x.ops
                           /\ Latencies(Append(q, x)) = Latencies(q) + x.lat.total
           /\ q # << >> => /\ Head(q) \in S /\ Tail(q) \in Seq(S)
                           /\ Ops(q) = Head(q).ops + Ops(Tail(q))
                           /\ Latencies(q) = Head(q).lat.total + Latencies(Tail(q))
                           /\ Ops(Tail(q)) \in Nat /\ Latencies(Tail(q)) \in Nat
<1> DEFINE f == [s \in S |-> s.ops]
           g == [s \in S |-> s.lat.total]
<1>1. f \in [S -> Nat] /\ g \in [S -> Nat]
    BY DEF Numbered
<1>2. ASSUME NEW p \in Seq(S)
      PROVE  /\ Ops(p) = SumFunction(Numbers(p, f))
             /\ Latencies(p) = SumFunction(Numbers(p, g))
  <2>1. \A i \in DOMAIN p : p[i] \in S
    OBVIOUS
  <2>2. Numbers(p, f) = [i \in DOMAIN p |-> p[i].ops]
    BY <2>1 DEF Numbers
  <2>3. Numbers(p, g) = [i \in DOMAIN p |-> p[i].lat.total]
    BY <2>1 DEF Numbers
  <2> QED
    BY <2>2, <2>3 DEF Ops, Latencies
<1>3. \A s \in S : f[s] = s.ops /\ g[s] = s.lat.total
    OBVIOUS
<1> HIDE DEF f, g
<1>7. ASSUME NEW p \in Seq(S)
      PROVE  SumFunction(Numbers(p, f)) \in Nat /\ SumFunction(Numbers(p, g)) \in Nat
  <2>1. AreNumbersOf(Numbers(p, f), p, f) /\ AreNumbersOf(Numbers(p, g), p, g)
    BY <1>1, NumbersOf
  <2> QED
    BY <2>1 DEF AreNumbersOf
<1>4. Ops(q) \in Nat /\ Latencies(q) \in Nat
    BY <1>2, <1>7
<1>5. ASSUME NEW x \in S
      PROVE  /\ Ops(Append(q, x)) = Ops(q) + x.ops
             /\ Latencies(Append(q, x)) = Latencies(q) + x.lat.total
  <2> DEFINE a == Append(q, x)
  <2>1. a \in Seq(S)
    BY AppendProperties
  <2>2. /\ SumFunction(Numbers(a, f)) = SumFunction(Numbers(q, f)) + f[x]
        /\ SumFunction(Numbers(a, g)) = SumFunction(Numbers(q, g)) + g[x]
    BY <1>1, QueueGrows
  <2> HIDE DEF a
  <2>3. Ops(a) = Ops(q) + x.ops /\ Latencies(a) = Latencies(q) + x.lat.total
    BY <1>2, <1>3, <2>1, <2>2
  <2> QED
    BY <2>3 DEF a
<1>6. ASSUME q # << >>
      PROVE  /\ Head(q) \in S /\ Tail(q) \in Seq(S)
             /\ Ops(q) = Head(q).ops + Ops(Tail(q))
             /\ Latencies(q) = Head(q).lat.total + Latencies(Tail(q))
             /\ Ops(Tail(q)) \in Nat /\ Latencies(Tail(q)) \in Nat
  <2> DEFINE t == Tail(q)
             x == Head(q)
  <2>1. x \in S /\ t \in Seq(S)
    BY <1>6, HeadTailProperties
  <2>2. /\ SumFunction(Numbers(q, f)) = f[x] + SumFunction(Numbers(t, f))
        /\ SumFunction(Numbers(q, g)) = g[x] + SumFunction(Numbers(t, g))
    BY <1>1, <1>6, QueueShrinks
  <2> HIDE DEF t, x
  <2>3. Ops(t) \in Nat /\ Latencies(t) \in Nat
    BY <1>2, <1>7, <2>1
  <2>4. Ops(q) = x.ops + Ops(t) /\ Latencies(q) = x.lat.total + Latencies(t)
    BY <1>2, <1>3, <2>1, <2>2
  <2> QED
    BY <2>1, <2>3, <2>4 DEF t, x
<1> QED
    BY <1>4, <1>5, <1>6

-----------------------------------------------------------------------------
(***************************************************************************)
(* The inductive invariant: types                                          *)
(***************************************************************************)
\* The seconds that clients give.
Times == 1..(MaxTime + Ahead)
GoodSamples == [sec : Times, windows : Windows, ops : Nat, lat : GoodLatencies]
GoodQueued ==
    [sec : Times, windows : Windows, ops : Nat, lat : GoodLatencies, run : 0..MaxRuns]

StoreTypes ==
    /\ now \in 1..MaxTime
    /\ recording \in BOOLEAN
    /\ history \in Seq(Points)
    /\ Buckets(buckets)
    /\ totals \in Nat
    /\ latencies \in GoodLatencies
    /\ in \in Seq(GoodQueued)
    /\ Len(in) <= InCap
    /\ runNo \in 0..MaxRuns
    /\ trimmed \in Nat
    /\ ofRun \in Nat
    /\ gone \in [ops : Nat, lat : Nat]

ClientTypes ==
    /\ stats \in [ops : Nat, lat : GoodLatencies]
    /\ worker \in {"works", "observed"}
    /\ loop \in {"waits", "swaps", "sends"}
    /\ taken \in [ops : Nat, lat : GoodLatencies, sec : 0..(MaxTime + Ahead)]
    /\ wire \in Seq(GoodSamples)
    /\ samples \in 0..MaxSamples
    /\ observed \in 0..MaxOps

\* What the metrics loop holds.
LoopOK ==
    /\ loop = "waits" => taken = NoSample
    /\ loop = "swaps" => taken.ops = 0
    /\ loop = "sends" => taken.sec \in Times

Types == StoreTypes /\ ClientTypes /\ LoopOK

Charted == SumFunction(buckets) + Ops(history) + trimmed

LEMMA GoodAreNumbered == Numbered(GoodSamples) /\ Numbered(GoodQueued)
<1>1. \A h \in GoodLatencies : h.total \in Nat
    BY GoodCounts
<1> QED
    BY <1>1 DEF Numbered, GoodSamples, GoodQueued

LEMMA EmptyOps ==
    /\ << >> \in Seq(Points) /\ Ops(<< >>) = 0 /\ Latencies(<< >>) = 0
    /\ Buckets(<< >>) /\ SumFunction(<< >>) = 0
<1> DEFINE e == << >>
<1>1. e \in Seq(Points) /\ e \in Seq(Int) /\ DOMAIN e = {}
    OBVIOUS
<1>2. [i \in DOMAIN e |-> e[i].ops] = e /\ [i \in DOMAIN e |-> e[i].lat.total] = e
    BY <1>1
<1> HIDE DEF e
<1>3. SumFunction(e) = 0
    BY <1>1, SumOfNone DEF SumFunction
<1>4. Buckets(e)
    BY <1>1 DEF Buckets
<1> QED
    BY <1>1, <1>2, <1>3, <1>4 DEF Ops, Latencies, e

\* Of what is flushed and trimmed, nothing is forgotten.
LEMMA MoveTells ==
    ASSUME NEW h \in Seq(Points), NEW b, Buckets(b), NEW sec \in Int, now \in Int,
           trimmed \in Nat, buckets' = FlushedBuckets(b, sec),
           Trimmed(FlushedHistory(h, b, sec))
    PROVE  /\ history' \in Seq(Points) /\ Buckets(buckets') /\ trimmed' \in Nat
           /\ Charted' = Told(h, b) + trimmed
<1> DEFINE g == FlushedHistory(h, b, sec)
           n == TrimCount(g)
           x == SubSeq(g, 1, n)
           y == SubSeq(g, n + 1, Len(g))
<1>1. g \in Seq(Points) /\ Buckets(buckets') /\ Told(g, buckets') = Told(h, b)
    BY FlushTells
<1>2. history' = y /\ trimmed' = trimmed + Ops(x)
    BY DEF Trimmed
<1> HIDE DEF g
<1>3. x \in Seq(Points) /\ y \in Seq(Points) /\ Ops(g) = Ops(x) + Ops(y)
    BY <1>1, TrimTells
<1> HIDE DEF x, y, n
<1>4. Ops(x) \in Nat /\ Ops(y) \in Nat /\ SumFunction(buckets') \in Nat
    BY <1>1, <1>3, OpsAreNumbers, BucketsAddUp
<1>5. Charted' = SumFunction(buckets') + Ops(y) + trimmed'
    BY <1>2 DEF Charted
<1>6. Told(h, b) = SumFunction(buckets') + Ops(g)
    BY <1>1 DEF Told
<1>7. Told(h, b) + trimmed = SumFunction(buckets') + Ops(y) + trimmed'
    BY <1>2, <1>3, <1>4, <1>6
<1> QED
    BY <1>1, <1>2, <1>3, <1>4, <1>5, <1>7

LEMMA ApplyTells ==
    ASSUME Types, apply
    PROVE  LET s == Head(in)
           IN  /\ s \in GoodQueued /\ in' \in Seq(GoodQueued) /\ Len(in') < Len(in)
               /\ history' \in Seq(Points) /\ Buckets(buckets') /\ trimmed' \in Nat
               /\ Charted' = Charted + s.ops * Unit
               /\ totals' = totals + s.ops
               /\ latencies' = Merge(latencies, s.lat)
               /\ ofRun' \in Nat
<1> DEFINE s == Head(in)
           V == (s.sec - s.windows + 1)..s.sec
           inc == (s.ops * Unit) \div s.windows
           h == CreditedHistory(history, buckets, V, inc)
           b == CreditedBuckets(history, buckets, V, inc)
<1>1. /\ in # << >> /\ in' = Tail(in)
      /\ totals' = totals + s.ops /\ latencies' = Merge(latencies, s.lat)
      /\ ofRun' = ofRun + (IF s.run = runNo THEN s.ops ELSE 0)
      /\ buckets' = FlushedBuckets(b, s.sec)
      /\ Trimmed(FlushedHistory(h, b, s.sec))
    BY DEF apply
<1>2. /\ s \in GoodQueued /\ in' \in Seq(GoodQueued)
      /\ Len(in') = Len(in) - 1 /\ Len(in) \in Nat
    BY <1>1, HeadTailProperties DEF Types, StoreTypes
<1> HIDE DEF s
<1>3. s.sec \in Times /\ s.windows \in Windows /\ s.ops \in Nat
    BY <1>2 DEF GoodQueued
<1>4. V \in SUBSET Seconds /\ Cardinality(V) = s.windows
    BY <1>3, WindowIsThere DEF Times
<1>5. inc \in Nat /\ inc * s.windows = s.ops * Unit
    BY <1>3, DividesEvenly
<1>6. /\ history \in Seq(Points) /\ Buckets(buckets) /\ now \in Int /\ trimmed \in Nat
      /\ ofRun \in Nat /\ s.sec \in Int
    BY <1>3, Limits DEF Types, StoreTypes, Times
<1> HIDE DEF V, inc
<1>7. h \in Seq(Points) /\ Buckets(b)
  <2>1. HistoryIsCredited(h, history, buckets, V, inc)
    BY <1>4, <1>5, <1>6, CreditedHistoryIs
  <2>2. BucketsAreCredited(b, history, buckets, V, inc)
    BY <1>4, <1>5, <1>6, CreditedBucketsAre
  <2> HIDE DEF h, b
  <2> QED
    BY <2>1, <2>2 DEF HistoryIsCredited, BucketsAreCredited
<1>8. Told(h, b) = Told(history, buckets) + s.ops * Unit
    BY <1>4, <1>5, <1>6, WindowTells
<1> HIDE DEF h, b
<1>9. /\ history' \in Seq(Points) /\ Buckets(buckets') /\ trimmed' \in Nat
      /\ Charted' = Told(h, b) + trimmed
    BY <1>1, <1>6, <1>7, MoveTells
<1> DEFINE k == s.ops * Unit
<1>10. k \in Nat
    BY <1>3, Limits
<1> HIDE DEF k
<1>11. Charted' = Charted + k
  <2>1. Charted = SumFunction(buckets) + Ops(history) + trimmed
    BY DEF Charted
  <2>2. SumFunction(buckets) \in Nat /\ Ops(history) \in Nat
    BY <1>6, BucketsAddUp, OpsAreNumbers
  <2>3. Charted' = SumFunction(buckets) + Ops(history) + k + trimmed
    BY <1>8, <1>9 DEF Told, k
  <2> QED
    BY <1>6, <1>10, <2>1, <2>2, <2>3
<1>12. ofRun' \in Nat
    BY <1>1, <1>3, <1>6
<1>13. Len(in') < Len(in)
    BY <1>2
<1> QED
    BY <1>1, <1>2, <1>9, <1>11, <1>12, <1>13 DEF k, s

\* What no step of the client changes in the store's part.
LEMMA StoreStays ==
    ASSUME StoreTypes, UNCHANGED <<now, store, in, runNo, trimmed, ofRun>>,
           gone' \in [ops : Nat, lat : Nat]
    PROVE  StoreTypes'
    BY DEF StoreTypes, store, Buckets

LEMMA ClientStays ==
    ASSUME ClientTypes, LoopOK, UNCHANGED <<client, samples, observed>>,
           wire' \in Seq(GoodSamples)
    PROVE  ClientTypes' /\ LoopOK'
    BY DEF ClientTypes, LoopOK, client

LEMMA GoneIsTyped ==
    ASSUME NEW x \in Nat, NEW y \in Nat, gone \in [ops : Nat, lat : Nat], Gone(x, y)
    PROVE  /\ gone' \in [ops : Nat, lat : Nat]
           /\ gone'.ops = gone.ops + x /\ gone'.lat = gone.lat + y
           /\ gone.ops \in Nat /\ gone.lat \in Nat
    BY DEF Gone

LEMMA TypesInit == Init => Types
<1> SUFFICES ASSUME Init
             PROVE  Types
    OBVIOUS
<1> USE DEF Init, StoreInit
<1>1. StoreTypes
  <2>1. 1 \in 1..MaxTime /\ 0 \in 0..MaxRuns /\ 0 <= InCap
    BY Limits
  <2>2. << >> \in Seq(GoodQueued) /\ Len(<< >>) = 0
    OBVIOUS
  <2>3. now = 1 /\ runNo = 0 /\ in = << >> /\ history = << >> /\ buckets = << >>
        /\ latencies = NewLatencies
    OBVIOUS
  <2>4. gone \in [ops : Nat, lat : Nat]
    OBVIOUS
  <2> QED
    BY <2>1, <2>2, <2>3, <2>4, EmptyOps, NewLatenciesAreGood DEF StoreTypes
<1>2. ClientTypes
  <2>1. 0 \in 0..(MaxTime + Ahead) /\ 0 \in 0..MaxSamples /\ 0 \in 0..MaxOps
    BY Limits, PathAssumption
  <2>2. stats \in [ops : Nat, lat : GoodLatencies]
    BY NewLatenciesAreGood DEF NoStats
  <2>3. taken \in [ops : Nat, lat : GoodLatencies, sec : 0..(MaxTime + Ahead)]
    BY <2>1, NewLatenciesAreGood DEF NoSample
  <2>4. wire \in Seq(GoodSamples)
    OBVIOUS
  <2> QED
    BY <2>1, <2>2, <2>3, <2>4 DEF ClientTypes
<1>3. LoopOK
    BY DEF LoopOK
<1> QED
    BY <1>1, <1>2, <1>3 DEF Types

LEMMA ObserveKeepsTypes ==
    ASSUME Types, NEW us \in Durations, Observe(us)
    PROVE  Types' /\ stats'.lat.total = stats.lat.total + 1 /\ stats'.ops = stats.ops
<1>1. stats \in [ops : Nat, lat : GoodLatencies] /\ us \in Nat
    BY PathAssumption DEF Types, ClientTypes
<1> DEFINE l == ObserveUs(stats.lat, us)
<1>2. l \in GoodLatencies /\ l.total = stats.lat.total + 1
    BY <1>1, ObserveIsGood
<1>3. stats' = [stats EXCEPT !.lat = l]
    BY DEF Observe
<1> HIDE DEF l
<1>4. /\ stats' \in [ops : Nat, lat : GoodLatencies]
      /\ stats'.lat = l /\ stats'.ops = stats.ops
    BY <1>1, <1>2, <1>3
<1>5. observed' \in 0..MaxOps
    BY PathAssumption DEF Types, ClientTypes, Observe
<1>6. StoreTypes'
    BY StoreStays DEF Observe, storeVars, ghosts, Types, StoreTypes
<1>7. ClientTypes'
    BY <1>4, <1>5 DEF Types, ClientTypes, Observe
<1>8. LoopOK'
    BY DEF Types, LoopOK, Observe
<1> QED
    BY <1>2, <1>4, <1>6, <1>7, <1>8 DEF Types

LEMMA CountOpKeepsTypes ==
    ASSUME Types, CountOp
    PROVE  Types' /\ stats'.lat = stats.lat /\ stats'.ops = stats.ops + 1
<1>1. stats \in [ops : Nat, lat : GoodLatencies]
    BY DEF Types, ClientTypes
<1>2. /\ stats' \in [ops : Nat, lat : GoodLatencies]
      /\ stats'.lat = stats.lat /\ stats'.ops = stats.ops + 1
    BY <1>1 DEF CountOp
<1>3. StoreTypes'
    BY StoreStays DEF CountOp, storeVars, ghosts, Types, StoreTypes
<1>4. ClientTypes' /\ LoopOK'
    BY <1>2 DEF Types, ClientTypes, LoopOK, CountOp
<1> QED
    BY <1>2, <1>3, <1>4 DEF Types

LEMMA TakeLatenciesKeepsTypes ==
    ASSUME Types, TakeLatencies
    PROVE  /\ Types'
           /\ stats'.lat.total = 0 /\ taken'.lat = stats.lat /\ taken.lat.total = 0
           /\ stats'.ops = stats.ops /\ taken'.ops = taken.ops
<1>1. /\ stats \in [ops : Nat, lat : GoodLatencies]
      /\ taken \in [ops : Nat, lat : GoodLatencies, sec : 0..(MaxTime + Ahead)]
      /\ taken = NoSample
    BY DEF Types, ClientTypes, LoopOK, TakeLatencies
<1>2. taken.lat.total = 0 /\ taken.ops = 0
    BY <1>1, NewLatenciesAreGood DEF NoSample
<1>3. /\ stats' \in [ops : Nat, lat : GoodLatencies]
      /\ stats'.lat = NewLatencies /\ stats'.ops = stats.ops
    BY <1>1, NewLatenciesAreGood DEF TakeLatencies
<1>4. /\ taken' \in [ops : Nat, lat : GoodLatencies, sec : 0..(MaxTime + Ahead)]
      /\ taken'.lat = stats.lat /\ taken'.ops = taken.ops
    BY <1>1 DEF TakeLatencies
<1>5. samples' \in 0..MaxSamples
    BY PathAssumption DEF Types, ClientTypes, TakeLatencies
<1>6. StoreTypes'
    BY StoreStays DEF TakeLatencies, storeVars, ghosts, Types, StoreTypes
<1>7. ClientTypes'
    BY <1>3, <1>4, <1>5 DEF Types, ClientTypes, TakeLatencies
<1>8. LoopOK'
    BY <1>2, <1>4 DEF LoopOK, TakeLatencies
<1> QED
    BY <1>2, <1>3, <1>4, <1>6, <1>7, <1>8, NewLatenciesAreGood DEF Types

LEMMA SwapCountersKeepsTypes ==
    ASSUME Types, NEW sec \in (now - Late)..(now + Ahead), sec > 0, SwapCounters(sec)
    PROVE  /\ Types'
           /\ stats'.lat = stats.lat /\ taken'.lat = taken.lat
           /\ stats'.ops = 0 /\ taken'.ops = stats.ops /\ taken.ops = 0
<1>1. /\ stats \in [ops : Nat, lat : GoodLatencies]
      /\ taken \in [ops : Nat, lat : GoodLatencies, sec : 0..(MaxTime + Ahead)]
      /\ taken.ops = 0
    BY DEF Types, ClientTypes, LoopOK, SwapCounters
<1>2. sec \in Times /\ sec \in 0..(MaxTime + Ahead)
    BY Limits DEF Types, StoreTypes, Times
<1>3. /\ stats' \in [ops : Nat, lat : GoodLatencies]
      /\ stats'.lat = stats.lat /\ stats'.ops = 0
    BY <1>1 DEF SwapCounters
<1>4. /\ taken' \in [ops : Nat, lat : GoodLatencies, sec : 0..(MaxTime + Ahead)]
      /\ taken'.lat = taken.lat /\ taken'.ops = stats.ops /\ taken'.sec = sec
    BY <1>1, <1>2 DEF SwapCounters
<1>5. StoreTypes'
    BY StoreStays DEF SwapCounters, storeVars, ghosts, Types, StoreTypes
<1>6. ClientTypes'
    BY <1>3, <1>4 DEF Types, ClientTypes, SwapCounters
<1>7. LoopOK'
    BY <1>2, <1>4 DEF LoopOK, SwapCounters
<1> QED
    BY <1>1, <1>3, <1>4, <1>5, <1>6, <1>7 DEF Types

LEMMA SendSampleKeepsTypes ==
    ASSUME Types, SendSample
    PROVE  Types'
<1>1. /\ taken \in [ops : Nat, lat : GoodLatencies, sec : 0..(MaxTime + Ahead)]
      /\ taken.sec \in Times
    BY DEF Types, ClientTypes, LoopOK, SendSample
<1>2. taken.ops \in Nat /\ taken.lat \in GoodLatencies /\ taken.lat.total \in Nat
    BY <1>1, GoodCounts
<1>3. gone' \in [ops : Nat, lat : Nat]
    BY <1>2, GoneIsTyped DEF Types, StoreTypes, SendSample
<1>4. wire' \in Seq(GoodSamples)
  <2>1. wire \in Seq(GoodSamples)
    BY DEF Types, ClientTypes
  <2>2. CASE UNCHANGED wire
    BY <2>1, <2>2
  <2>3. ASSUME NEW w \in Windows, wire' = Append(wire, OfWindow(w))
        PROVE  wire' \in Seq(GoodSamples)
    <3>1. OfWindow(w) \in GoodSamples
      BY <1>1, <1>2 DEF OfWindow, GoodSamples
    <3> QED
      BY <2>1, <2>3, <3>1, AppendProperties
  <2> QED
    BY <2>2, <2>3 DEF SendSample
<1>5. taken' \in [ops : Nat, lat : GoodLatencies, sec : 0..(MaxTime + Ahead)]
    BY NewLatenciesAreGood, Limits DEF NoSample, SendSample
<1>6. StoreTypes'
    BY <1>3, StoreStays DEF SendSample, Types
<1>7. ClientTypes' /\ LoopOK'
    BY <1>4, <1>5 DEF SendSample, Types, ClientTypes, LoopOK
<1> QED
    BY <1>6, <1>7 DEF Types

LEMMA ReceiveKeepsTypes ==
    ASSUME Types, Receive
    PROVE  Types'
<1> DEFINE s == Head(wire)
<1>1. s \in GoodSamples /\ wire' \in Seq(GoodSamples)
    BY HeadTailProperties DEF Types, ClientTypes, Receive
<1>2. /\ UNCHANGED <<client, samples, observed>>
      /\ \/ runNo > 0 /\ Add(s)
         \/ /\ Gone(s.ops, s.lat.total)
            /\ UNCHANGED <<now, store, in, runNo, trimmed, ofRun>>
    BY DEF Receive
<1> HIDE DEF s
<1>3. s.ops \in Nat /\ s.lat \in GoodLatencies /\ s.lat.total \in Nat
    BY <1>1, GoodCounts DEF GoodSamples
<1>4. ClientTypes' /\ LoopOK'
    BY <1>1, <1>2, ClientStays DEF Types
<1>5. StoreTypes /\ gone \in [ops : Nat, lat : Nat]
    BY DEF Types, StoreTypes
<1>6. CASE Add(s)
  <2>1. CASE Len(in) < InCap /\ in' = Append(in, InRun(s)) /\ UNCHANGED gone
    <3>1. InRun(s) \in GoodQueued
      BY <1>1, <1>5 DEF InRun, GoodSamples, GoodQueued, StoreTypes
    <3>2. in' \in Seq(GoodQueued) /\ Len(in') <= InCap
      BY <2>1, <3>1, <1>5, Limits, AppendProperties DEF StoreTypes
    <3>3. StoreTypes'
      BY <1>5, <1>6, <2>1, <3>2 DEF StoreTypes, Add, store, Buckets
    <3> QED
      BY <1>4, <3>3 DEF Types
  <2>2. CASE Gone(s.ops, s.lat.total) /\ UNCHANGED in
    BY <1>3, <1>4, <1>5, <1>6, <2>2, GoneIsTyped, StoreStays DEF Add, Types
  <2> QED
    BY <1>6, <2>1, <2>2 DEF Add
<1>7. CASE Gone(s.ops, s.lat.total) /\ UNCHANGED <<now, store, in, runNo, trimmed, ofRun>>
    BY <1>3, <1>4, <1>5, <1>7, GoneIsTyped, StoreStays DEF Types
<1> QED
    BY <1>2, <1>6, <1>7

LEMMA ClientIdles ==
    ASSUME Types, UNCHANGED <<client, wire, samples, observed>>
    PROVE  ClientTypes' /\ LoopOK'
    BY ClientStays DEF Types, ClientTypes

LEMMA IgnoreKeepsTypes ==
    ASSUME Types, Ignore
    PROVE  StoreTypes'
<1> DEFINE s == Head(in)
<1>1. s \in GoodQueued /\ in' \in Seq(GoodQueued) /\ Len(in') <= InCap
    BY HeadTailProperties, Limits DEF Types, StoreTypes, Ignore
<1>2. Gone(s.ops, s.lat.total) /\ UNCHANGED <<now, store, runNo, trimmed, ofRun>>
    BY DEF Ignore
<1> HIDE DEF s
<1>3. s.ops \in Nat /\ s.lat.total \in Nat
    BY <1>1, GoodCounts DEF GoodQueued
<1>4. gone' \in [ops : Nat, lat : Nat]
    BY <1>2, <1>3, GoneIsTyped DEF Types, StoreTypes
<1> QED
    BY <1>1, <1>2, <1>4 DEF Types, StoreTypes, store, Buckets

LEMMA applyKeepsTypes ==
    ASSUME Types, apply
    PROVE  StoreTypes'
<1> DEFINE s == Head(in)
<1>1. /\ s \in GoodQueued /\ in' \in Seq(GoodQueued) /\ Len(in') < Len(in)
      /\ history' \in Seq(Points) /\ Buckets(buckets') /\ trimmed' \in Nat
      /\ totals' = totals + s.ops
      /\ latencies' = Merge(latencies, s.lat)
      /\ ofRun' \in Nat
    BY ApplyTells
<1> HIDE DEF s
<1>2. s.ops \in Nat /\ s.lat \in GoodLatencies
    BY <1>1 DEF GoodQueued
<1>3. latencies' \in GoodLatencies
    BY <1>1, <1>2, MergeIsGood DEF Types, StoreTypes
<1>4. totals' \in Nat /\ Len(in') <= InCap
  <2>1. Len(in) \in Nat /\ Len(in') \in Nat /\ Len(in) <= InCap
    BY <1>1 DEF Types, StoreTypes
  <2> QED
    BY <1>1, <1>2, <2>1, Limits DEF Types, StoreTypes
<1> QED
    BY <1>1, <1>3, <1>4 DEF Types, StoreTypes, apply, Buckets

LEMMA FlushKeepsTypes ==
    ASSUME Types, Flush
    PROVE  StoreTypes' /\ Charted' = Charted
<1> DEFINE b == ensureSecondsThrough(history, buckets, now)
<1>1. /\ history \in Seq(Points) /\ Buckets(buckets) /\ now \in 1..MaxTime /\ now \in Int
      /\ trimmed \in Nat
    BY DEF Types, StoreTypes
<1>2. Buckets(b) /\ Told(history, b) = Told(history, buckets)
    BY <1>1, EnsureTells
<1>3. buckets' = FlushedBuckets(b, now) /\ Trimmed(FlushedHistory(history, b, now))
    BY DEF Flush
<1> HIDE DEF b
<1>4. /\ history' \in Seq(Points) /\ Buckets(buckets') /\ trimmed' \in Nat
      /\ Charted' = Told(history, b) + trimmed
    BY <1>1, <1>2, <1>3, MoveTells
<1>5. StoreTypes'
    BY <1>4 DEF Types, StoreTypes, Flush, Buckets
<1>6. Charted' = Charted
    BY <1>2, <1>4 DEF Charted, Told
<1> QED
    BY <1>5, <1>6

LEMMA BeginKeepsTypes ==
    ASSUME Types, Begin
    PROVE  StoreTypes' /\ Charted' = 0
<1>1. totals \in Nat /\ latencies.total \in Nat /\ gone \in [ops : Nat, lat : Nat]
    BY GoodCounts DEF Types, StoreTypes
<1>2. gone' \in [ops : Nat, lat : Nat]
    BY <1>1, GoneIsTyped DEF Begin
<1>3. runNo' \in 0..MaxRuns
    BY Limits DEF Types, StoreTypes, Begin
<1>4. history' = << >> /\ buckets' = << >> /\ trimmed' = 0
    BY DEF Begin
<1>5. history' \in Seq(Points) /\ Buckets(buckets')
    BY <1>4, EmptyOps
<1>6. StoreTypes'
    BY <1>2, <1>3, <1>4, <1>5, NewLatenciesAreGood DEF Types, StoreTypes, Begin
<1>7. Charted' = 0
    BY <1>4, EmptyOps DEF Charted
<1> QED
    BY <1>6, <1>7

LEMMA FreezeTells ==
    ASSUME Types, Freeze
    PROVE  /\ StoreTypes' /\ Charted' = Charted
           /\ \A s \in DOMAIN buckets' : s > now
           /\ \E d \in Seq(Points) : history' = history \o d
<1>1. /\ history \in Seq(Points) /\ Buckets(buckets) /\ now \in Int /\ trimmed \in Nat
    BY Limits DEF Types, StoreTypes
<1>2. /\ history' = FlushedHistory(history, buckets, now + 1)
      /\ buckets' = FlushedBuckets(buckets, now + 1)
      /\ UNCHANGED <<now, totals, latencies, in, runNo, ghosts>> /\ recording' = FALSE
    BY DEF Freeze
<1>3. now + 1 \in Int
    BY <1>1
<1>4. /\ history' \in Seq(Points) /\ Buckets(buckets')
      /\ \E d \in Seq(Points) : history' = history \o d
      /\ \A s \in DOMAIN buckets' : s >= now + 1
      /\ Told(history', buckets') = Told(history, buckets)
    BY <1>1, <1>2, <1>3, FlushTells
<1>5. StoreTypes'
    BY <1>2, <1>4 DEF Types, StoreTypes, ghosts, Buckets
<1>6. Charted' = Charted
    BY <1>2, <1>4 DEF Charted, Told, ghosts
<1>7. \A s \in DOMAIN buckets' : s > now
  <2> SUFFICES ASSUME NEW s \in DOMAIN buckets'
               PROVE  s > now
    OBVIOUS
  <2>1. s \in Seconds /\ s >= now + 1
    BY <1>4 DEF Buckets
  <2>2. s \in Int
    BY <2>1, SecondsAreFinite
  <2> QED
    BY <1>1, <2>1, <2>2
<1> QED
    BY <1>4, <1>5, <1>6, <1>7

LEMMA TickKeepsTypes ==
    ASSUME Types, Tick
    PROVE  StoreTypes'
<1>1. now' \in 1..MaxTime
    BY Limits DEF Types, StoreTypes, Tick
<1> QED
    BY <1>1 DEF Types, StoreTypes, Tick, store, ghosts, Buckets

LEMMA TypesNext ==
    ASSUME Types, [Next]_vars
    PROVE  Types'
<1>1. CASE ClientNext
    BY <1>1, ObserveKeepsTypes, CountOpKeepsTypes, TakeLatenciesKeepsTypes,
       SwapCountersKeepsTypes, SendSampleKeepsTypes DEF ClientNext
<1>2. CASE Receive
    BY <1>2, ReceiveKeepsTypes
<1>3. CASE StoreNext /\ UNCHANGED <<client, wire, samples, observed>>
  <2>1. ClientTypes' /\ LoopOK'
    BY <1>3, ClientIdles
  <2>2. StoreTypes'
    BY <1>3, IgnoreKeepsTypes, applyKeepsTypes, FlushKeepsTypes, BeginKeepsTypes,
       FreezeTells, TickKeepsTypes DEF StoreNext
  <2> QED
    BY <2>1, <2>2 DEF Types
<1>4. CASE UNCHANGED vars
    BY <1>4 DEF vars, storeVars, store, ghosts, client, Types, StoreTypes,
       ClientTypes, LoopOK,
                Buckets
<1> QED
    BY <1>1, <1>2, <1>3, <1>4 DEF Next

LEMMA TypesHold == Spec => []Types
<1>1. Init => Types
    BY TypesInit
<1>2. Types /\ [Next]_vars => Types'
    BY TypesNext
<1> QED
    BY <1>1, <1>2, PTL DEF Spec

\* The clock, the store, the client and what is on its way always have the values
\* that are declared for them; above all no bucket is ever of a second before the
\* first or after the last that a client can report on.
THEOREM MetricsTypeCorrect == Spec => []TypeOK
<1>1. Types => TypeOK
  <2> SUFFICES ASSUME Types
               PROVE  TypeOK
    OBVIOUS
  <2>1. GoodLatencies \subseteq Histograms /\ Times \subseteq Seconds
    BY Limits DEF GoodLatencies, Times, Seconds
  <2>2. GoodSamples \subseteq Samples /\ GoodQueued \subseteq Queued
    BY <2>1 DEF GoodSamples, Samples, GoodQueued, Queued
  <2>3. in \in Seq(Queued) /\ wire \in Seq(Samples)
    BY <2>2 DEF Types, StoreTypes, ClientTypes
  <2>4. StoreTypeOK
    BY <2>1, <2>3 DEF Types, StoreTypes, StoreTypeOK, Buckets
  <2>5. 0..(MaxTime + Ahead) \subseteq Seconds
    BY Limits DEF Seconds
  <2>6. /\ stats \in [ops : Nat, lat : Histograms]
        /\ taken \in [ops : Nat, lat : Histograms, sec : Seconds]
    BY <2>1, <2>5 DEF Types, ClientTypes
  <2> QED
    BY <2>3, <2>4, <2>6 DEF Types, ClientTypes, TypeOK
<1> QED
    BY <1>1, TypesHold, PTL

THEOREM MergingAddsUp == Spec => []HistogramsAddUp
<1>1. Types => HistogramsAddUp
    BY DEF Types, StoreTypes, ClientTypes, GoodLatencies, HistogramsAddUp
<1> QED
    BY <1>1, TypesHold, PTL

-----------------------------------------------------------------------------
(***************************************************************************)
(* The charts                                                              *)
(***************************************************************************)
LEMMA ChartsNext ==
    ASSUME Types, ChartsMatchTotals, [Next]_vars
    PROVE  ChartsMatchTotals'
<1>1. totals * Unit = Charted /\ totals \in Nat /\ Unit \in Nat
    BY Limits DEF Types, StoreTypes, ChartsMatchTotals, Charted
<1>2. SUFFICES totals' * Unit = Charted'
    BY DEF ChartsMatchTotals, Charted
<1>3. CASE UNCHANGED <<totals, buckets, history, trimmed>>
    BY <1>1, <1>3 DEF Charted
<1>4. CASE apply
  <2> DEFINE n == Head(in).ops
  <2>1. Charted' = Charted + n * Unit /\ totals' = totals + n /\ n \in Nat
    BY <1>4, ApplyTells DEF GoodQueued
  <2> HIDE DEF n
  <2>2. (totals + n) * Unit = totals * Unit + n * Unit
    BY <1>1, <2>1
  <2> QED
    BY <1>1, <2>1, <2>2
<1>5. CASE Begin
  <2>1. totals' = 0 /\ Charted' = 0
    BY <1>5, BeginKeepsTypes DEF Begin
  <2> QED
    BY <1>1, <2>1
<1>6. CASE Flush
    BY <1>1, <1>6, FlushKeepsTypes DEF Flush
<1>7. CASE Freeze
    BY <1>1, <1>7, FreezeTells DEF Freeze
<1>8. CASE Ignore \/ Tick
    BY <1>3, <1>8 DEF Ignore, Tick, store, ghosts
<1>9. CASE ClientNext
    BY <1>3, <1>9 DEF ClientNext, Observe, CountOp, TakeLatencies, SwapCounters,
       SendSample,
                      storeVars, store, ghosts
<1>10. CASE Receive
    BY <1>3, <1>10 DEF Receive, Add, store
<1>11. CASE UNCHANGED vars
    BY <1>3, <1>11 DEF vars, storeVars, store, ghosts
<1> QED
    BY <1>4, <1>5, <1>6, <1>7, <1>8, <1>9, <1>10, <1>11 DEF Next, StoreNext

\* The charts and the totals tell of the same operations, however samples overlap,
\* come late or early, and however buckets are filled in, flushed and trimmed.
THEOREM ChartsTellTheTotals == Spec => []ChartsMatchTotals
<1>1. Init => ChartsMatchTotals
  <2>1. Init => totals = 0 /\ buckets = << >> /\ history = << >> /\ trimmed = 0
    BY DEF Init, StoreInit
  <2>2. 0 * Unit = 0
    BY Limits
  <2> QED
    BY <2>1, <2>2, EmptyOps DEF ChartsMatchTotals
<1>2. Types /\ ChartsMatchTotals /\ [Next]_vars => ChartsMatchTotals'
    BY ChartsNext
<1> QED
    BY <1>1, <1>2, TypesHold, PTL DEF Spec

LEMMA PrefixOfLonger ==
    ASSUME NEW h \in Seq(Points), NEW d \in Seq(Points)
    PROVE  IsPrefix(h, h \o d)
<1> DEFINE n == Len(h)
           g == h \o d
<1>1. n \in Nat /\ n <= Len(g)
  <2>1. n \in Nat /\ Len(d) \in Nat /\ Len(g) = n + Len(d)
    BY ConcatProperties, SeqIsFinite
  <2> HIDE DEF g, n
  <2> QED
    BY <2>1
<1>2. SubSeq(g, 1, n) = SubSeq(h, 1, n)
  <2>1. CASE n = 0
    <3>1. \A s : SubSeq(s, 1, 0) = << >>
      BY SubSeqEmpty
    <3> HIDE DEF g, n
    <3> QED
      BY <2>1, <3>1
  <2>2. CASE n # 0
    <3>1. 1 \in 1..n /\ n \in 1..n
      BY <1>1, <2>2
    <3> QED
      BY <3>1, SubSeqOfConcat1
  <2> QED
    BY <2>1, <2>2
<1> HIDE DEF g
<1> QED
    BY <1>1, <1>2 DEF IsPrefix, g

\* After Freeze the charts are complete up to the controller's clock, and until
\* the next run nothing of them is changed or taken away.
THEOREM FrozenStaysComplete == Spec => FrozenIsComplete
<1> DEFINE A == /\ recording /\ ~recording' => \A s \in DOMAIN buckets' : s > now
                /\ ~recording /\ ~recording' =>
                       IsPrefix(history, history') /\ UNCHANGED totals
<1>1. ASSUME Types, [Next]_vars
      PROVE  [A]_storeVars
  <2>1. history \in Seq(Points) /\ IsPrefix(history, history)
    <3>1. history \in Seq(Points)
      BY <1>1 DEF Types, StoreTypes
    <3>2. Len(history) <= Len(history)
      BY <3>1
    <3> QED
      BY <3>1, <3>2 DEF IsPrefix
  <2>2. CASE UNCHANGED <<recording, history, totals>>
    BY <2>1, <2>2
  <2>3. CASE Freeze
    <3>1. /\ \A s \in DOMAIN buckets' : s > now
          /\ \E d \in Seq(Points) : history' = history \o d
      BY <1>1, <2>3, FreezeTells
    <3>2. IsPrefix(history, history')
      BY <2>1, <3>1, PrefixOfLonger
    <3> QED
      BY <2>3, <3>1, <3>2 DEF Freeze
  <2>4. CASE apply \/ Flush \/ Begin
    <3>1. recording' = TRUE \/ (recording /\ UNCHANGED recording)
      BY <2>4 DEF apply, Flush, Begin
    <3>2. recording'
      BY <3>1
    <3> QED
      BY <3>2
  <2>5. CASE Ignore \/ Tick
    BY <2>2, <2>5 DEF Ignore, Tick, store
  <2>6. CASE ClientNext
    BY <2>2, <2>6 DEF ClientNext, Observe, CountOp, TakeLatencies, SwapCounters,
       SendSample,
                      storeVars, store
  <2>7. CASE Receive
    BY <2>2, <2>7 DEF Receive, Add, store
  <2>8. CASE UNCHANGED vars
    BY <2>2, <2>8 DEF vars, storeVars, store
  <2> QED
    BY <1>1, <2>3, <2>4, <2>5, <2>6, <2>7, <2>8 DEF Next, StoreNext
<1>2. Types /\ [Next]_vars => [A]_storeVars
    BY <1>1
<1> QED
    BY <1>2, TypesHold, PTL DEF Spec, FrozenIsComplete

-----------------------------------------------------------------------------
(***************************************************************************)
(* Conservation                                                            *)
(***************************************************************************)
\* How many operations, and how many latencies, there are in all.
OpsInAll == (IF worker = "observed" THEN 1 ELSE 0) + stats.ops + taken.ops
                + Ops(wire) + Ops(in) + totals + gone.ops
LatenciesInAll == stats.lat.total + taken.lat.total
                      + Latencies(wire) + Latencies(in) + latencies.total + gone.lat

LEMMA AllAreNumbers ==
    ASSUME Types
    PROVE  /\ stats.ops \in Nat /\ taken.ops \in Nat
           /\ Ops(wire) \in Nat /\ Ops(in) \in Nat /\ totals \in Nat /\ gone.ops \in Nat
           /\ stats.lat.total \in Nat /\ taken.lat.total \in Nat
           /\ Latencies(wire) \in Nat /\ Latencies(in) \in Nat
           /\ latencies.total \in Nat /\ gone.lat \in Nat
           /\ observed \in Nat
<1>1. wire \in Seq(GoodSamples) /\ in \in Seq(GoodQueued)
    BY DEF Types, StoreTypes, ClientTypes
<1>2. Ops(wire) \in Nat /\ Ops(in) \in Nat /\ Latencies(wire) \in Nat /\ Latencies(in) \in Nat
    BY <1>1, GoodAreNumbered, QueueTells
<1>3. /\ stats.ops \in Nat /\ taken.ops \in Nat
      /\ stats.lat \in GoodLatencies /\ taken.lat \in GoodLatencies
      /\ latencies \in GoodLatencies /\ totals \in Nat /\ gone.ops \in Nat /\ gone.lat \in Nat
    BY DEF Types, StoreTypes, ClientTypes
<1>4. observed \in Nat
    BY PathAssumption DEF Types, ClientTypes
<1> QED
    BY <1>2, <1>3, <1>4, GoodCounts

\* A step that moves operations keeps their number.
LEMMA ClientConserves ==
    ASSUME Types, OperationsConserved, ClientNext
    PROVE  OperationsConserved'
<1>1. observed = OpsInAll /\ observed = LatenciesInAll
    BY DEF OperationsConserved, OpsInAll, LatenciesInAll
<1>2. SUFFICES observed' = OpsInAll' /\ observed' = LatenciesInAll'
    BY DEF OperationsConserved, OpsInAll, LatenciesInAll
<1>3. ASSUME NEW us \in Durations, Observe(us)
      PROVE  observed' = OpsInAll' /\ observed' = LatenciesInAll'
  <2>1. stats'.lat.total = stats.lat.total + 1 /\ stats'.ops = stats.ops
    BY <1>3, ObserveKeepsTypes
  <2>2. /\ worker = "works" /\ worker' = "observed" /\ observed' = observed + 1
        /\ UNCHANGED <<taken, wire, in, totals, latencies, gone>>
    BY <1>3 DEF Observe, storeVars, store, ghosts
  <2>3. OpsInAll' = OpsInAll + 1
    BY <2>1, <2>2, AllAreNumbers DEF OpsInAll
  <2>4. LatenciesInAll' = LatenciesInAll + 1
    BY <2>1, <2>2, AllAreNumbers DEF LatenciesInAll
  <2> QED
    BY <1>1, <2>2, <2>3, <2>4
<1>4. CASE CountOp
  <2>1. stats'.lat = stats.lat /\ stats'.ops = stats.ops + 1
    BY <1>4, CountOpKeepsTypes
  <2>2. /\ worker = "observed" /\ worker' = "works"
        /\ UNCHANGED <<observed, taken, wire, in, totals, latencies, gone>>
    BY <1>4 DEF CountOp, storeVars, store, ghosts
  <2>3. OpsInAll' = OpsInAll
    BY <2>1, <2>2, AllAreNumbers DEF OpsInAll
  <2>4. LatenciesInAll' = LatenciesInAll
    BY <2>1, <2>2, AllAreNumbers DEF LatenciesInAll
  <2> QED
    BY <1>1, <2>2, <2>3, <2>4
<1>5. CASE TakeLatencies
  <2>1. /\ stats'.lat.total = 0 /\ taken'.lat = stats.lat /\ taken.lat.total = 0
        /\ stats'.ops = stats.ops /\ taken'.ops = taken.ops
    BY <1>5, TakeLatenciesKeepsTypes
  <2>2. UNCHANGED <<worker, observed, wire, in, totals, latencies, gone>>
    BY <1>5 DEF TakeLatencies, storeVars, store, ghosts
  <2>3. OpsInAll' = OpsInAll
    BY <2>1, <2>2, AllAreNumbers DEF OpsInAll
  <2>4. LatenciesInAll' = LatenciesInAll
    BY <2>1, <2>2, AllAreNumbers DEF LatenciesInAll
  <2> QED
    BY <1>1, <2>2, <2>3, <2>4
<1>6. ASSUME NEW sec \in (now - Late)..(now + Ahead), sec > 0, SwapCounters(sec)
      PROVE  observed' = OpsInAll' /\ observed' = LatenciesInAll'
  <2>1. /\ stats'.lat = stats.lat /\ taken'.lat = taken.lat
        /\ stats'.ops = 0 /\ taken'.ops = stats.ops /\ taken.ops = 0
    BY <1>6, SwapCountersKeepsTypes
  <2>2. UNCHANGED <<worker, observed, wire, in, totals, latencies, gone>>
    BY <1>6 DEF SwapCounters, storeVars, store, ghosts
  <2>3. OpsInAll' = OpsInAll
    BY <2>1, <2>2, AllAreNumbers DEF OpsInAll
  <2>4. LatenciesInAll' = LatenciesInAll
    BY <2>1, <2>2, AllAreNumbers DEF LatenciesInAll
  <2> QED
    BY <1>1, <2>2, <2>3, <2>4
<1>7. CASE SendSample
  <2>1. taken'.ops = 0 /\ taken'.lat.total = 0
    BY <1>7, NewLatenciesAreGood DEF SendSample, NoSample
  <2>2. UNCHANGED <<worker, observed, stats, in, totals, latencies>>
    BY <1>7 DEF SendSample, store
  <2>3. /\ Ops(wire)' + gone'.ops = Ops(wire) + gone.ops + taken.ops
        /\ Latencies(wire)' + gone'.lat = Latencies(wire) + gone.lat + taken.lat.total
        /\ Ops(wire)' \in Nat /\ gone'.ops \in Nat
        /\ Latencies(wire)' \in Nat /\ gone'.lat \in Nat
    <3>1. ASSUME NEW w \in Windows, wire' = Append(wire, OfWindow(w)), UNCHANGED gone
          PROVE  /\ Ops(wire)' = Ops(wire) + taken.ops /\ gone' = gone
                 /\ Latencies(wire)' = Latencies(wire) + taken.lat.total
      <4> DEFINE x == OfWindow(w)
      <4>1. x.ops = taken.ops /\ x.lat = taken.lat
        BY DEF OfWindow
      <4>2. x \in GoodSamples
        BY <1>7 DEF OfWindow, GoodSamples, Types, ClientTypes, LoopOK, SendSample
      <4> HIDE DEF x
      <4>3. wire \in Seq(GoodSamples)
        BY DEF Types, ClientTypes
      <4>4. /\ Ops(Append(wire, x)) = Ops(wire) + x.ops
            /\ Latencies(Append(wire, x)) = Latencies(wire) + x.lat.total
        BY <4>2, <4>3, GoodAreNumbered, QueueTells
      <4>5. wire' = Append(wire, x) /\ gone' = gone
        BY <3>1 DEF x
      <4> QED
        BY <4>1, <4>4, <4>5
    <3>2. CASE Gone(taken.ops, taken.lat.total) /\ UNCHANGED wire
      <4>1. gone \in [ops : Nat, lat : Nat]
        BY DEF Types, StoreTypes
      <4>2. gone'.ops = gone.ops + taken.ops /\ gone'.lat = gone.lat + taken.lat.total
        BY <3>2, <4>1, AllAreNumbers, GoneIsTyped
      <4> QED
        BY <3>2, <4>2, AllAreNumbers
    <3>3. /\ taken.ops \in Nat /\ taken.lat.total \in Nat /\ gone.ops \in Nat
          /\ gone.lat \in Nat /\ Ops(wire) \in Nat /\ Latencies(wire) \in Nat
      BY AllAreNumbers
    <3>4. CASE \E w \in Windows : wire' = Append(wire, OfWindow(w)) /\ UNCHANGED gone
      <4>1. /\ Ops(wire)' = Ops(wire) + taken.ops /\ gone' = gone
            /\ Latencies(wire)' = Latencies(wire) + taken.lat.total
        BY <3>1, <3>4
      <4>2. gone'.ops = gone.ops /\ gone'.lat = gone.lat
        BY <4>1
      <4> DEFINE a == Ops(wire)
                 b == Latencies(wire)
                 c == gone.ops
                 d == gone.lat
                 m == taken.ops
                 n == taken.lat.total
      <4>3. /\ a + m + c = a + c + m /\ b + n + d = b + d + n
            /\ a + m \in Nat /\ b + n \in Nat
        <5>1. a \in Nat /\ b \in Nat /\ c \in Nat /\ d \in Nat /\ m \in Nat /\ n \in Nat
          BY <3>3
        <5> HIDE DEF a, b, c, d, m, n
        <5> QED
          BY <5>1
      <4> QED
        BY <3>3, <4>1, <4>2, <4>3
    <3> QED
      BY <1>7, <3>2, <3>4 DEF SendSample
  <2>4. OpsInAll' = OpsInAll
    BY <2>1, <2>2, <2>3, AllAreNumbers DEF OpsInAll
  <2>5. LatenciesInAll' = LatenciesInAll
    BY <2>1, <2>2, <2>3, AllAreNumbers DEF LatenciesInAll
  <2> QED
    BY <1>1, <2>2, <2>4, <2>5
<1> QED
    BY <1>3, <1>4, <1>5, <1>6, <1>7 DEF ClientNext

LEMMA ReceiveConserves ==
    ASSUME Types, OperationsConserved, Receive
    PROVE  OperationsConserved'
<1>1. observed = OpsInAll /\ observed = LatenciesInAll
    BY DEF OperationsConserved, OpsInAll, LatenciesInAll
<1>2. SUFFICES observed' = OpsInAll' /\ observed' = LatenciesInAll'
    BY DEF OperationsConserved, OpsInAll, LatenciesInAll
<1> DEFINE s == Head(wire)
           t == Tail(wire)
<1>3. /\ s \in GoodSamples
      /\ Ops(wire) = s.ops + Ops(t) /\ Latencies(wire) = s.lat.total + Latencies(t)
      /\ Ops(t) \in Nat /\ Latencies(t) \in Nat
  <2>1. wire \in Seq(GoodSamples) /\ wire # << >>
    BY DEF Types, ClientTypes, Receive
  <2> QED
    BY <2>1, GoodAreNumbered, QueueTells
<1>4. /\ wire' = t /\ UNCHANGED <<client, observed>>
      /\ Add(s) \/ (Gone(s.ops, s.lat.total)
                        /\ UNCHANGED <<now, store, in, runNo, trimmed, ofRun>>)
    BY DEF Receive
<1> HIDE DEF s, t
<1>5. s.ops \in Nat /\ s.lat.total \in Nat
    BY <1>3, GoodAreNumbered DEF Numbered
<1>6. UNCHANGED <<totals, latencies>>
    BY <1>4 DEF Add, store
<1>7. /\ Ops(in)' + gone'.ops = Ops(in) + gone.ops + s.ops
      /\ Latencies(in)' + gone'.lat = Latencies(in) + gone.lat + s.lat.total
      /\ Ops(in)' \in Nat /\ gone'.ops \in Nat
      /\ Latencies(in)' \in Nat /\ gone'.lat \in Nat
  <2>1. CASE in' = Append(in, InRun(s)) /\ UNCHANGED gone
    <3> DEFINE x == InRun(s)
    <3>1. x.ops = s.ops /\ x.lat = s.lat
      BY DEF InRun
    <3>2. x \in GoodQueued /\ in \in Seq(GoodQueued)
      BY <1>3 DEF InRun, GoodSamples, GoodQueued, Types, StoreTypes
    <3> HIDE DEF x
    <3>3. /\ Ops(Append(in, x)) = Ops(in) + x.ops
          /\ Latencies(Append(in, x)) = Latencies(in) + x.lat.total
      BY <3>2, GoodAreNumbered, QueueTells
    <3>4. in' = Append(in, x) /\ gone' = gone
      BY <2>1 DEF x
    <3>5. Ops(in)' = Ops(in) + s.ops /\ Latencies(in)' = Latencies(in) + s.lat.total
      BY <3>1, <3>3, <3>4
    <3>6. Ops(in) \in Nat /\ Latencies(in) \in Nat /\ gone.ops \in Nat /\ gone.lat \in Nat
      BY AllAreNumbers
    <3>7. Ops(in)' \in Nat /\ Latencies(in)' \in Nat
      BY <1>5, <3>5, <3>6
    <3>8. gone'.ops = gone.ops /\ gone'.lat = gone.lat
      BY <3>4
    <3> DEFINE a == Ops(in)
               b == Latencies(in)
               c == gone.ops
               d == gone.lat
               m == s.ops
               n == s.lat.total
    <3>9. a + m + c = a + c + m /\ b + n + d = b + d + n
      <4>1. /\ a \in Nat /\ b \in Nat /\ c \in Nat /\ d \in Nat /\ m \in Nat /\ n \in Nat
        BY <1>5, <3>6
      <4> HIDE DEF a, b, c, d, m, n
      <4> QED
        BY <4>1
    <3> QED
      BY <3>5, <3>6, <3>7, <3>8, <3>9
  <2>2. CASE Gone(s.ops, s.lat.total) /\ UNCHANGED in
    <3>1. gone \in [ops : Nat, lat : Nat]
      BY DEF Types, StoreTypes
    <3>2. gone'.ops = gone.ops + s.ops /\ gone'.lat = gone.lat + s.lat.total
      BY <1>5, <2>2, <3>1, GoneIsTyped
    <3> QED
      BY <1>5, <2>2, <3>2, AllAreNumbers
  <2> QED
    BY <1>4, <2>1, <2>2 DEF Add
<1>8. UNCHANGED <<worker, stats, taken>>
    BY <1>4 DEF client
<1>9. Ops(wire)' = Ops(t) /\ Latencies(wire)' = Latencies(t)
    BY <1>4
<1>10. OpsInAll' = OpsInAll
    BY <1>3, <1>5, <1>6, <1>7, <1>8, <1>9, AllAreNumbers DEF OpsInAll
<1>11. LatenciesInAll' = LatenciesInAll
  <2> DEFINE p == stats.lat.total + taken.lat.total
             a == Latencies(t)
             b == Latencies(in)
             c == Latencies(in)'
             d == latencies.total
             e == gone.lat
             f == gone'.lat
             n == s.lat.total
  <2>1. /\ p \in Nat /\ a \in Nat /\ b \in Nat /\ c \in Nat /\ d \in Nat /\ e \in Nat
        /\ f \in Nat /\ n \in Nat
        /\ c + f = b + e + n
    BY <1>3, <1>5, <1>7, AllAreNumbers
  <2>2. LatenciesInAll = p + (n + a) + b + d + e
    BY <1>3 DEF LatenciesInAll
  <2>3. LatenciesInAll' = p + a + c + d + f
    BY <1>6, <1>8, <1>9 DEF LatenciesInAll
  <2> HIDE DEF p, a, b, c, d, e, f, n
  <2> QED
    BY <2>1, <2>2, <2>3
<1> QED
    BY <1>1, <1>4, <1>10, <1>11

LEMMA StoreConserves ==
    ASSUME Types, OperationsConserved, StoreNext, UNCHANGED <<client, wire, samples, observed>>
    PROVE  OperationsConserved'
<1>1. observed = OpsInAll /\ observed = LatenciesInAll
    BY DEF OperationsConserved, OpsInAll, LatenciesInAll
<1>2. SUFFICES OpsInAll' = OpsInAll /\ LatenciesInAll' = LatenciesInAll
    BY <1>1 DEF OperationsConserved, OpsInAll, LatenciesInAll
<1>3. UNCHANGED <<worker, stats, taken, wire, observed>>
    BY DEF client
<1>4. CASE UNCHANGED <<in, totals, latencies, gone>>
    BY <1>3, <1>4 DEF OpsInAll, LatenciesInAll
<1>5. CASE Flush \/ Freeze \/ Tick
    BY <1>4, <1>5 DEF Flush, Freeze, Tick, store, ghosts
<1>6. CASE Begin
  <2>1. gone \in [ops : Nat, lat : Nat] /\ totals \in Nat /\ latencies.total \in Nat
    BY AllAreNumbers DEF Types, StoreTypes
  <2>2. gone'.ops = gone.ops + totals /\ gone'.lat = gone.lat + latencies.total
    BY <1>6, <2>1, GoneIsTyped DEF Begin
  <2>3. totals' = 0 /\ latencies'.total = 0 /\ in' = in
    BY <1>6, NewLatenciesAreGood DEF Begin
  <2>4. OpsInAll' = OpsInAll
    BY <1>3, <2>2, <2>3, AllAreNumbers DEF OpsInAll
  <2>5. LatenciesInAll' = LatenciesInAll
    BY <1>3, <2>2, <2>3, AllAreNumbers DEF LatenciesInAll
  <2> QED
    BY <2>4, <2>5
<1>7. CASE Ignore \/ apply
  <2> DEFINE s == Head(in)
             t == Tail(in)
  <2>1. in \in Seq(GoodQueued) /\ in # << >> /\ in' = t
    BY <1>7 DEF Types, StoreTypes, Ignore, apply
  <2>2. /\ s \in GoodQueued
        /\ Ops(in) = s.ops + Ops(t) /\ Latencies(in) = s.lat.total + Latencies(t)
        /\ Ops(t) \in Nat /\ Latencies(t) \in Nat
    BY <2>1, GoodAreNumbered, QueueTells
  <2>3. /\ \/ Gone(s.ops, s.lat.total) /\ UNCHANGED <<totals, latencies>>
           \/ /\ totals' = totals + s.ops
              /\ latencies' = Merge(latencies, s.lat)
              /\ UNCHANGED gone
    BY <1>7 DEF Ignore, apply, store
  <2> HIDE DEF s, t
  <2>4. s.ops \in Nat /\ s.lat \in GoodLatencies /\ s.lat.total \in Nat
    BY <2>2, GoodCounts DEF GoodQueued
  <2>5. /\ totals' + gone'.ops = totals + gone.ops + s.ops
        /\ latencies'.total + gone'.lat = latencies.total + gone.lat + s.lat.total
        /\ totals' \in Nat /\ gone'.ops \in Nat /\ latencies'.total \in Nat /\ gone'.lat \in Nat
    <3>1. CASE Gone(s.ops, s.lat.total) /\ UNCHANGED <<totals, latencies>>
      <4>1. gone \in [ops : Nat, lat : Nat]
        BY DEF Types, StoreTypes
      <4>2. gone'.ops = gone.ops + s.ops /\ gone'.lat = gone.lat + s.lat.total
        BY <2>4, <3>1, <4>1, GoneIsTyped
      <4> QED
        BY <2>4, <3>1, <4>2, AllAreNumbers
    <3>2. CASE /\ totals' = totals + s.ops
               /\ latencies' = Merge(latencies, s.lat)
               /\ UNCHANGED gone
      <4>1. latencies \in GoodLatencies
        BY DEF Types, StoreTypes
      <4>2. latencies'.total = latencies.total + s.lat.total
        BY <2>4, <3>2, <4>1, MergeIsGood
      <4> QED
        BY <2>4, <3>2, <4>2, AllAreNumbers
    <3> QED
      BY <2>3, <3>1, <3>2
  <2>6. Ops(in)' = Ops(t) /\ Latencies(in)' = Latencies(t)
    BY <2>1
  <2>7. OpsInAll' = OpsInAll
    <3> DEFINE p == (IF worker = "observed" THEN 1 ELSE 0) + stats.ops + taken.ops + Ops(wire)
               a == Ops(t)
               c == totals
               d == totals'
               e == gone.ops
               f == gone'.ops
               n == s.ops
    <3>1. /\ p \in Nat /\ a \in Nat /\ c \in Nat /\ d \in Nat /\ e \in Nat /\ f \in Nat
          /\ n \in Nat
          /\ d + f = c + e + n
      BY <2>2, <2>4, <2>5, AllAreNumbers
    <3>2. OpsInAll = p + (n + a) + c + e
      BY <2>2 DEF OpsInAll
    <3>3. OpsInAll' = p + a + d + f
      BY <1>3, <2>6 DEF OpsInAll
    <3> HIDE DEF p, a, c, d, e, f, n
    <3> QED
      BY <3>1, <3>2, <3>3
  <2>8. LatenciesInAll' = LatenciesInAll
    <3> DEFINE p == stats.lat.total + taken.lat.total + Latencies(wire)
               a == Latencies(t)
               c == latencies.total
               d == latencies'.total
               e == gone.lat
               f == gone'.lat
               n == s.lat.total
    <3>1. /\ p \in Nat /\ a \in Nat /\ c \in Nat /\ d \in Nat /\ e \in Nat /\ f \in Nat
          /\ n \in Nat
          /\ d + f = c + e + n
      BY <2>2, <2>4, <2>5, AllAreNumbers
    <3>2. LatenciesInAll = p + (n + a) + c + e
      BY <2>2 DEF LatenciesInAll
    <3>3. LatenciesInAll' = p + a + d + f
      BY <1>3, <2>6 DEF LatenciesInAll
    <3> HIDE DEF p, a, c, d, e, f, n
    <3> QED
      BY <3>1, <3>2, <3>3
  <2> QED
    BY <2>7, <2>8
<1> QED
    BY <1>5, <1>6, <1>7 DEF StoreNext

\* No operation is forgotten and none counted twice on the way from the worker to
\* the totals of the controller, nor is a latency.
THEOREM NoOperationForgotten == Spec => []OperationsConserved
<1>1. Init => OperationsConserved
  <2> SUFFICES ASSUME Init
               PROVE  OperationsConserved
    OBVIOUS
  <2>1. /\ worker = "works" /\ observed = 0 /\ totals = 0 /\ gone.ops = 0 /\ gone.lat = 0
        /\ stats.ops = 0 /\ stats.lat = NewLatencies
        /\ taken.ops = 0 /\ taken.lat = NewLatencies /\ latencies = NewLatencies
        /\ in = << >> /\ wire = << >>
    BY DEF Init, StoreInit, NoStats, NoSample
  <2>2. /\ Ops(wire) = 0 /\ Ops(in) = 0 /\ Latencies(wire) = 0 /\ Latencies(in) = 0
        /\ NewLatencies.total = 0
    BY <2>1, EmptyOps, NewLatenciesAreGood
  <2> QED
    BY <2>1, <2>2 DEF OperationsConserved
<1>2. ASSUME Types, OperationsConserved, [Next]_vars
      PROVE  OperationsConserved'
  <2>1. CASE ClientNext
    BY <1>2, <2>1, ClientConserves
  <2>2. CASE Receive
    BY <1>2, <2>2, ReceiveConserves
  <2>3. CASE StoreNext /\ UNCHANGED <<client, wire, samples, observed>>
    BY <1>2, <2>3, StoreConserves
  <2>4. CASE UNCHANGED vars
    BY <1>2, <2>4 DEF vars, storeVars, store, ghosts, client, OperationsConserved
  <2> QED
    BY <1>2, <2>1, <2>2, <2>3, <2>4 DEF Next
<1> QED
    BY <1>1, <1>2, TypesHold, PTL DEF Spec
=============================================================================
