-------------------------- MODULE PhaseConfigProofs --------------------------
(***************************************************************************)
(* The list of disabled phases, the plan of a run and the saved            *)
(* configuration, for every configuration a user submits, every number of  *)
(* clicks, failed saves and restarts.                                      *)
(*                                                                         *)
(* The loops of the program are one fold, Collect, over one list.  What it *)
(* collects from a list with one more element, and from two lists put      *)
(* together, is proved first; the rest follows by induction on the list.   *)
(***************************************************************************)
EXTENDS PhaseConfig, FiniteSetTheorems, SequenceTheorems, WellFoundedInduction, TLAPS

-----------------------------------------------------------------------------
(***************************************************************************)
(* Induction on numbers and on sequences.                                  *)
(***************************************************************************)

LEMMA LeastOf ==
    ASSUME NEW S, S \subseteq Nat, S # {}
    PROVE  \E n \in S : \A m \in S : n <= m
<1>1. PICK x \in S : \A y \in S : ~ (<<y, x>> \in OpToRel(<, Nat))
    BY NatLessThanWellFounded, WFMin
<1>2. ASSUME NEW y \in S
      PROVE  x <= y
  <2>1. ~ (y < x)
    BY <1>1 DEF OpToRel
  <2>2. x \in Nat /\ y \in Nat
    OBVIOUS
  <2> QED
    BY <2>1, <2>2
<1> QED
    BY <1>2

LEMMA Induct ==
    ASSUME NEW S, 0 \in S, \A n \in Nat : n \in S => n + 1 \in S
    PROVE  Nat \subseteq S
<1> SUFFICES ASSUME Nat \ S # {}
             PROVE  FALSE
    OBVIOUS
<1>1. PICK n \in Nat \ S : \A m \in Nat \ S : n <= m
    BY LeastOf
<1>2. n # 0 /\ n - 1 \in Nat /\ n - 1 \in S
    BY <1>1
<1>3. (n - 1) + 1 \in S
    BY <1>2
<1> QED
    BY <1>1, <1>2, <1>3

LEMMA SeqInduct ==
    ASSUME NEW T, NEW P, << >> \in P,
           \A s \in Seq(T) : \A x \in T : s \in P => Append(s, x) \in P
    PROVE  Seq(T) \subseteq P
<1> DEFINE N == {n \in Nat : \A s \in Seq(T) : Len(s) = n => s \in P}
<1>1. 0 \in N
  <2>1. \A s \in Seq(T) : Len(s) = 0 => s = << >>
    BY EmptySeq
  <2> QED
    BY <2>1
<1>2. ASSUME NEW n \in Nat, n \in N
      PROVE  n + 1 \in N
  <2> SUFFICES ASSUME NEW s \in Seq(T), Len(s) = n + 1
               PROVE  s \in P
    OBVIOUS
  <2>1. s # << >>
    BY EmptySeq
  <2>2. PICK r \in Seq(T), x \in T : s = Append(r, x)
    BY <2>1, SequenceEmptyOrAppend
  <2>3. Len(r) = n
    BY <2>2, AppendProperties
  <2> QED
    BY <1>2, <2>2, <2>3
<1> HIDE DEF N
<1>3. Nat \subseteq N
    BY <1>1, <1>2, Induct
<1> QED
    BY <1>3 DEF N

LEMMA AppendToSet ==
    ASSUME NEW T, NEW s \in Seq(T), NEW x \in T
    PROVE  /\ Append(s, x) \in Seq(T)
           /\ ToSet(Append(s, x)) = ToSet(s) \cup {x}
<1>1. /\ Append(s, x) \in Seq(T)
      /\ Len(Append(s, x)) = Len(s) + 1
      /\ \A i \in 1..Len(s) : Append(s, x)[i] = s[i]
      /\ Append(s, x)[Len(s) + 1] = x
    BY AppendProperties
<1> QED
    BY <1>1 DEF ToSet

LEMMA ConcatToSet ==
    ASSUME NEW T, NEW s \in Seq(T), NEW r \in Seq(T)
    PROVE  /\ s \o r \in Seq(T)
           /\ ToSet(s \o r) = ToSet(s) \cup ToSet(r)
<1>1. /\ s \o r \in Seq(T)
      /\ Len(s \o r) = Len(s) + Len(r)
      /\ \A i \in 1..Len(s) + Len(r) :
             (s \o r)[i] = IF i <= Len(s) THEN s[i] ELSE r[i - Len(s)]
    BY ConcatProperties
<1>0. DOMAIN s = 1..Len(s) /\ DOMAIN r = 1..Len(r) /\ DOMAIN (s \o r) = 1..Len(s) + Len(r)
    BY <1>1, LenProperties
<1>2. ASSUME NEW x \in ToSet(s \o r)
      PROVE  x \in ToSet(s) \cup ToSet(r)
  <2>1. PICK i \in 1..Len(s) + Len(r) : x = (s \o r)[i]
    BY <1>0 DEF ToSet
  <2>0. Len(s) \in Nat /\ Len(r) \in Nat
    OBVIOUS
  <2>2. CASE i <= Len(s)
    <3>1. i \in DOMAIN s /\ x = s[i]
      BY <1>0, <1>1, <2>0, <2>1, <2>2
    <3> QED
      BY <3>1 DEF ToSet
  <2>3. CASE i > Len(s)
    <3>1. i - Len(s) \in DOMAIN r /\ x = r[i - Len(s)]
      BY <1>0, <1>1, <2>0, <2>1, <2>3
    <3> QED
      BY <3>1 DEF ToSet
  <2> QED
    BY <2>0, <2>1, <2>2, <2>3
<1>3. ASSUME NEW x \in ToSet(s)
      PROVE  x \in ToSet(s \o r)
  <2>1. PICK i \in 1..Len(s) : x = s[i]
    BY <1>0 DEF ToSet
  <2>2. i \in DOMAIN (s \o r) /\ (s \o r)[i] = x
    BY <1>0, <1>1, <2>1
  <2> QED
    BY <2>2 DEF ToSet
<1>4. ASSUME NEW x \in ToSet(r)
      PROVE  x \in ToSet(s \o r)
  <2>1. PICK i \in 1..Len(r) : x = r[i]
    BY <1>0 DEF ToSet
  <2>2. i + Len(s) \in DOMAIN (s \o r) /\ (s \o r)[i + Len(s)] = x
    BY <1>0, <1>1, <2>1
  <2> QED
    BY <2>2 DEF ToSet
<1> QED
    BY <1>1, <1>2, <1>3, <1>4

LEMMA EmptyToSet ==
    /\ ToSet(<< >>) = {}
    /\ \A T : \A s \in Seq(T) : ToSet(s) = {} => s = << >>
<1>1. ASSUME NEW T, NEW s \in Seq(T), s # << >>
      PROVE  ToSet(s) # {}
  <2>1. s[1] \in ToSet(s)
    BY <1>1, EmptySeq DEF ToSet
  <2> QED
    BY <2>1
<1>2. ToSet(<< >>) = {}
    BY DEF ToSet
<1> QED
    BY <1>1, <1>2

LEMMA AppendConcat ==
    ASSUME NEW T, NEW s \in Seq(T), NEW r \in Seq(T), NEW x \in T
    PROVE  s \o Append(r, x) = Append(s \o r, x)
<1>1. /\ Append(r, x) = r \o <<x>>
      /\ Append(s \o r, x) = (s \o r) \o <<x>>
      /\ <<x>> \in Seq(T)
    BY AppendIsConcat, ConcatProperties
<1> QED
    BY <1>1, ConcatAssociative

-----------------------------------------------------------------------------
(***************************************************************************)
(* Collect, one element of the list at a time.                             *)
(***************************************************************************)

Taken(out, p, S) == IF p \in S \ ToSet(out) THEN Append(out, p) ELSE out

\* The function that the fold defines.
IsLoop(f, list, S, D) ==
    f = [s \in SUBSET D |-> IF s = {} THEN << >>
                            ELSE Taken(f[s \ {Max(s)}], list[Max(s)], S)]

LEMMA LoopExists ==
    ASSUME NEW list, NEW S, NEW N \in Nat
    PROVE  \E f : IsLoop(f, list, S, 1..N)
<1> DEFINE M == {n \in Nat : \E f : IsLoop(f, list, S, 1..n)}
<1>1. 0 \in M
  <2> DEFINE f == [s \in SUBSET (1..0) |-> << >>]
  <2>1. \A s \in SUBSET (1..0) : s = {}
    OBVIOUS
  <2>2. IsLoop(f, list, S, 1..0)
    BY <2>1 DEF IsLoop
  <2> HIDE DEF f
  <2> QED
    BY <2>2
<1>2. ASSUME NEW n \in Nat, n \in M
      PROVE  n + 1 \in M
  <2>1. PICK f : IsLoop(f, list, S, 1..n)
    BY <1>2
  <2> DEFINE g == [s \in SUBSET (1..(n + 1)) |->
                       IF n + 1 \in s THEN Taken(f[s \ {n + 1}], list[n + 1], S)
                                      ELSE f[s]]
  <2>2. ASSUME NEW s \in SUBSET (1..(n + 1)), s # {}
        PROVE  g[s] = Taken(g[s \ {Max(s)}], list[Max(s)], S)
    <3>1. CASE n + 1 \in s
      <4>1. Max(s) = n + 1
        <5>1. \A y \in s : y \in Nat /\ n + 1 >= y
          OBVIOUS
        <5>2. \A y \in s : (\A z \in s : y >= z) => y = n + 1
          BY <3>1, <5>1
        <5> QED
          BY <3>1, <5>1, <5>2 DEF Max
      <4>2. s \ {n + 1} \in SUBSET (1..n) /\ s \ {n + 1} \in SUBSET (1..(n + 1))
        OBVIOUS
      <4>3. g[s \ {n + 1}] = f[s \ {n + 1}]
        BY <4>2
      <4>4. g[s] = Taken(f[s \ {n + 1}], list[n + 1], S)
        BY <2>2, <3>1
      <4> HIDE DEF g
      <4> QED
        BY <4>1, <4>3, <4>4
    <3>2. CASE n + 1 \notin s
      <4> DEFINE r == s \ {Max(s)}
      <4>1. s \in SUBSET (1..n)
        BY <2>2, <3>2
      <4>2. r \in SUBSET (1..(n + 1)) /\ n + 1 \notin r /\ n + 1 \notin s
        BY <2>2, <3>2
      <4>3. g[s] = f[s] /\ g[r] = f[r]
        <5> HIDE DEF r
        <5> QED
          BY <2>2, <4>2
      <4>4. f[s] = Taken(f[s \ {Max(s)}], list[Max(s)], S)
        BY <2>1, <2>2, <4>1 DEF IsLoop
      <4> QED
        BY <4>3, <4>4
    <3> QED
      BY <3>1, <3>2
  <2>3. g[{}] = << >>
    BY <2>1 DEF IsLoop
  <2>4. IsLoop(g, list, S, 1..(n + 1))
    <3>1. \A s \in SUBSET (1..(n + 1)) :
              g[s] = IF s = {} THEN << >> ELSE Taken(g[s \ {Max(s)}], list[Max(s)], S)
      BY <2>2, <2>3
    <3>2. g = [s \in SUBSET (1..(n + 1)) |-> g[s]]
      OBVIOUS
    <3> HIDE DEF g
    <3> QED
      BY <3>1, <3>2 DEF IsLoop
  <2> HIDE DEF g
  <2> QED
    BY <2>4
<1> HIDE DEF M
<1>3. N \in M
    BY <1>1, <1>2, Induct
<1> QED
    BY <1>3 DEF M

LEMMA LoopTells ==
    ASSUME NEW f, NEW list, NEW S, NEW N \in Nat, IsLoop(f, list, S, 1..N)
    PROVE  /\ f[1..0] = << >>
           /\ \A n \in 1..N : f[1..n] = Taken(f[1..(n - 1)], list[n], S)
<1>1. f[1..0] = << >>
  <2>1. 1..0 = {} /\ 1..0 \in SUBSET (1..N)
    OBVIOUS
  <2> QED
    BY <2>1 DEF IsLoop
<1>2. ASSUME NEW n \in 1..N
      PROVE  f[1..n] = Taken(f[1..(n - 1)], list[n], S)
  <2>1. 1..n \in SUBSET (1..N) /\ 1..n # {}
    <3>1. n \in 1..n /\ \A m \in 1..n : m \in 1..N
      OBVIOUS
    <3> QED
      BY <3>1
  <2>2. Max(1..n) = n
    BY DEF Max
  <2>3. (1..n) \ {n} = 1..(n - 1)
    OBVIOUS
  <2>4. f[1..n] = Taken(f[(1..n) \ {Max(1..n)}], list[Max(1..n)], S)
    BY <2>1 DEF IsLoop
  <2> QED
    BY <2>2, <2>3, <2>4
<1> QED
    BY <1>1, <1>2

LEMMA CollectIsLoop ==
    ASSUME NEW T, NEW list \in Seq(T), NEW S
    PROVE  \E f : IsLoop(f, list, S, 1..Len(list)) /\ Collect(list, S) = f[1..Len(list)]
<1> DEFINE f == CHOOSE g : IsLoop(g, list, S, DOMAIN list)
<1>1. DOMAIN list = 1..Len(list) /\ Len(list) \in Nat
    OBVIOUS
<1>2. Collect(list, S) = f[DOMAIN list]
    BY DEF Collect, FoldLeft, MapThenFoldSet, Taken, IsLoop
<1>3. IsLoop(f, list, S, DOMAIN list)
    BY <1>1, LoopExists
<1> HIDE DEF f
<1> QED
    BY <1>1, <1>2, <1>3

LEMMA CollectEmpty ==
    ASSUME NEW S
    PROVE  Collect(<< >>, S) = << >>
<1>1. << >> \in Seq({}) /\ Len(<< >>) = 0
    BY EmptySeq
<1>2. PICK f : IsLoop(f, << >>, S, 1..0) /\ Collect(<< >>, S) = f[1..0]
    BY <1>1, CollectIsLoop
<1> QED
    BY <1>2, LoopTells

LEMMA CollectAppend ==
    ASSUME NEW T, NEW list \in Seq(T), NEW x \in T, NEW S
    PROVE  Collect(Append(list, x), S) = Taken(Collect(list, S), x, S)
<1> DEFINE more == Append(list, x)
           N == Len(list)
<1>1. /\ more \in Seq(T) /\ Len(more) = N + 1 /\ N \in Nat
      /\ \A i \in 1..N : more[i] = list[i]
      /\ more[N + 1] = x
    BY AppendProperties
<1>2. PICK f : IsLoop(f, list, S, 1..N) /\ Collect(list, S) = f[1..N]
    BY CollectIsLoop
<1>3. PICK g : IsLoop(g, more, S, 1..(N + 1)) /\ Collect(more, S) = g[1..(N + 1)]
    BY <1>1, CollectIsLoop
<1> HIDE DEF more, N
<1>4. /\ f[1..0] = << >>
      /\ \A n \in 1..N : f[1..n] = Taken(f[1..(n - 1)], list[n], S)
    BY <1>1, <1>2, LoopTells
<1>5. /\ g[1..0] = << >>
      /\ \A n \in 1..(N + 1) : g[1..n] = Taken(g[1..(n - 1)], more[n], S)
    BY <1>1, <1>3, LoopTells
<1> DEFINE M == {n \in Nat : n <= N => f[1..n] = g[1..n]}
<1>6. 0 \in M
    BY <1>4, <1>5
<1>7. ASSUME NEW n \in Nat, n \in M
      PROVE  n + 1 \in M
  <2> SUFFICES ASSUME n + 1 <= N
               PROVE  f[1..(n + 1)] = g[1..(n + 1)]
    OBVIOUS
  <2>1. n + 1 \in 1..N /\ n + 1 \in 1..(N + 1) /\ (n + 1) - 1 = n /\ n <= N
    BY <1>1
  <2>2. f[1..n] = g[1..n]
    BY <1>7, <2>1
  <2>3. more[n + 1] = list[n + 1]
    BY <1>1, <2>1
  <2>4. f[1..(n + 1)] = Taken(f[1..n], list[n + 1], S)
    BY <1>4, <2>1
  <2>5. g[1..(n + 1)] = Taken(g[1..n], more[n + 1], S)
    BY <1>5, <2>1
  <2> QED
    BY <2>2, <2>3, <2>4, <2>5
<1>8. N \in M
  <2> HIDE DEF M
  <2> QED
    BY <1>1, <1>6, <1>7, Induct
<1>9. f[1..N] = g[1..N]
    BY <1>1, <1>8
<1>10. g[1..(N + 1)] = Taken(g[1..N], x, S)
  <2>1. N + 1 \in 1..(N + 1) /\ (N + 1) - 1 = N
    BY <1>1
  <2> QED
    BY <1>1, <1>5, <2>1
<1> QED
    BY <1>2, <1>3, <1>9, <1>10 DEF more

-----------------------------------------------------------------------------
(***************************************************************************)
(* What Collect returns.                                                   *)
(***************************************************************************)

Distinct(s) == \A i, j \in DOMAIN s : s[i] = s[j] => i = j

LEMMA AppendDistinct ==
    ASSUME NEW T, NEW s \in Seq(T), NEW x \in T, Distinct(s), x \notin ToSet(s)
    PROVE  Distinct(Append(s, x))
<1>1. /\ DOMAIN Append(s, x) = 1..(Len(s) + 1) /\ DOMAIN s = 1..Len(s)
      /\ \A i \in 1..Len(s) : Append(s, x)[i] = s[i]
      /\ Append(s, x)[Len(s) + 1] = x
      /\ Len(s) \in Nat
    BY AppendProperties, LenProperties
<1>2. \A i \in 1..Len(s) : s[i] # x
    BY <1>1 DEF ToSet
<1>3. ASSUME NEW i \in 1..(Len(s) + 1), NEW j \in 1..(Len(s) + 1),
             Append(s, x)[i] = Append(s, x)[j]
      PROVE  i = j
  <2>1. CASE i \in 1..Len(s) /\ j \in 1..Len(s)
    BY <1>1, <1>3, <2>1 DEF Distinct
  <2>2. CASE i = Len(s) + 1 \/ j = Len(s) + 1
    BY <1>1, <1>2, <1>3, <2>2
  <2> QED
    BY <1>1, <2>1, <2>2
<1> QED
    BY <1>1, <1>3 DEF Distinct

\* The elements of the list that are in S, each once.
LEMMA CollectTells ==
    ASSUME NEW T, NEW list \in Seq(T), NEW S
    PROVE  /\ Collect(list, S) \in Seq(T)
           /\ ToSet(Collect(list, S)) = ToSet(list) \cap S
           /\ Distinct(Collect(list, S))
<1> DEFINE Good(s) == /\ Collect(s, S) \in Seq(T)
                      /\ ToSet(Collect(s, S)) = ToSet(s) \cap S
                      /\ Distinct(Collect(s, S))
           P == {s \in Seq(T) : Good(s)}
<1>1. << >> \in P
  <2>1. << >> \in Seq(T) /\ Distinct(<< >>)
    BY DEF Distinct
  <2> QED
    BY <2>1, CollectEmpty, EmptyToSet
<1>2. ASSUME NEW s \in Seq(T), NEW x \in T, s \in P
      PROVE  Append(s, x) \in P
  <2> DEFINE c == Collect(s, S)
  <2>1. c \in Seq(T) /\ ToSet(c) = ToSet(s) \cap S /\ Distinct(c)
    BY <1>2
  <2>2. Collect(Append(s, x), S) = Taken(c, x, S)
    BY CollectAppend
  <2>3. Append(s, x) \in Seq(T) /\ ToSet(Append(s, x)) = ToSet(s) \cup {x}
    BY AppendToSet
  <2> HIDE DEF c
  <2>4. CASE x \in S \ ToSet(c)
    <3>1. Taken(c, x, S) = Append(c, x)
      BY <2>4 DEF Taken
    <3>2. Append(c, x) \in Seq(T) /\ ToSet(Append(c, x)) = ToSet(c) \cup {x}
      BY <2>1, AppendToSet
    <3>3. Distinct(Append(c, x))
      BY <2>1, <2>4, AppendDistinct
    <3> QED
      BY <2>1, <2>2, <2>3, <2>4, <3>1, <3>2, <3>3
  <2>5. CASE x \notin S \ ToSet(c)
    <3>1. Taken(c, x, S) = c
      BY <2>5 DEF Taken
    <3> QED
      BY <2>1, <2>2, <2>3, <2>5, <3>1
  <2> QED
    BY <2>4, <2>5
<1> HIDE DEF P
<1>3. Seq(T) \subseteq P
    BY <1>1, <1>2, SeqInduct
<1> QED
    BY <1>3 DEF P

LEMMA CollectNone ==
    ASSUME NEW T, NEW list \in Seq(T), NEW S, ToSet(list) \cap S = {}
    PROVE  Collect(list, S) = << >>
    BY CollectTells, EmptyToSet

LEMMA CollectAll ==
    ASSUME NEW T, NEW list \in Seq(T), NEW S, ToSet(list) \subseteq S, Distinct(list)
    PROVE  Collect(list, S) = list
<1> DEFINE Good(s) == ToSet(s) \subseteq S /\ Distinct(s) => Collect(s, S) = s
           P == {s \in Seq(T) : Good(s)}
<1>1. << >> \in P
    BY CollectEmpty, EmptySeq
<1>2. ASSUME NEW s \in Seq(T), NEW x \in T, s \in P
      PROVE  Append(s, x) \in P
  <2>1. Append(s, x) \in Seq(T) /\ ToSet(Append(s, x)) = ToSet(s) \cup {x}
    BY AppendToSet
  <2> SUFFICES ASSUME ToSet(Append(s, x)) \subseteq S, Distinct(Append(s, x))
               PROVE  Collect(Append(s, x), S) = Append(s, x)
    BY <2>1
  <2>2. /\ DOMAIN Append(s, x) = 1..(Len(s) + 1) /\ DOMAIN s = 1..Len(s)
        /\ \A i \in 1..Len(s) : Append(s, x)[i] = s[i]
        /\ Append(s, x)[Len(s) + 1] = x
        /\ Len(s) \in Nat
    BY AppendProperties, LenProperties
  <2>3. Distinct(s)
    BY <2>2 DEF Distinct
  <2>4. x \notin ToSet(s)
    <3> SUFFICES ASSUME NEW i \in DOMAIN s, s[i] = x
                 PROVE  FALSE
      BY DEF ToSet
    <3>1. /\ i \in 1..(Len(s) + 1) /\ Len(s) + 1 \in 1..(Len(s) + 1) /\ i # Len(s) + 1
          /\ Append(s, x)[i] = Append(s, x)[Len(s) + 1]
      BY <2>2
    <3> QED
      BY <2>2, <3>1 DEF Distinct
  <2>5. Collect(s, S) = s
    BY <1>2, <2>1, <2>3
  <2> QED
    BY <2>1, <2>4, <2>5, CollectAppend DEF Taken
<1> HIDE DEF P
<1>3. Seq(T) \subseteq P
    BY <1>1, <1>2, SeqInduct
<1> QED
    BY <1>3 DEF P

\* Only what the list has of S matters.
LEMMA CollectSame ==
    ASSUME NEW T, NEW list \in Seq(T), NEW S, NEW R, ToSet(list) \cap S = ToSet(list) \cap R
    PROVE  Collect(list, S) = Collect(list, R)
<1> DEFINE P == {s \in Seq(T) : ToSet(s) \cap S = ToSet(s) \cap R
                                    => Collect(s, S) = Collect(s, R)}
<1>1. << >> \in P
    BY CollectEmpty, EmptySeq
<1>2. ASSUME NEW s \in Seq(T), NEW x \in T, s \in P
      PROVE  Append(s, x) \in P
  <2>1. Append(s, x) \in Seq(T) /\ ToSet(Append(s, x)) = ToSet(s) \cup {x}
    BY AppendToSet
  <2> SUFFICES ASSUME ToSet(Append(s, x)) \cap S = ToSet(Append(s, x)) \cap R
               PROVE  Collect(Append(s, x), S) = Collect(Append(s, x), R)
    BY <2>1
  <2>2. x \in S <=> x \in R
    BY <2>1
  <2>3. Collect(s, S) = Collect(s, R)
    BY <1>2, <2>1
  <2>4. /\ Collect(Append(s, x), S) = Taken(Collect(s, S), x, S)
        /\ Collect(Append(s, x), R) = Taken(Collect(s, R), x, R)
    BY CollectAppend
  <2>5. Taken(Collect(s, S), x, S) = Taken(Collect(s, S), x, R)
    BY <2>2 DEF Taken
  <2> QED
    BY <2>3, <2>4, <2>5
<1> HIDE DEF P
<1>3. Seq(T) \subseteq P
    BY <1>1, <1>2, SeqInduct
<1> QED
    BY <1>3 DEF P

LEMMA CollectConcat ==
    ASSUME NEW T, NEW list \in Seq(T), NEW rest \in Seq(T), NEW S
    PROVE  Collect(list \o rest, S) = Collect(list, S) \o Collect(rest, S \ ToSet(list))
<1> DEFINE R == S \ ToSet(list)
           a == Collect(list, S)
           P == {s \in Seq(T) : Collect(list \o s, S) = a \o Collect(s, R)}
<1>1. a \in Seq(T) /\ ToSet(a) = ToSet(list) \cap S
    BY CollectTells
<1>2. << >> \in P
    BY <1>1, CollectEmpty, EmptySeq, ConcatEmptySeq
<1>3. ASSUME NEW s \in Seq(T), NEW x \in T, s \in P
      PROVE  Append(s, x) \in P
  <2> DEFINE b == Collect(s, R)
             c == Collect(list \o s, S)
  <2>1. b \in Seq(T) /\ ToSet(b) = ToSet(s) \cap R
    BY CollectTells
  <2>2. c = a \o b
    BY <1>3
  <2>3. list \o Append(s, x) = Append(list \o s, x) /\ list \o s \in Seq(T)
    BY AppendConcat, ConcatToSet
  <2>4. Collect(list \o Append(s, x), S) = Taken(c, x, S)
    BY <2>3, CollectAppend
  <2>5. Collect(Append(s, x), R) = Taken(b, x, R)
    BY CollectAppend
  <2>6. Append(s, x) \in Seq(T)
    BY AppendToSet
  <2>7. R = S \ ToSet(list)
    OBVIOUS
  <2> HIDE DEF a, b, c, R
  <2>8. ToSet(c) = ToSet(a) \cup ToSet(b)
    BY <1>1, <2>1, <2>2, ConcatToSet
  <2>9. x \in S \ ToSet(c) <=> x \in R \ ToSet(b)
    BY <1>1, <2>1, <2>7, <2>8
  <2>10. Taken(c, x, S) = a \o Taken(b, x, R)
    <3>1. a \o Append(b, x) = Append(a \o b, x)
      BY <1>1, <2>1, AppendConcat
    <3> QED
      BY <2>2, <2>9, <3>1 DEF Taken
  <2> QED
    BY <2>4, <2>5, <2>6, <2>10
<1> HIDE DEF P
<1>4. Seq(T) \subseteq P
    BY <1>2, <1>3, SeqInduct
<1> QED
    BY <1>4 DEF P

LEMMA ConcatDistinct ==
    ASSUME NEW T, NEW s \in Seq(T), NEW r \in Seq(T), Distinct(s), Distinct(r),
           ToSet(s) \cap ToSet(r) = {}
    PROVE  /\ s \o r \in Seq(T)
           /\ ToSet(s \o r) = ToSet(s) \cup ToSet(r)
           /\ Distinct(s \o r)
<1>1. s \o r \in Seq(T) /\ ToSet(s \o r) = ToSet(s) \cup ToSet(r)
    BY ConcatToSet
<1> DEFINE Whole == ToSet(s \o r)
           Rest == Whole \ ToSet(s)
<1>2. ToSet(s) \subseteq Whole /\ ToSet(r) \subseteq Rest
    BY <1>1
<1>3. Collect(s \o r, Whole) = Collect(s, Whole) \o Collect(r, Rest)
    BY CollectConcat
<1> HIDE DEF Whole, Rest
<1>4. Collect(s, Whole) = s /\ Collect(r, Rest) = r
    BY <1>2, CollectAll
<1>5. Distinct(s \o r)
  <2>1. Distinct(Collect(s \o r, Whole))
    BY <1>1, CollectTells
  <2> QED
    BY <1>3, <1>4, <2>1
<1> QED
    BY <1>1, <1>5

-----------------------------------------------------------------------------
(***************************************************************************)
(* Phases replaced by their groups.                                        *)
(***************************************************************************)

IsFlat(f, seqs) ==
    f = [i \in 1..Len(seqs) |-> IF i = 1 THEN seqs[i] ELSE f[i - 1] \o seqs[i]]

LEMMA FlatExists ==
    ASSUME NEW T, NEW seqs \in Seq(T)
    PROVE  \E f : IsFlat(f, seqs)
<1> DEFINE P == {s \in Seq(T) : \E f : IsFlat(f, s)}
<1>1. << >> \in P
  <2> DEFINE f == [i \in 1..0 |-> i]
  <2>1. << >> \in Seq(T) /\ Len(<< >>) = 0 /\ \A i : i \notin 1..0
    BY EmptySeq
  <2>2. IsFlat(f, << >>)
    BY <2>1 DEF IsFlat
  <2> HIDE DEF f
  <2> QED
    BY <2>1, <2>2
<1>2. ASSUME NEW s \in Seq(T), NEW x \in T, s \in P
      PROVE  Append(s, x) \in P
  <2> DEFINE more == Append(s, x)
             N == Len(s)
  <2>1. PICK f : IsFlat(f, s)
    BY <1>2
  <2>2. /\ more \in Seq(T) /\ Len(more) = N + 1 /\ N \in Nat
        /\ \A i \in 1..N : more[i] = s[i]
        /\ more[N + 1] = x
    BY AppendProperties
  <2>3. f = [i \in 1..N |-> IF i = 1 THEN s[i] ELSE f[i - 1] \o s[i]]
    BY <2>1 DEF IsFlat
  <2> HIDE DEF more, N
  <2> DEFINE g == [i \in 1..(N + 1) |->
                       IF i \in 1..N THEN f[i]
                       ELSE IF i = 1 THEN more[i] ELSE f[i - 1] \o more[i]]
  <2>4. ASSUME NEW i \in 1..(N + 1)
        PROVE  g[i] = IF i = 1 THEN more[i] ELSE g[i - 1] \o more[i]
    <3>1. i # 1 => i - 1 \in 1..N /\ i - 1 \in 1..(N + 1)
      BY <2>2
    <3>2. i # 1 => g[i - 1] = f[i - 1]
      BY <3>1
    <3>3. CASE i \in 1..N
      <4>1. g[i] = f[i] /\ more[i] = s[i]
        BY <2>2, <3>3
      <4>2. f[i] = IF i = 1 THEN s[i] ELSE f[i - 1] \o s[i]
        BY <2>3, <3>3
      <4> QED
        BY <3>2, <4>1, <4>2
    <3>4. CASE i \notin 1..N
      <4>1. g[i] = IF i = 1 THEN more[i] ELSE f[i - 1] \o more[i]
        BY <3>4
      <4> QED
        BY <3>2, <4>1
    <3> QED
      BY <3>3, <3>4
  <2>5. g = [i \in 1..(N + 1) |-> g[i]]
    OBVIOUS
  <2> HIDE DEF g
  <2>6. IsFlat(g, more)
    BY <2>2, <2>4, <2>5 DEF IsFlat
  <2> QED
    BY <2>2, <2>6 DEF more
<1> HIDE DEF P
<1>3. Seq(T) \subseteq P
    BY <1>1, <1>2, SeqInduct
<1> QED
    BY <1>3 DEF P

LEMMA FlattenIsFlat ==
    ASSUME NEW T, NEW seqs \in Seq(T), seqs # << >>
    PROVE  \E f : IsFlat(f, seqs) /\ FlattenSeq(seqs) = f[Len(seqs)]
<1> DEFINE f == CHOOSE g : IsFlat(g, seqs)
<1>1. Len(seqs) # 0
    BY EmptySeq
<1>2. FlattenSeq(seqs) = f[Len(seqs)]
    BY <1>1 DEF FlattenSeq, IsFlat
<1>3. IsFlat(f, seqs)
    BY FlatExists
<1> HIDE DEF f
<1> QED
    BY <1>2, <1>3

LEMMA FlattenAppend ==
    ASSUME NEW T, NEW seqs \in Seq(Seq(T)), NEW s \in Seq(T)
    PROVE  FlattenSeq(Append(seqs, s)) = FlattenSeq(seqs) \o s
<1> DEFINE more == Append(seqs, s)
           N == Len(seqs)
<1>1. /\ more \in Seq(Seq(T)) /\ Len(more) = N + 1 /\ N \in Nat
      /\ \A i \in 1..N : more[i] = seqs[i]
      /\ more[N + 1] = s
    BY AppendProperties
<1>2. more # << >>
  <2>1. Len(<< >>) = 0 /\ N + 1 # 0
    BY <1>1, EmptySeq
  <2> HIDE DEF more, N
  <2> QED
    BY <1>1, <2>1
<1>3. PICK g : IsFlat(g, more) /\ FlattenSeq(more) = g[N + 1]
    BY <1>1, <1>2, FlattenIsFlat
<1> HIDE DEF more
<1>4. \A i \in 1..(N + 1) : g[i] = IF i = 1 THEN more[i] ELSE g[i - 1] \o more[i]
    BY <1>1, <1>3 DEF IsFlat
<1>5. CASE seqs = << >>
  <2>1. N = 0 /\ FlattenSeq(seqs) = << >>
    BY <1>5, EmptySeq DEF FlattenSeq
  <2>2. FlattenSeq(more) = s
    BY <1>1, <1>3, <1>4, <2>1
  <2> QED
    BY <2>1, <2>2, ConcatEmptySeq DEF more
<1>6. CASE seqs # << >>
  <2>1. PICK f : IsFlat(f, seqs) /\ FlattenSeq(seqs) = f[N]
    BY <1>6, FlattenIsFlat
  <2>2. N # 0
    BY <1>6, EmptySeq
  <2> HIDE DEF N
  <2>3. \A i \in 1..N : f[i] = IF i = 1 THEN seqs[i] ELSE f[i - 1] \o seqs[i]
    BY <2>1 DEF IsFlat, N
  <2> DEFINE M == {n \in Nat : n \in 1..N => f[n] = g[n]}
  <2>4. 0 \in M
    OBVIOUS
  <2>5. ASSUME NEW n \in Nat, n \in M
        PROVE  n + 1 \in M
    <3> SUFFICES ASSUME n + 1 \in 1..N
                 PROVE  f[n + 1] = g[n + 1]
      OBVIOUS
    <3>1. n + 1 \in 1..(N + 1) /\ (n + 1) - 1 = n /\ (n + 1 # 1 => n \in 1..N)
      BY <1>1
    <3>2. n + 1 # 1 => f[n] = g[n]
      BY <2>5, <3>1
    <3>3. more[n + 1] = seqs[n + 1]
      BY <1>1
    <3>4. f[n + 1] = IF n + 1 = 1 THEN seqs[n + 1] ELSE f[n] \o seqs[n + 1]
      BY <2>3, <3>1
    <3>5. g[n + 1] = IF n + 1 = 1 THEN more[n + 1] ELSE g[n] \o more[n + 1]
      BY <1>4, <3>1
    <3> QED
      BY <3>2, <3>3, <3>4, <3>5
  <2>6. N \in M
    <3> HIDE DEF M
    <3> QED
      BY <1>1, <2>4, <2>5, Induct
  <2>7. f[N] = g[N]
    BY <1>1, <2>2, <2>6
  <2>8. g[N + 1] = g[N] \o s
    <3>1. N + 1 \in 1..(N + 1) /\ N + 1 # 1 /\ (N + 1) - 1 = N
      BY <1>1, <2>2
    <3> QED
      BY <1>1, <1>4, <3>1
  <2> QED
    BY <1>3, <2>1, <2>7, <2>8 DEF more
<1> QED
    BY <1>5, <1>6

\* A group, and what it has to do with a plan.
LEMMA Groups ==
    ASSUME NEW p \in Phase
    PROVE  /\ PhaseToggleGroup(p) \in Seq(Phase)
           /\ Distinct(PhaseToggleGroup(p))
           /\ p \in ToSet(PhaseToggleGroup(p))
           /\ \A q \in ToSet(PhaseToggleGroup(p)) : PhaseToggleGroup(q) = PhaseToggleGroup(p)
<1>1. CASE p \in {"software_unpack", "software_cold", "software_warm"}
  <2> DEFINE g == <<"software_unpack", "software_cold", "software_warm">>
  <2>1. /\ g \in Seq(Phase) /\ Distinct(g)
        /\ ToSet(g) = {"software_unpack", "software_cold", "software_warm"}
    BY DEF Phase, Distinct, ToSet
  <2>2. \A q \in {"software_unpack", "software_cold", "software_warm"} :
            PhaseToggleGroup(q) = g
    BY DEF PhaseToggleGroup
  <2> QED
    BY <1>1, <2>1, <2>2
<1>2. CASE p \in {"create", "delete"}
  <2> DEFINE g == <<"create", "delete">>
  <2>1. /\ g \in Seq(Phase) /\ Distinct(g)
        /\ ToSet(g) = {"create", "delete"}
    BY DEF Phase, Distinct, ToSet
  <2>2. \A q \in {"create", "delete"} : PhaseToggleGroup(q) = g
    BY DEF PhaseToggleGroup
  <2> QED
    BY <1>2, <2>1, <2>2
<1>3. CASE p \notin {"software_unpack", "software_cold", "software_warm", "create", "delete"}
  <2>1. PhaseToggleGroup(p) = <<p>>
    BY <1>3 DEF PhaseToggleGroup
  <2>2. <<p>> \in Seq(Phase) /\ Distinct(<<p>>) /\ ToSet(<<p>>) = {p}
    BY DEF Distinct, ToSet
  <2> QED
    BY <2>1, <2>2
<1> QED
    BY <1>1, <1>2, <1>3

Expanded(s) == FlattenSeq([i \in DOMAIN s |-> PhaseToggleGroup(s[i])])
GroupOf(p) == ToSet(PhaseToggleGroup(p))
WithGroups(S) == {q \in Phase : \E p \in S : q \in GroupOf(p)}

\* The members of a group are all in S, or none is.
Whole(S) == \A p \in Phase : GroupOf(p) \subseteq S \/ GroupOf(p) \cap S = {}

LEMMA GroupMembers ==
    ASSUME NEW p \in Phase
    PROVE  /\ p \in GroupOf(p) /\ GroupOf(p) \subseteq Phase
           /\ \A q \in GroupOf(p) : GroupOf(q) = GroupOf(p)
<1>1. PhaseToggleGroup(p) \in Seq(Phase)
    BY Groups
<1>2. ToSet(PhaseToggleGroup(p)) \subseteq Phase
    BY <1>1 DEF ToSet
<1> QED
    BY <1>2, Groups DEF GroupOf

LEMMA ExpandedEmpty == Expanded(<< >>) = << >>
<1>1. [i \in DOMAIN << >> |-> PhaseToggleGroup(<< >>[i])] = << >>
    OBVIOUS
<1>2. Len(<< >>) = 0
    BY EmptySeq
<1> QED
    BY <1>1, <1>2 DEF Expanded, FlattenSeq

LEMMA ExpandedAppend ==
    ASSUME NEW s \in Seq(Phase), NEW p \in Phase
    PROVE  Expanded(Append(s, p)) = Expanded(s) \o PhaseToggleGroup(p)
<1> DEFINE N == Len(s)
           more == Append(s, p)
           g == [i \in DOMAIN s |-> PhaseToggleGroup(s[i])]
           h == [i \in DOMAIN more |-> PhaseToggleGroup(more[i])]
<1>1. /\ DOMAIN s = 1..N /\ N \in Nat
      /\ DOMAIN more = 1..(N + 1)
      /\ \A i \in 1..N : more[i] = s[i] /\ s[i] \in Phase
      /\ more[N + 1] = p
    BY AppendProperties, LenProperties, ElementOfSeq
<1> HIDE DEF more, N
<1>2. /\ g \in [1..N -> Seq(Phase)]
      /\ h = [i \in 1..(N + 1) |-> PhaseToggleGroup(more[i])]
    BY <1>1, Groups
<1>3. g \in Seq(Seq(Phase)) /\ Len(g) = N
    BY <1>1, <1>2
<1>4. PhaseToggleGroup(p) \in Seq(Phase)
    BY Groups
<1>5. h = Append(g, PhaseToggleGroup(p))
  <2> DEFINE e == PhaseToggleGroup(p)
  <2>1. /\ Append(g, e) \in Seq(Seq(Phase)) /\ DOMAIN Append(g, e) = 1..(N + 1)
        /\ \A i \in 1..N : Append(g, e)[i] = g[i]
        /\ Append(g, e)[N + 1] = e
    BY <1>1, <1>3, <1>4, AppendProperties, LenProperties
  <2> DEFINE z == Append(g, e)
  <2>2. z = [i \in 1..(N + 1) |-> z[i]]
    <3>1. z \in Seq(Seq(Phase)) /\ DOMAIN z = 1..(N + 1)
      BY <2>1
    <3> HIDE DEF z
    <3>2. z = [i \in DOMAIN z |-> z[i]]
      BY <3>1
    <3> QED
      BY <3>1, <3>2
  <2>3. ASSUME NEW i \in 1..(N + 1)
        PROVE  z[i] = PhaseToggleGroup(more[i])
    <3>1. CASE i \in 1..N
      <4>1. g[i] = PhaseToggleGroup(more[i])
        BY <1>1, <3>1
      <4> QED
        BY <2>1, <3>1, <4>1
    <3>2. CASE i \notin 1..N
      <4>1. i = N + 1
        BY <1>1, <3>2
      <4> QED
        BY <1>1, <2>1, <4>1
    <3> QED
      BY <3>1, <3>2
  <2> HIDE DEF z
  <2>4. z = [i \in 1..(N + 1) |-> PhaseToggleGroup(more[i])]
    BY <2>2, <2>3
  <2>5. z = h
    <3> HIDE DEF h
    <3> QED
      BY <1>2, <2>4
  <2> QED
    BY <2>5 DEF z
<1>6. FlattenSeq(h) = FlattenSeq(g) \o PhaseToggleGroup(p)
  <2> HIDE DEF g, h
  <2> QED
    BY <1>3, <1>4, <1>5, FlattenAppend
<1> QED
    BY <1>6 DEF Expanded, more

LEMMA ExpandedTells ==
    ASSUME NEW s \in Seq(Phase)
    PROVE  /\ Expanded(s) \in Seq(Phase)
           /\ ToSet(Expanded(s)) = WithGroups(ToSet(s))
<1> DEFINE P == {r \in Seq(Phase) : /\ Expanded(r) \in Seq(Phase)
                                    /\ ToSet(Expanded(r)) = WithGroups(ToSet(r))}
<1>1. << >> \in P
    BY ExpandedEmpty, EmptySeq, EmptyToSet DEF WithGroups
<1>2. ASSUME NEW r \in Seq(Phase), NEW p \in Phase, r \in P
      PROVE  Append(r, p) \in P
  <2>1. PhaseToggleGroup(p) \in Seq(Phase)
    BY Groups
  <2>2. /\ Expanded(Append(r, p)) \in Seq(Phase)
        /\ ToSet(Expanded(Append(r, p))) = WithGroups(ToSet(r)) \cup GroupOf(p)
    <3> DEFINE e == Expanded(r)
               g == PhaseToggleGroup(p)
    <3>1. e \in Seq(Phase) /\ ToSet(e) = WithGroups(ToSet(r))
      BY <1>2
    <3>2. Expanded(Append(r, p)) = e \o g
      BY ExpandedAppend
    <3>3. ToSet(g) = GroupOf(p)
      BY DEF GroupOf
    <3> HIDE DEF e, g
    <3> QED
      BY <2>1, <3>1, <3>2, <3>3, ConcatToSet DEF g
  <2>3. /\ Append(r, p) \in Seq(Phase)
        /\ ToSet(Append(r, p)) = ToSet(r) \cup {p}
    BY AppendToSet
  <2>4. WithGroups(ToSet(r) \cup {p}) = WithGroups(ToSet(r)) \cup GroupOf(p)
    BY GroupMembers DEF WithGroups
  <2> QED
    BY <2>2, <2>3, <2>4
<1> HIDE DEF P
<1>3. Seq(Phase) \subseteq P
    BY <1>1, <1>2, SeqInduct
<1> QED
    BY <1>3 DEF P

LEMMA PartsAssociate ==
    \A x, y, z \in Seq(Phase) : (x \o y) \o z = x \o (y \o z)
<1> TAKE x, y, z \in Seq(Phase)
<1> QED
    BY ConcatAssociative

LEMMA ExpandedConcat ==
    ASSUME NEW s \in Seq(Phase), NEW r \in Seq(Phase)
    PROVE  Expanded(s \o r) = Expanded(s) \o Expanded(r)
<1> DEFINE P == {q \in Seq(Phase) : Expanded(s \o q) = Expanded(s) \o Expanded(q)}
<1>0. Expanded(s) \in Seq(Phase)
    BY ExpandedTells
<1>1. << >> \in P
    BY <1>0, ExpandedEmpty, EmptySeq, ConcatEmptySeq
<1>2. ASSUME NEW q \in Seq(Phase), NEW p \in Phase, q \in P
      PROVE  Append(q, p) \in P
  <2> DEFINE g == PhaseToggleGroup(p)
  <2>1. /\ g \in Seq(Phase) /\ Expanded(q) \in Seq(Phase)
        /\ s \o q \in Seq(Phase) /\ Append(q, p) \in Seq(Phase)
    BY Groups, ExpandedTells, ConcatToSet, AppendToSet
  <2>2. s \o Append(q, p) = Append(s \o q, p)
    BY AppendConcat
  <2>3. Expanded(Append(s \o q, p)) = Expanded(s \o q) \o g
    BY <2>1, ExpandedAppend
  <2>4. Expanded(Append(q, p)) = Expanded(q) \o g
    BY ExpandedAppend
  <2>5. Expanded(s \o q) = Expanded(s) \o Expanded(q)
    BY <1>2
  <2> HIDE DEF g
  <2>6. (Expanded(s) \o Expanded(q)) \o g = Expanded(s) \o (Expanded(q) \o g)
    <3> DEFINE x == Expanded(s)
               y == Expanded(q)
    <3>1. x \in Seq(Phase) /\ y \in Seq(Phase) /\ g \in Seq(Phase)
      BY <1>0, <2>1
    <3> HIDE DEF x, y
    <3>2. (x \o y) \o g = x \o (y \o g)
      BY <3>1, PartsAssociate
    <3> QED
      BY <3>2 DEF x, y
  <2> QED
    BY <2>1, <2>2, <2>3, <2>4, <2>5, <2>6
<1> HIDE DEF P
<1>3. Seq(Phase) \subseteq P
    BY <1>1, <1>2, SeqInduct
<1> QED
    BY <1>3 DEF P

\* A group is in an expanded list as a whole.
LEMMA ExpandedWhole ==
    ASSUME NEW S \in SUBSET Phase
    PROVE  /\ S \subseteq WithGroups(S)
           /\ Whole(WithGroups(S))
           /\ WithGroups(WithGroups(S)) = WithGroups(S)
<1>1. S \subseteq WithGroups(S)
    BY GroupMembers DEF WithGroups
<1>2. ASSUME NEW p \in Phase, NEW q \in GroupOf(p), q \in WithGroups(S)
      PROVE  GroupOf(p) \subseteq WithGroups(S)
  <2>1. PICK r \in S : q \in GroupOf(r)
    BY <1>2 DEF WithGroups
  <2>2. GroupOf(p) = GroupOf(r)
    BY <1>2, <2>1, GroupMembers
  <2> QED
    BY <2>2, GroupMembers DEF WithGroups
<1>3. Whole(WithGroups(S))
    BY <1>2 DEF Whole
<1>4. ASSUME NEW q \in WithGroups(WithGroups(S))
      PROVE  q \in WithGroups(S)
  <2>1. PICK p \in WithGroups(S) : q \in GroupOf(p)
    BY DEF WithGroups
  <2>2. PICK r \in S : p \in GroupOf(r)
    BY DEF WithGroups
  <2>3. GroupOf(p) = GroupOf(r) /\ q \in Phase
    BY <2>2, GroupMembers DEF WithGroups
  <2> QED
    BY <2>1, <2>2, <2>3 DEF WithGroups
<1>5. WithGroups(S) \subseteq WithGroups(WithGroups(S))
    BY GroupMembers DEF WithGroups
<1> QED
    BY <1>1, <1>3, <1>4, <1>5

-----------------------------------------------------------------------------
(***************************************************************************)
(* The plan of a configuration.                                            *)
(***************************************************************************)

SoftwarePhases == <<"software_unpack", "software_cold", "software_warm">>

InPlanOf(c) ==
    (IF c.software THEN {"software_unpack", "software_cold", "software_warm"} ELSE {})
    \cup (IF c.git THEN {"git_clone"} ELSE {})
    \cup (IF c.untar THEN {"untar"} ELSE {})
    \cup {"create", "delete", "write_bw", "read_bw", "read_write", "riops", "final_delete"}

LEMMA PartsOfPlans ==
    /\ SoftwarePhases \in Seq(Phase) /\ Distinct(SoftwarePhases)
    /\ ToSet(SoftwarePhases) = {"software_unpack", "software_cold", "software_warm"}
    /\ \A p \in Phase : <<p>> \in Seq(Phase) /\ Distinct(<<p>>) /\ ToSet(<<p>>) = {p}
    /\ PhaseOrder \in Seq(Phase) /\ Distinct(PhaseOrder)
    /\ ToSet(PhaseOrder) = {"create", "delete", "write_bw", "read_bw", "read_write",
                            "riops", "final_delete"}
<1>1. /\ SoftwarePhases \in Seq(Phase) /\ Distinct(SoftwarePhases)
      /\ ToSet(SoftwarePhases) = {"software_unpack", "software_cold", "software_warm"}
    BY DEF SoftwarePhases, Phase, Distinct, ToSet
<1>2. \A p \in Phase : <<p>> \in Seq(Phase) /\ Distinct(<<p>>) /\ ToSet(<<p>>) = {p}
    BY DEF Distinct, ToSet
<1>3. PhaseOrder \in Seq(Phase)
    BY DEF PhaseOrder, Phase
<1>4. DOMAIN PhaseOrder = 1..7
    BY DEF PhaseOrder
<1>5. Distinct(PhaseOrder)
    BY <1>4 DEF PhaseOrder, Distinct
<1>6. ToSet(PhaseOrder) = {"create", "delete", "write_bw", "read_bw", "read_write",
                           "riops", "final_delete"}
    BY <1>4 DEF PhaseOrder, ToSet
<1> QED
    BY <1>1, <1>2, <1>3, <1>5, <1>6

\* A part of the plan that the configuration may leave out.
LEMMA Optional ==
    ASSUME NEW b \in BOOLEAN, NEW s \in Seq(Phase), Distinct(s)
    PROVE  /\ If(b, s) \in Seq(Phase) /\ Distinct(If(b, s))
           /\ ToSet(If(b, s)) = IF b THEN ToSet(s) ELSE {}
<1>1. CASE b
    BY <1>1 DEF If
<1>2. CASE ~b
  <2>1. << >> \in Seq(Phase) /\ Distinct(<< >>) /\ ToSet(<< >>) = {}
    BY EmptyToSet DEF Distinct
  <2> QED
    BY <1>2, <2>1 DEF If
<1> QED
    BY <1>1, <1>2

LEMMA PlanTells ==
    ASSUME NEW c \in Config
    PROVE  /\ EffectivePhaseOrder(c) \in Seq(Phase)
           /\ Distinct(EffectivePhaseOrder(c))
           /\ ToSet(EffectivePhaseOrder(c)) = InPlanOf(c)
<1> DEFINE s == If(c.software, SoftwarePhases)
           g == If(c.git, <<"git_clone">>)
           u == If(c.untar, <<"untar">>)
<1>1. c.software \in BOOLEAN /\ c.git \in BOOLEAN /\ c.untar \in BOOLEAN
    BY DEF Config
<1>2. "git_clone" \in Phase /\ "untar" \in Phase
    BY DEF Phase
<1>3. /\ s \in Seq(Phase) /\ Distinct(s)
      /\ ToSet(s) = IF c.software THEN {"software_unpack", "software_cold", "software_warm"}
                                  ELSE {}
    BY <1>1, Optional, PartsOfPlans
<1>4. /\ g \in Seq(Phase) /\ Distinct(g)
      /\ ToSet(g) = IF c.git THEN {"git_clone"} ELSE {}
    BY <1>1, <1>2, Optional, PartsOfPlans
<1>5. /\ u \in Seq(Phase) /\ Distinct(u)
      /\ ToSet(u) = IF c.untar THEN {"untar"} ELSE {}
    BY <1>1, <1>2, Optional, PartsOfPlans
<1>6. EffectivePhaseOrder(c) = ((s \o g) \o u) \o PhaseOrder
    BY DEF EffectivePhaseOrder, SoftwareEnabled, GitCloneEnabled, UntarEnabled,
           SoftwarePhases
<1> HIDE DEF s, g, u
<1>7. /\ s \o g \in Seq(Phase) /\ Distinct(s \o g)
      /\ ToSet(s \o g) = ToSet(s) \cup ToSet(g)
    BY <1>3, <1>4, ConcatDistinct
<1>8. /\ (s \o g) \o u \in Seq(Phase) /\ Distinct((s \o g) \o u)
      /\ ToSet((s \o g) \o u) = ToSet(s) \cup ToSet(g) \cup ToSet(u)
  <2>1. ToSet(s \o g) \cap ToSet(u) = {}
    BY <1>3, <1>4, <1>5, <1>7
  <2> DEFINE a == s \o g
  <2>2. a \in Seq(Phase) /\ Distinct(a) /\ ToSet(a) \cap ToSet(u) = {}
    BY <1>7, <2>1
  <2> HIDE DEF a
  <2>3. a \o u \in Seq(Phase) /\ Distinct(a \o u) /\ ToSet(a \o u) = ToSet(a) \cup ToSet(u)
    BY <1>5, <2>2, ConcatDistinct
  <2> QED
    BY <1>7, <2>3 DEF a
<1>9. ToSet((s \o g) \o u) \cap ToSet(PhaseOrder) = {}
    BY <1>3, <1>4, <1>5, <1>8, PartsOfPlans
<1>10. /\ EffectivePhaseOrder(c) \in Seq(Phase)
       /\ Distinct(EffectivePhaseOrder(c))
       /\ ToSet(EffectivePhaseOrder(c)) =
              ToSet(s) \cup ToSet(g) \cup ToSet(u) \cup ToSet(PhaseOrder)
  <2> DEFINE a == (s \o g) \o u
  <2>1. a \in Seq(Phase) /\ Distinct(a) /\ ToSet(a) \cap ToSet(PhaseOrder) = {}
    BY <1>8, <1>9
  <2> HIDE DEF a
  <2>2. /\ a \o PhaseOrder \in Seq(Phase) /\ Distinct(a \o PhaseOrder)
        /\ ToSet(a \o PhaseOrder) = ToSet(a) \cup ToSet(PhaseOrder)
    BY <2>1, PartsOfPlans, ConcatDistinct
  <2> QED
    BY <1>6, <1>8, <2>2 DEF a
<1>11. ToSet(s) \cup ToSet(g) \cup ToSet(u) \cup ToSet(PhaseOrder) = InPlanOf(c)
    BY <1>3, <1>4, <1>5, PartsOfPlans DEF InPlanOf
<1> QED
    BY <1>10, <1>11

LEMMA GroupIs ==
    ASSUME NEW p \in Phase
    PROVE  GroupOf(p) =
               IF p \in {"software_unpack", "software_cold", "software_warm"}
               THEN {"software_unpack", "software_cold", "software_warm"}
               ELSE IF p \in {"create", "delete"} THEN {"create", "delete"} ELSE {p}
<1>1. CASE p \in {"software_unpack", "software_cold", "software_warm"}
  <2>1. PhaseToggleGroup(p) = SoftwarePhases
    BY <1>1 DEF PhaseToggleGroup, SoftwarePhases
  <2> QED
    BY <1>1, <2>1, PartsOfPlans DEF GroupOf
<1>2. CASE p \in {"create", "delete"}
  <2>1. PhaseToggleGroup(p) = <<"create", "delete">>
    BY <1>2 DEF PhaseToggleGroup
  <2>2. ToSet(<<"create", "delete">>) = {"create", "delete"}
    BY DEF ToSet
  <2> QED
    BY <1>2, <2>1, <2>2 DEF GroupOf
<1>3. CASE p \notin {"software_unpack", "software_cold", "software_warm", "create", "delete"}
  <2>1. PhaseToggleGroup(p) = <<p>>
    BY <1>3 DEF PhaseToggleGroup
  <2>2. ToSet(<<p>>) = {p}
    BY PartsOfPlans
  <2> QED
    BY <1>3, <2>1, <2>2 DEF GroupOf
<1> QED
    BY <1>1, <1>2, <1>3

LEMMA PlanIsWhole ==
    ASSUME NEW c \in Config
    PROVE  Whole(ToSet(EffectivePhaseOrder(c)))
<1> SUFFICES ASSUME NEW p \in Phase
             PROVE  GroupOf(p) \subseteq InPlanOf(c) \/ GroupOf(p) \cap InPlanOf(c) = {}
    BY PlanTells DEF Whole
<1> QED
    BY GroupIs DEF InPlanOf, Phase

-----------------------------------------------------------------------------
(***************************************************************************)
(* What is stored as disabled.                                             *)
(***************************************************************************)

Norm(s, P) == Collect(Expanded(s), P)

LEMMA NormalizedIs ==
    ASSUME NEW c \in Config
    PROVE  /\ NormalizeDisabledPhases(c) = Norm(c.disabled, ToSet(EffectivePhaseOrder(c)))
           /\ c.disabled \in Seq(Phase)
    BY DEF NormalizeDisabledPhases, Norm, Expanded, Config

LEMMA NormAppend ==
    ASSUME NEW s \in Seq(Phase), NEW p \in Phase, NEW P \in SUBSET Phase, Whole(P)
    PROVE  IF GroupOf(p) \subseteq P \ ToSet(Expanded(s))
           THEN Norm(Append(s, p), P) = Norm(s, P) \o PhaseToggleGroup(p)
           ELSE Norm(Append(s, p), P) = Norm(s, P)
<1> DEFINE e == Expanded(s)
           g == PhaseToggleGroup(p)
           R == P \ ToSet(e)
<1>1. e \in Seq(Phase) /\ ToSet(e) = WithGroups(ToSet(s)) /\ g \in Seq(Phase)
    BY ExpandedTells, Groups
<1>2. ToSet(s) \in SUBSET Phase
    BY DEF ToSet
<1>3. Whole(ToSet(e))
    BY <1>1, <1>2, ExpandedWhole
<1>4. Norm(Append(s, p), P) = Norm(s, P) \o Collect(g, R)
  <2> HIDE DEF e, g
  <2>1. Collect(e \o g, P) = Collect(e, P) \o Collect(g, P \ ToSet(e))
    <3>1. e \in Seq(Phase) /\ g \in Seq(Phase)
      BY <1>1
    <3> QED
      BY <3>1, CollectConcat
  <2>2. Expanded(Append(s, p)) = e \o g
    BY ExpandedAppend DEF e, g
  <2> QED
    BY <2>1, <2>2 DEF Norm, e
<1>5. GroupOf(p) \subseteq R \/ GroupOf(p) \cap R = {}
    BY <1>3 DEF Whole
<1>6. ToSet(g) = GroupOf(p) /\ Distinct(g)
    BY Groups DEF GroupOf
<1>7. Norm(s, P) \in Seq(Phase)
    BY <1>1, CollectTells DEF Norm
<1>8. GroupOf(p) # {}
    BY GroupMembers
<1> HIDE DEF e, g, R
<1>9. CASE GroupOf(p) \subseteq R
  <2>1. Collect(g, R) = g
    BY <1>1, <1>6, <1>9, CollectAll
  <2> QED
    BY <1>4, <1>9, <2>1 DEF R, e, g
<1>10. CASE GroupOf(p) \cap R = {}
  <2>1. Collect(g, R) = << >>
    BY <1>1, <1>6, <1>10, CollectNone
  <2>2. Norm(s, P) \o << >> = Norm(s, P)
    BY <1>7, ConcatEmptySeq
  <2>3. ~(GroupOf(p) \subseteq R)
    BY <1>8, <1>10
  <2> QED
    BY <1>4, <2>1, <2>2, <2>3 DEF R, e
<1> QED
    BY <1>5, <1>9, <1>10

\* The list has no phase twice, has only phases of the plan, and whole groups.
LEMMA NormTells ==
    ASSUME NEW s \in Seq(Phase), NEW P \in SUBSET Phase, Whole(P)
    PROVE  /\ Norm(s, P) \in Seq(Phase)
           /\ Distinct(Norm(s, P))
           /\ ToSet(Norm(s, P)) = WithGroups(ToSet(s)) \cap P
           /\ Whole(ToSet(Norm(s, P)))
<1>1. Expanded(s) \in Seq(Phase) /\ ToSet(Expanded(s)) = WithGroups(ToSet(s))
    BY ExpandedTells
<1>2. /\ Norm(s, P) \in Seq(Phase)
      /\ Distinct(Norm(s, P))
      /\ ToSet(Norm(s, P)) = WithGroups(ToSet(s)) \cap P
    BY <1>1, CollectTells DEF Norm
<1>3. Whole(WithGroups(ToSet(s)))
  <2>1. ToSet(s) \in SUBSET Phase
    BY DEF ToSet
  <2> QED
    BY <2>1, ExpandedWhole
<1>4. Whole(WithGroups(ToSet(s)) \cap P)
    BY <1>3 DEF Whole
<1> QED
    BY <1>2, <1>4

\* The members of one group, listed again, are that group.
LEMMA GroupAlone ==
    ASSUME NEW p \in Phase, NEW R \in SUBSET Phase, GroupOf(p) \subseteq R
    PROVE  Norm(PhaseToggleGroup(p), R) = PhaseToggleGroup(p)
<1> DEFINE g == PhaseToggleGroup(p)
           P == {r \in Seq(Phase) : /\ r # << >> /\ ToSet(r) \subseteq GroupOf(p)
                                    => Norm(r, R) = g /\ ToSet(Expanded(r)) = GroupOf(p)}
<1>1. /\ g \in Seq(Phase) /\ Distinct(g) /\ ToSet(g) = GroupOf(p)
      /\ \A q \in GroupOf(p) : q \in Phase /\ PhaseToggleGroup(q) = g
    BY Groups, GroupMembers DEF GroupOf
<1>2. << >> \in P
    BY EmptySeq
<1>3. ASSUME NEW r \in Seq(Phase), NEW x \in Phase, r \in P
      PROVE  Append(r, x) \in P
  <2>1. Append(r, x) \in Seq(Phase) /\ ToSet(Append(r, x)) = ToSet(r) \cup {x}
    BY AppendToSet
  <2> SUFFICES ASSUME ToSet(r) \subseteq GroupOf(p), x \in GroupOf(p)
               PROVE  Norm(Append(r, x), R) = g /\ ToSet(Expanded(Append(r, x))) = GroupOf(p)
    BY <2>1
  <2>2. /\ Expanded(r) \in Seq(Phase)
        /\ Expanded(Append(r, x)) = Expanded(r) \o g
    BY <1>1, ExpandedTells, ExpandedAppend
  <2> HIDE DEF g
  <2>3. Norm(Append(r, x), R) = Norm(r, R) \o Collect(g, R \ ToSet(Expanded(r)))
    <3> DEFINE e == Expanded(r)
    <3>1. e \in Seq(Phase) /\ g \in Seq(Phase)
      BY <1>1, <2>2
    <3>2. Expanded(Append(r, x)) = e \o g
      BY <2>2
    <3> HIDE DEF e
    <3>3. Collect(e \o g, R) = Collect(e, R) \o Collect(g, R \ ToSet(e))
      BY <3>1, CollectConcat
    <3> QED
      BY <3>2, <3>3 DEF Norm, e
  <2>4. ToSet(Expanded(Append(r, x))) = ToSet(Expanded(r)) \cup GroupOf(p)
    BY <1>1, <2>2, ConcatToSet
  <2>5. CASE r = << >>
    <3>1. Expanded(r) = << >> /\ ToSet(Expanded(r)) = {} /\ Norm(r, R) = << >>
      BY <2>5, ExpandedEmpty, EmptyToSet, CollectEmpty DEF Norm
    <3>2. R \ ToSet(Expanded(r)) = R
      BY <3>1
    <3>3. Collect(g, R) = g
      BY <1>1, CollectAll
    <3> QED
      BY <1>1, <2>3, <2>4, <3>1, <3>2, <3>3, ConcatEmptySeq
  <2>6. CASE r # << >>
    <3>1. Norm(r, R) = g /\ ToSet(Expanded(r)) = GroupOf(p)
      BY <1>3, <2>6
    <3>2. Collect(g, R \ ToSet(Expanded(r))) = << >>
      <4>1. ToSet(g) \cap (R \ ToSet(Expanded(r))) = {}
        BY <1>1, <3>1
      <4> QED
        BY <1>1, <4>1, CollectNone
    <3> QED
      BY <1>1, <2>3, <2>4, <3>1, <3>2, ConcatEmptySeq
  <2> QED
    BY <2>5, <2>6
<1> HIDE DEF P
<1>4. Seq(Phase) \subseteq P
    BY <1>2, <1>3, SeqInduct
<1>5. g # << >>
    BY <1>1, GroupMembers, EmptyToSet
<1> QED
    BY <1>1, <1>4, <1>5 DEF P

\* Normalizing what is normalized changes nothing, not even the order.
LEMMA NormTwice ==
    ASSUME NEW s \in Seq(Phase), NEW P \in SUBSET Phase, Whole(P)
    PROVE  Norm(Norm(s, P), P) = Norm(s, P)
<1> DEFINE F == {r \in Seq(Phase) : Norm(Norm(r, P), P) = Norm(r, P)}
<1>1. << >> \in F
    BY ExpandedEmpty, CollectEmpty, EmptySeq DEF Norm
<1>2. ASSUME NEW r \in Seq(Phase), NEW p \in Phase, r \in F
      PROVE  Append(r, p) \in F
  <2> DEFINE t == Norm(r, P)
             g == PhaseToggleGroup(p)
  <2>1. Append(r, p) \in Seq(Phase)
    BY AppendToSet
  <2>2. t \in Seq(Phase) /\ ToSet(t) = WithGroups(ToSet(r)) \cap P
    BY NormTells
  <2>3. Norm(t, P) = t
    BY <1>2
  <2>4. g \in Seq(Phase) /\ ToSet(g) = GroupOf(p)
    BY Groups DEF GroupOf
  <2>5. CASE GroupOf(p) \subseteq P \ ToSet(Expanded(r))
    <3> DEFINE e == Expanded(t)
               R == P \ ToSet(e)
    <3>1. Norm(Append(r, p), P) = t \o g
      BY <2>5, NormAppend
    <3>2. e \in Seq(Phase) /\ Expanded(g) \in Seq(Phase)
      BY <2>2, <2>4, ExpandedTells
    <3>3. Norm(t \o g, P) = Norm(t, P) \o Collect(Expanded(g), R)
      <4>1. Expanded(t \o g) = e \o Expanded(g)
        BY <2>2, <2>4, ExpandedConcat
      <4> HIDE DEF e, t, g
      <4>2. Collect(e \o Expanded(g), P) = Collect(e, P) \o Collect(Expanded(g), R)
        BY <3>2, CollectConcat
      <4> QED
        BY <4>1, <4>2 DEF Norm, e
    <3>4. GroupOf(p) \subseteq R
      <4>1. ToSet(r) \in SUBSET Phase
        BY DEF ToSet
      <4>2. WithGroups(ToSet(t)) \subseteq WithGroups(ToSet(r))
        <5>1. WithGroups(ToSet(t)) \subseteq WithGroups(WithGroups(ToSet(r)))
          BY <2>2 DEF WithGroups
        <5> QED
          BY <4>1, <5>1, ExpandedWhole
      <4>3. ToSet(e) \subseteq ToSet(Expanded(r))
        BY <2>2, <4>2, ExpandedTells
      <4> QED
        BY <2>5, <4>3
    <3>5. Norm(g, R) = g
      BY <3>4, GroupAlone
    <3> HIDE DEF R, t, g
    <3> QED
      BY <2>1, <2>3, <3>1, <3>3, <3>5 DEF Norm
  <2>6. CASE ~(GroupOf(p) \subseteq P \ ToSet(Expanded(r)))
    <3>1. Norm(Append(r, p), P) = t
      BY <2>6, NormAppend
    <3> QED
      BY <2>1, <2>3, <3>1
  <2> QED
    BY <2>5, <2>6
<1> HIDE DEF F
<1>3. Seq(Phase) \subseteq F
    BY <1>1, <1>2, SeqInduct
<1> QED
    BY <1>3 DEF F

-----------------------------------------------------------------------------
(***************************************************************************)
(* The steps of a run, one phase of the plan at a time.                    *)
(***************************************************************************)

\* The list the stored configuration keeps (DisabledListWellFormed).
WellFormed(c) ==
    /\ Distinct(c.disabled)
    /\ ToSet(c.disabled) \subseteq ToSet(EffectivePhaseOrder(c))
    /\ \A p \in ToSet(c.disabled) :
           GroupOf(p) \cap ToSet(EffectivePhaseOrder(c)) \subseteq ToSet(c.disabled)

LEMMA ContainsIs ==
    ASSUME NEW T, NEW s \in Seq(T), NEW x
    PROVE  Contains(s, x) <=> x \in ToSet(s)
    BY DEF Contains, ToSet

\* Of a list that is well formed, normalizing keeps all.
LEMMA DisabledStay ==
    ASSUME NEW c \in Config, WellFormed(c)
    PROVE  ToSet(NormalizeDisabledPhases(c)) = ToSet(c.disabled)
<1> DEFINE P == ToSet(EffectivePhaseOrder(c))
           D == ToSet(c.disabled)
<1>1. c.disabled \in Seq(Phase) /\ NormalizeDisabledPhases(c) = Norm(c.disabled, P)
    BY NormalizedIs
<1>2. P \in SUBSET Phase /\ Whole(P) /\ D \subseteq Phase
  <2>1. P \in SUBSET Phase
    BY PlanTells DEF ToSet
  <2>2. D \subseteq Phase
    BY <1>1 DEF ToSet
  <2> QED
    BY <2>1, <2>2, PlanIsWhole
<1>3. ToSet(Norm(c.disabled, P)) = WithGroups(D) \cap P
    BY <1>1, <1>2, NormTells
<1>4. D \subseteq P /\ \A p \in D : GroupOf(p) \cap P \subseteq D
    BY DEF WellFormed
<1> HIDE DEF P, D
<1>5. WithGroups(D) \cap P = D
  <2>1. D \subseteq WithGroups(D)
    BY <1>2, ExpandedWhole
  <2>2. WithGroups(D) \cap P \subseteq D
    BY <1>2, <1>4 DEF WithGroups
  <2> QED
    BY <1>4, <2>1, <2>2
<1> QED
    BY <1>1, <1>3, <1>5 DEF D

LEMMA ActiveIs ==
    ASSUME NEW c \in Config, WellFormed(c)
    PROVE  ActivePhaseOrder(c) = Collect(EffectivePhaseOrder(c), Phase \ ToSet(c.disabled))
<1> DEFINE n == NormalizeDisabledPhases(c)
           enabled == {p \in Phase : ~PhaseDisabled(Normalized(c), p)}
<1>1. n \in Seq(Phase)
  <2>1. ToSet(EffectivePhaseOrder(c)) \in SUBSET Phase
    BY PlanTells DEF ToSet
  <2> QED
    BY <2>1, NormalizedIs, NormTells, PlanIsWhole
<1>2. Normalized(c).disabled = n
    BY DEF Normalized, Config
<1>3. \A p \in Phase : PhaseDisabled(Normalized(c), p) <=> p \in ToSet(n)
    BY <1>1, <1>2, ContainsIs DEF PhaseDisabled
<1>4. enabled = Phase \ ToSet(c.disabled)
  <2> HIDE DEF n
  <2> QED
    BY <1>3, DisabledStay DEF n
<1>5. ActivePhaseOrder(c) = Collect(EffectivePhaseOrder(c), enabled)
    BY DEF ActivePhaseOrder
<1> QED
    BY <1>4, <1>5

LEMMA SelectedIs ==
    ASSUME NEW c \in Config, NEW p \in Phase
    PROVE  PhaseSelected(c, p) <=> p \in InPlanOf(c) /\ p \in Phase \ ToSet(c.disabled)
<1>1. c.disabled \in Seq(Phase)
    BY DEF Config
<1>2. EffectivePhaseOrder(c) \in Seq(Phase) /\ ToSet(EffectivePhaseOrder(c)) = InPlanOf(c)
    BY PlanTells
<1>3. Contains(EffectivePhaseOrder(c), p) <=> p \in InPlanOf(c)
    BY <1>2, ContainsIs
<1>4. Contains(c.disabled, p) <=> p \in ToSet(c.disabled)
    BY <1>1, ContainsIs
<1> QED
    BY <1>3, <1>4 DEF PhaseSelected, PhaseDisabled

PhasesOf(steps) == [i \in DOMAIN steps |-> steps[i].phase]

LEMMA PhasesAre ==
    ASSUME NEW s \in Seq(Step)
    PROVE  PhasesOf(s) \in Seq(Phase) /\ Len(PhasesOf(s)) = Len(s)
<1>1. \A i \in 1..Len(s) : s[i].phase \in Phase
  <2>1. \A i \in 1..Len(s) : s[i] \in Step
    BY ElementOfSeq
  <2> QED
    BY <2>1 DEF Step
<1>2. DOMAIN s = 1..Len(s) /\ Len(s) \in Nat
    BY LenProperties
<1>3. PhasesOf(s) \in [1..Len(s) -> Phase]
    BY <1>1, <1>2 DEF PhasesOf
<1> QED
    BY <1>2, <1>3

LEMMA PhasesConcat ==
    ASSUME NEW s \in Seq(Step), NEW r \in Seq(Step)
    PROVE  /\ s \o r \in Seq(Step)
           /\ PhasesOf(s \o r) = PhasesOf(s) \o PhasesOf(r)
<1> DEFINE a == PhasesOf(s)
           b == PhasesOf(r)
           z == PhasesOf(s \o r)
<1>1. /\ s \o r \in Seq(Step) /\ Len(s \o r) = Len(s) + Len(r)
      /\ \A i \in 1..Len(s) + Len(r) :
             (s \o r)[i] = IF i <= Len(s) THEN s[i] ELSE r[i - Len(s)]
    BY ConcatProperties
<1>2. /\ a \in Seq(Phase) /\ Len(a) = Len(s) /\ \A i \in 1..Len(s) : a[i] = s[i].phase
      /\ b \in Seq(Phase) /\ Len(b) = Len(r) /\ \A i \in 1..Len(r) : b[i] = r[i].phase
    BY PhasesAre, LenProperties DEF PhasesOf
<1>3. /\ z \in Seq(Phase) /\ Len(z) = Len(s) + Len(r)
      /\ \A i \in 1..Len(s) + Len(r) : z[i] = (s \o r)[i].phase
    BY <1>1, PhasesAre, LenProperties DEF PhasesOf
<1> HIDE DEF a, b, z
<1>4. /\ a \o b \in Seq(Phase) /\ Len(a \o b) = Len(s) + Len(r)
      /\ \A i \in 1..Len(s) + Len(r) :
             (a \o b)[i] = IF i <= Len(s) THEN a[i] ELSE b[i - Len(s)]
  <2>1. /\ a \o b \in Seq(Phase) /\ Len(a \o b) = Len(a) + Len(b)
        /\ \A i \in 1..Len(a) + Len(b) :
               (a \o b)[i] = IF i <= Len(a) THEN a[i] ELSE b[i - Len(a)]
    <3>1. a \in Seq(Phase) /\ b \in Seq(Phase)
      BY <1>2
    <3> QED
      BY <3>1, ConcatProperties
  <2>2. Len(a) = Len(s) /\ Len(b) = Len(r)
    BY <1>2
  <2> QED
    BY <2>1, <2>2
<1>5. Len(s) \in Nat /\ Len(r) \in Nat
    BY LenProperties
<1>6. ASSUME NEW i \in 1..Len(s) + Len(r)
      PROVE  z[i] = (a \o b)[i]
  <2>1. CASE i <= Len(s)
    <3>1. i \in 1..Len(s)
      BY <1>5, <2>1
    <3> QED
      BY <1>1, <1>2, <1>3, <1>4, <2>1, <3>1
  <2>2. CASE ~(i <= Len(s))
    <3>1. i - Len(s) \in 1..Len(r)
      BY <1>5, <2>2
    <3> QED
      BY <1>1, <1>2, <1>3, <1>4, <2>2, <3>1
  <2> QED
    BY <2>1, <2>2
<1>7. z = a \o b
    BY <1>3, <1>4, <1>6, SeqEqual
<1> QED
    BY <1>1, <1>7 DEF a, b, z

\* The steps r go through the enabled phases of the part h of the plan.
Follows(r, h, E) ==
    /\ r \in Seq(Step) /\ h \in Seq(Phase)
    /\ ToSet(PhasesOf(r)) \subseteq ToSet(h)
    /\ PhasesOfSteps(r) = Collect(h, E)

LEMMA FollowsOn ==
    ASSUME NEW r, NEW h, NEW x, NEW g, NEW E, Follows(r, h, E), Follows(x, g, E),
           ToSet(h) \cap ToSet(g) = {}
    PROVE  Follows(r \o x, h \o g, E)
<1> DEFINE a == PhasesOf(r)
           b == PhasesOf(x)
<1>1. /\ r \in Seq(Step) /\ x \in Seq(Step) /\ h \in Seq(Phase) /\ g \in Seq(Phase)
      /\ ToSet(a) \subseteq ToSet(h) /\ ToSet(b) \subseteq ToSet(g)
      /\ Collect(a, Phase) = Collect(h, E) /\ Collect(b, Phase) = Collect(g, E)
    BY DEF Follows, PhasesOfSteps, PhasesOf
<1>2. a \in Seq(Phase) /\ b \in Seq(Phase)
    BY <1>1, PhasesAre
<1>3. r \o x \in Seq(Step) /\ PhasesOf(r \o x) = a \o b
    BY <1>1, PhasesConcat
<1>4. PhasesOfSteps(r \o x) = Collect(PhasesOf(r \o x), Phase)
    BY DEF PhasesOfSteps, PhasesOf
<1> HIDE DEF a, b
<1>5. Collect(a \o b, Phase) = Collect(a, Phase) \o Collect(b, Phase)
  <2>1. Collect(a \o b, Phase) = Collect(a, Phase) \o Collect(b, Phase \ ToSet(a))
    BY <1>2, CollectConcat
  <2>2. ToSet(b) \cap (Phase \ ToSet(a)) = ToSet(b) \cap Phase
    BY <1>1
  <2>3. Collect(b, Phase \ ToSet(a)) = Collect(b, Phase)
    BY <1>2, <2>2, CollectSame
  <2> QED
    BY <2>1, <2>3
<1>6. Collect(h \o g, E) = Collect(h, E) \o Collect(g, E)
  <2>1. Collect(h \o g, E) = Collect(h, E) \o Collect(g, E \ ToSet(h))
    <3>1. h \in Seq(Phase) /\ g \in Seq(Phase)
      BY <1>1
    <3> QED
      BY <3>1, CollectConcat
  <2>2. ToSet(g) \cap (E \ ToSet(h)) = ToSet(g) \cap E
    OBVIOUS
  <2>3. Collect(g, E \ ToSet(h)) = Collect(g, E)
    BY <1>1, <2>2, CollectSame
  <2> QED
    BY <2>1, <2>3
<1>7. ToSet(a \o b) \subseteq ToSet(h \o g) /\ h \o g \in Seq(Phase)
    BY <1>1, <1>2, ConcatToSet
<1> QED
    BY <1>1, <1>3, <1>4, <1>5, <1>6, <1>7 DEF Follows

\* Steps that are all of phase p.
AllOf(x, p) == x \in Seq(Step) /\ ToSet(PhasesOf(x)) = {p}

LEMMA AllOfConcat ==
    ASSUME NEW x, NEW y, NEW p, AllOf(x, p), AllOf(y, p)
    PROVE  AllOf(x \o y, p)
<1>1. x \o y \in Seq(Step) /\ PhasesOf(x \o y) = PhasesOf(x) \o PhasesOf(y)
    BY PhasesConcat DEF AllOf
<1>2. PhasesOf(x) \in Seq(Phase) /\ PhasesOf(y) \in Seq(Phase)
    BY PhasesAre DEF AllOf
<1>3. ToSet(PhasesOf(x) \o PhasesOf(y)) = {p}
    BY <1>2, ConcatToSet DEF AllOf
<1> QED
    BY <1>1, <1>3 DEF AllOf

LEMMA StepsAreOf ==
    ASSUME NEW p \in Phase
    PROVE  /\ \A kind \in StepKind : AllOf(A(p, kind), p)
           /\ AllOf(runRamp(p, Ramp), p)
           /\ AllOf(sendAndWait(p), p)
           /\ AllOf(runSoftwarePhase(p), p)
<1>1. ASSUME NEW kind \in StepKind
      PROVE  AllOf(A(p, kind), p)
  <2> DEFINE e == [phase |-> p, kind |-> kind]
  <2>1. e \in Step /\ e.phase = p
    BY DEF Step
  <2> HIDE DEF e
  <2>2. <<e>> \in Seq(Step) /\ PhasesOf(<<e>>) = <<p>>
    BY <2>1 DEF PhasesOf
  <2>3. ToSet(<<p>>) = {p}
    BY PartsOfPlans
  <2> QED
    BY <2>2, <2>3 DEF AllOf, A, e
<1>2. AllOf(runRamp(p, Ramp), p)
  <2> DEFINE e == [phase |-> p, kind |-> "timed"]
             x == [i \in 1..Ramp |-> e]
  <2>1. e \in Step /\ e.phase = p
    BY DEF Step, StepKind
  <2>2. Ramp \in Nat /\ 1 \in 1..Ramp
    BY ConfigAssumption
  <2>3. runRamp(p, Ramp) = x
    BY DEF runRamp
  <2> HIDE DEF e
  <2>4. x \in Seq(Step)
    BY <2>1, <2>2
  <2>5. PhasesOf(x) = [i \in 1..Ramp |-> p]
    BY <2>1 DEF PhasesOf
  <2>6. ToSet([i \in 1..Ramp |-> p]) = {p}
    BY <2>2 DEF ToSet
  <2> QED
    BY <2>3, <2>4, <2>5, <2>6 DEF AllOf
<1> QED
    BY <1>1, <1>2 DEF sendAndWait, runSoftwarePhase, StepKind

\* A phase is entered if it is enabled, whatever the number of its steps.
LEMMA PhaseFollows ==
    ASSUME NEW p \in Phase, NEW x, AllOf(x, p), NEW E \in SUBSET Phase
    PROVE  Follows(If(p \in E, x), <<p>>, E)
<1>1. <<p>> \in Seq(Phase) /\ Distinct(<<p>>) /\ ToSet(<<p>>) = {p}
    BY PartsOfPlans
<1>2. PhasesOf(<< >>) = << >> /\ << >> \in Seq(Step)
    BY DEF PhasesOf
<1>3. CASE p \in E
  <2> DEFINE a == PhasesOf(x)
             z == Collect(a, Phase)
  <2>1. a \in Seq(Phase) /\ ToSet(a) = {p} /\ x \in Seq(Step)
    BY PhasesAre DEF AllOf
  <2>2. z \in Seq(Phase) /\ ToSet(z) = {p} /\ Distinct(z)
    BY <2>1, CollectTells
  <2>3. PhasesOfSteps(x) = z
    BY DEF PhasesOfSteps, PhasesOf
  <2> HIDE DEF a, z
  <2>4. z = <<p>>
    <3>1. z # << >>
      BY <2>2, EmptyToSet
    <3>2. PICK y \in Seq(Phase), q \in Phase : z = Append(y, q)
      BY <2>2, <3>1, SequenceEmptyOrAppend
    <3>3. /\ DOMAIN z = 1..(Len(y) + 1) /\ Len(y) \in Nat
          /\ \A i \in DOMAIN z : z[i] = p
      <4>1. Len(z) = Len(y) + 1 /\ Len(y) \in Nat
        BY <3>2, AppendProperties, LenProperties
      <4>2. DOMAIN z = 1..Len(z)
        BY <2>2, LenProperties
      <4>3. \A i \in DOMAIN z : z[i] = p
        BY <2>2 DEF ToSet
      <4> QED
        BY <4>1, <4>2, <4>3
    <3>4. Len(y) = 0
      <4>1. Len(y) # 0 => 1 \in DOMAIN z /\ 2 \in DOMAIN z
        BY <3>3
      <4> QED
        BY <2>2, <3>3, <4>1 DEF Distinct
    <3>5. DOMAIN z = 1..1 /\ z[1] = p
      BY <3>3, <3>4
    <3> QED
      BY <2>2, <3>5
  <2>5. Collect(<<p>>, E) = <<p>>
    BY <1>1, <1>3, CollectAll
  <2> QED
    BY <1>1, <1>3, <2>1, <2>3, <2>4, <2>5 DEF Follows, If, a
<1>4. CASE p \notin E
  <2>1. Collect(<<p>>, E) = << >>
    BY <1>1, <1>4, CollectNone
  <2>2. PhasesOfSteps(<< >>) = << >>
    BY <1>2, CollectEmpty DEF PhasesOfSteps, PhasesOf
  <2> QED
    BY <1>1, <1>2, <1>4, <2>1, <2>2, EmptyToSet DEF Follows, If
<1> QED
    BY <1>3, <1>4

-----------------------------------------------------------------------------
(***************************************************************************)
(* All the steps of a run.                                                 *)
(***************************************************************************)

LEMMA NothingFollows ==
    ASSUME NEW E
    PROVE  Follows(<< >>, << >>, E)
<1>1. PhasesOf(<< >>) = << >> /\ << >> \in Seq(Step) /\ << >> \in Seq(Phase)
    BY DEF PhasesOf
<1>2. PhasesOfSteps(<< >>) = Collect(PhasesOf(<< >>), Phase)
    BY DEF PhasesOfSteps, PhasesOf
<1> QED
    BY <1>1, <1>2, CollectEmpty DEF Follows

\* The next phase of the part o of the plan, which comes after the part h.
Onward(r, h, o, k, E) == Follows(r, h \o SubSeq(o, 1, k), E)

LEMMA PhaseOn ==
    ASSUME NEW h \in Seq(Phase), NEW o \in Seq(Phase), Distinct(o),
           ToSet(h) \cap ToSet(o) = {}, NEW E \in SUBSET Phase,
           NEW k \in 0..Len(o), NEW n \in 0..Len(o), n = k + 1,
           NEW r, NEW x, AllOf(x, o[n]), Onward(r, h, o, k, E)
    PROVE  Onward(r \o If(o[n] \in E, x), h, o, n, E)
<1> DEFINE p == o[n]
           y == If(p \in E, x)
           s == SubSeq(o, 1, k)
<1>1. Len(o) \in Nat /\ DOMAIN o = 1..Len(o) /\ n \in 1..Len(o) /\ n - 1 = k
    BY LenProperties
<1>2. p \in Phase
    BY <1>1, ElementOfSeq
<1>3. \A i \in 1..k : o[i] \in Phase /\ o[i] # p
  <2>1. \A i \in 1..k : i \in 1..Len(o) /\ i # n
    BY <1>1
  <2> QED
    BY <1>1, <2>1, ElementOfSeq DEF Distinct
<1>4. s \in Seq(Phase) /\ p \notin ToSet(s)
  <2>1. /\ s \in Seq(Phase) /\ Len(s) = IF 1 <= k THEN k - 1 + 1 ELSE 0
        /\ \A i \in 1..(k - 1 + 1) : s[i] = o[1 + i - 1]
    BY <1>3, SubSeqProperties
  <2>2. Len(s) = k
    BY <2>1
  <2>3. DOMAIN s = 1..k /\ \A i \in 1..k : s[i] = o[i]
    BY <2>1, <2>2, LenProperties
  <2> QED
    BY <1>3, <2>1, <2>3 DEF ToSet
<1>5. SubSeq(o, 1, n) = s \o <<p>>
  <2>1. 1 \in 1..Len(o) /\ n \in 1..Len(o)
    BY <1>1
  <2>2. SubSeq(o, 1, n) = SubSeq(o, 1, n - 1) \o <<p>>
    BY <2>1, SubSeqRecursiveSecond
  <2> QED
    BY <1>1, <2>2
<1>6. p \notin ToSet(h)
    BY <1>1 DEF ToSet
<1>7. Follows(r, h \o s, E) /\ AllOf(x, p)
    BY DEF Onward
<1> HIDE DEF p, s
<1>8. Follows(y, <<p>>, E)
    BY <1>2, <1>7, PhaseFollows
<1>9. ToSet(h \o s) = ToSet(h) \cup ToSet(s)
    BY <1>4, ConcatToSet
<1>10. ToSet(<<p>>) = {p} /\ <<p>> \in Seq(Phase)
    BY <1>2, PartsOfPlans
<1> HIDE DEF y
<1>11. ToSet(h \o s) \cap ToSet(<<p>>) = {}
    BY <1>4, <1>6, <1>9, <1>10
<1>12. Follows(r \o y, (h \o s) \o <<p>>, E)
    BY <1>7, <1>8, <1>11, FollowsOn
<1>13. (h \o s) \o <<p>> = h \o SubSeq(o, 1, n)
  <2>1. (h \o s) \o <<p>> = h \o (s \o <<p>>)
    <3>1. h \o Append(s, p) = Append(h \o s, p)
      BY <1>2, <1>4, AppendConcat
    <3>2. h \o s \in Seq(Phase)
      BY <1>4, ConcatProperties
    <3>3. Append(s, p) = s \o <<p>> /\ Append(h \o s, p) = (h \o s) \o <<p>>
      BY <1>2, <1>4, <3>2, AppendIsConcat
    <3> QED
      BY <3>1, <3>3
  <2> QED
    BY <1>5, <2>1
<1> QED
    BY <1>12, <1>13 DEF Onward, y, p

\* The three software phases are entered together: their group is disabled
\* as a whole.
LEMMA SoftwareFollows ==
    ASSUME NEW c \in Config, WellFormed(c)
    PROVE  Follows(softwareSteps(c), If(c.software, SoftwarePhases),
                   Phase \ ToSet(c.disabled))
<1> DEFINE E == Phase \ ToSet(c.disabled)
           u == A("software_unpack", "prep")
           m == runSoftwarePhase("software_cold")
           w == runSoftwarePhase("software_warm")
<1>1. /\ "software_unpack" \in Phase /\ "software_cold" \in Phase
      /\ "software_warm" \in Phase /\ "prep" \in StepKind
    BY DEF Phase, StepKind
<1>2. c.software \in BOOLEAN
    BY DEF Config
<1>3. CASE ~c.software
  <2>1. softwareSteps(c) = << >> /\ If(c.software, SoftwarePhases) = << >>
    BY <1>3 DEF softwareSteps, If, SoftwareEnabled
  <2> QED
    BY <2>1, NothingFollows
<1>4. CASE c.software
  <2>1. {"software_unpack", "software_cold", "software_warm"}
            \subseteq ToSet(EffectivePhaseOrder(c))
    BY <1>4, PlanTells DEF InPlanOf
  <2>2. \A p \in {"software_unpack", "software_cold", "software_warm"} :
            GroupOf(p) = {"software_unpack", "software_cold", "software_warm"}
    BY <1>1, GroupIs
  <2>3. \A p, q \in {"software_unpack", "software_cold", "software_warm"} :
            p \in E => q \in E
    BY <1>1, <2>1, <2>2 DEF WellFormed
  <2>4. PhaseSelected(c, "software_cold") <=> "software_cold" \in E
    BY <1>1, <1>4, SelectedIs DEF InPlanOf
  <2>5. /\ SoftwarePhases \in Seq(Phase)
        /\ ToSet(SoftwarePhases) = {"software_unpack", "software_cold", "software_warm"}
    BY PartsOfPlans
  <2>6. If(c.software, SoftwarePhases) = SoftwarePhases
    BY <1>4 DEF If
  <2>7. softwareSteps(c) = If("software_cold" \in E, (u \o m) \o w)
    BY <1>4, <2>4 DEF softwareSteps, SoftwareEnabled, If
  <2>8. AllOf(u, "software_unpack") /\ AllOf(m, "software_cold") /\ AllOf(w, "software_warm")
    BY <1>1, StepsAreOf
  <2>9. E \in SUBSET Phase
    OBVIOUS
  <2> HIDE DEF E, u, m, w
  <2>10. CASE "software_cold" \in E
    <3>1. "software_unpack" \in E /\ "software_warm" \in E
      BY <2>3, <2>10
    <3>2. /\ If("software_unpack" \in E, u) = u /\ If("software_cold" \in E, m) = m
          /\ If("software_warm" \in E, w) = w
          /\ If("software_cold" \in E, (u \o m) \o w) = (u \o m) \o w
      BY <3>1, <2>10 DEF If
    <3> DEFINE o == SoftwarePhases
    <3>3. /\ o \in Seq(Phase) /\ Distinct(o) /\ << >> \in Seq(Phase)
          /\ ToSet(<< >>) \cap ToSet(o) = {}
      BY PartsOfPlans, EmptyToSet
    <3>4. /\ Len(o) = 3 /\ o[1] = "software_unpack" /\ o[2] = "software_cold"
          /\ o[3] = "software_warm"
      BY DEF SoftwarePhases
    <3>5. /\ 0 \in 0..3 /\ 1 \in 0..3 /\ 2 \in 0..3 /\ 3 \in 0..3
          /\ 1 = 0 + 1 /\ 2 = 1 + 1 /\ 3 = 2 + 1
      OBVIOUS
    <3> HIDE DEF o
    <3>6. Onward(<< >>, << >>, o, 0, E)
      <4>1. SubSeq(o, 1, 0) = << >> /\ << >> \o << >> = << >>
        BY SubSeqEmpty, ConcatEmptySeq, EmptySeq
      <4> QED
        BY <4>1, NothingFollows DEF Onward
    <3>7. Onward(<< >> \o u, << >>, o, 1, E)
      BY <2>8, <2>9, <3>2, <3>3, <3>4, <3>5, <3>6, PhaseOn
    <3>8. << >> \o u = u
      BY <2>8, ConcatEmptySeq DEF AllOf
    <3>9. Onward(u \o m, << >>, o, 2, E)
      BY <2>8, <2>9, <3>2, <3>3, <3>4, <3>5, <3>7, <3>8, PhaseOn
    <3>10. Onward((u \o m) \o w, << >>, o, 3, E)
      BY <2>8, <2>9, <3>2, <3>3, <3>4, <3>5, <3>9, PhaseOn
    <3>11. << >> \o SubSeq(o, 1, 3) = o
      BY <3>3, <3>4, SubSeqFull, ConcatEmptySeq
    <3> QED
      BY <2>6, <2>7, <3>2, <3>10, <3>11 DEF Onward, E, o
  <2>11. CASE "software_cold" \notin E
    <3>1. ToSet(SoftwarePhases) \cap E = {}
      BY <2>3, <2>5, <2>11
    <3>2. Collect(SoftwarePhases, E) = << >>
      BY <2>5, <3>1, CollectNone
    <3>3. softwareSteps(c) = << >>
      BY <2>7, <2>11 DEF If
    <3>4. << >> \in Seq(Step) /\ PhasesOf(<< >>) = << >> /\ PhasesOfSteps(<< >>) = << >>
      BY NothingFollows, CollectEmpty DEF Follows, PhasesOf
    <3>5. Follows(<< >>, SoftwarePhases, E)
      BY <2>5, <3>2, <3>4, EmptyToSet DEF Follows
    <3> QED
      BY <2>6, <3>3, <3>5 DEF E
  <2> QED
    BY <2>10, <2>11
<1> QED
    BY <1>2, <1>3, <1>4

\* The git and the untar phase, which a plan may not have.
LEMMA OptionalFollows ==
    ASSUME NEW b \in BOOLEAN, NEW s, NEW p \in Phase, NEW x, NEW E \in SUBSET Phase,
           AllOf(x, p), b => (s <=> p \in E)
    PROVE  Follows(If(b /\ s, x), If(b, <<p>>), E)
<1>1. CASE b
  <2>1. If(b /\ s, x) = If(p \in E, x) /\ If(b, <<p>>) = <<p>>
    BY <1>1 DEF If
  <2>2. Follows(If(p \in E, x), <<p>>, E)
    BY PhaseFollows
  <2> QED
    BY <2>1, <2>2
<1>2. CASE ~b
  <2>1. If(b /\ s, x) = << >> /\ If(b, <<p>>) = << >>
    BY <1>2 DEF If
  <2> QED
    BY <2>1, NothingFollows
<1> QED
    BY <1>1, <1>2

LEMMA RunFollows ==
    ASSUME NEW c \in Config, WellFormed(c)
    PROVE  PhasesOfSteps(RunSteps(c, Ramp)) = ActivePhaseOrder(c)
<1> DEFINE E == Phase \ ToSet(c.disabled)
           o == PhaseOrder
           s == If(c.software, SoftwarePhases)
           g == If(c.git, <<"git_clone">>)
           u == If(c.untar, <<"untar">>)
           h == (s \o g) \o u
           x1 == runRamp("create", Ramp)
           x2 == runRamp("delete", Ramp) \o sendAndWait("delete")
           x3 == runRamp("write_bw", Ramp)
           x4 == runRamp("read_bw", Ramp)
           x5 == runRamp("read_write", Ramp)
           x6 == sendAndWait("riops")
           x7 == runRamp("final_delete", Ramp) \o A("final_delete", "wait")
           r0 == (softwareSteps(c) \o gitSteps(c)) \o untarSteps(c)
           r1 == r0 \o If("create" \in E, x1)
           r2 == r1 \o If("delete" \in E, x2)
           r3 == r2 \o If("write_bw" \in E, x3)
           r4 == r3 \o If("read_bw" \in E, x4)
           r5 == r4 \o If("read_write" \in E, x5)
           r6 == r5 \o If("riops" \in E, x6)
           r7 == r6 \o If("final_delete" \in E, x7)
<1>1. /\ "git_clone" \in Phase /\ "untar" \in Phase /\ "create" \in Phase
      /\ "delete" \in Phase /\ "write_bw" \in Phase /\ "read_bw" \in Phase
      /\ "read_write" \in Phase /\ "riops" \in Phase /\ "final_delete" \in Phase
      /\ "prep" \in StepKind /\ "wait" \in StepKind
    BY DEF Phase, StepKind
<1>2. c.software \in BOOLEAN /\ c.git \in BOOLEAN /\ c.untar \in BOOLEAN
    BY DEF Config
<1>3. E \in SUBSET Phase
    OBVIOUS
<1>4. \A p \in Phase : PhaseSelected(c, p) <=> p \in InPlanOf(c) /\ p \in E
    BY SelectedIs
<1>5. Follows(softwareSteps(c), s, E)
    BY SoftwareFollows
<1>6. RunSteps(c, Ramp) = r7
  <2>1. /\ PhaseSelected(c, "create") <=> "create" \in E
        /\ PhaseSelected(c, "delete") <=> "delete" \in E
        /\ PhaseSelected(c, "write_bw") <=> "write_bw" \in E
        /\ PhaseSelected(c, "read_bw") <=> "read_bw" \in E
        /\ PhaseSelected(c, "read_write") <=> "read_write" \in E
        /\ PhaseSelected(c, "riops") <=> "riops" \in E
        /\ PhaseSelected(c, "final_delete") <=> "final_delete" \in E
    BY <1>1, <1>4 DEF InPlanOf
  <2> HIDE DEF E
  <2>2. /\ If(PhaseSelected(c, "create"), x1) = If("create" \in E, x1)
        /\ If(PhaseSelected(c, "delete"), x2) = If("delete" \in E, x2)
        /\ If(PhaseSelected(c, "write_bw"), x3) = If("write_bw" \in E, x3)
        /\ If(PhaseSelected(c, "read_bw"), x4) = If("read_bw" \in E, x4)
        /\ If(PhaseSelected(c, "read_write"), x5) = If("read_write" \in E, x5)
        /\ If(PhaseSelected(c, "riops"), x6) = If("riops" \in E, x6)
        /\ If(PhaseSelected(c, "final_delete"), x7) = If("final_delete" \in E, x7)
    <3> HIDE DEF x1, x2, x3, x4, x5, x6, x7
    <3> QED
      BY <2>1 DEF If
  <2> QED
    BY <2>2 DEF RunSteps
<1>7. EffectivePhaseOrder(c) = h \o o
    BY DEF EffectivePhaseOrder, SoftwareEnabled, GitCloneEnabled, UntarEnabled,
           SoftwarePhases
<1>8. ActivePhaseOrder(c) = Collect(EffectivePhaseOrder(c), E)
    BY ActiveIs
<1>9. Follows(gitSteps(c), g, E)
  <2> DEFINE x == A("git_clone", "prep") \o runSoftwarePhase("git_clone")
  <2>1. AllOf(x, "git_clone")
    BY <1>1, StepsAreOf, AllOfConcat
  <2>2. gitSteps(c) = If(c.git /\ PhaseSelected(c, "git_clone"), x)
    BY DEF gitSteps, GitCloneEnabled
  <2>3. c.git => (PhaseSelected(c, "git_clone") <=> "git_clone" \in E)
    BY <1>1, <1>4 DEF InPlanOf
  <2> HIDE DEF E, x
  <2> QED
    BY <1>1, <1>2, <1>3, <2>1, <2>2, <2>3, OptionalFollows
<1>10. Follows(untarSteps(c), u, E)
  <2> DEFINE x == A("untar", "prep") \o runSoftwarePhase("untar")
  <2>1. AllOf(x, "untar")
    BY <1>1, StepsAreOf, AllOfConcat
  <2>2. untarSteps(c) = If(c.untar /\ PhaseSelected(c, "untar"), x)
    BY DEF untarSteps, UntarEnabled
  <2>3. c.untar => (PhaseSelected(c, "untar") <=> "untar" \in E)
    BY <1>1, <1>4 DEF InPlanOf
  <2> HIDE DEF E, x
  <2> QED
    BY <1>1, <1>2, <1>3, <2>1, <2>2, <2>3, OptionalFollows
<1>11. /\ s \in Seq(Phase) /\ g \in Seq(Phase) /\ u \in Seq(Phase)
       /\ ToSet(s) \subseteq {"software_unpack", "software_cold", "software_warm"}
       /\ ToSet(g) \subseteq {"git_clone"} /\ ToSet(u) \subseteq {"untar"}
    BY <1>1, <1>2, PartsOfPlans, Optional
<1>12. /\ AllOf(x1, "create") /\ AllOf(x2, "delete") /\ AllOf(x3, "write_bw")
       /\ AllOf(x4, "read_bw") /\ AllOf(x5, "read_write") /\ AllOf(x6, "riops")
       /\ AllOf(x7, "final_delete")
    BY <1>1, StepsAreOf, AllOfConcat
<1>13. /\ o \in Seq(Phase) /\ Distinct(o)
       /\ ToSet(o) = {"create", "delete", "write_bw", "read_bw", "read_write",
                      "riops", "final_delete"}
    BY PartsOfPlans
<1>14. /\ Len(o) = 7 /\ o[1] = "create" /\ o[2] = "delete" /\ o[3] = "write_bw"
       /\ o[4] = "read_bw" /\ o[5] = "read_write" /\ o[6] = "riops"
       /\ o[7] = "final_delete"
    BY DEF PhaseOrder
<1>15. /\ 0 \in 0..7 /\ 1 \in 0..7 /\ 2 \in 0..7 /\ 3 \in 0..7 /\ 4 \in 0..7
       /\ 5 \in 0..7 /\ 6 \in 0..7 /\ 7 \in 0..7
       /\ 1 = 0 + 1 /\ 2 = 1 + 1 /\ 3 = 2 + 1 /\ 4 = 3 + 1 /\ 5 = 4 + 1
       /\ 6 = 5 + 1 /\ 7 = 6 + 1
    OBVIOUS
<1> HIDE DEF E, o, s, g, u, x1, x2, x3, x4, x5, x6, x7
<1>16. /\ s \o g \in Seq(Phase) /\ ToSet(s \o g) = ToSet(s) \cup ToSet(g)
       /\ h \in Seq(Phase) /\ ToSet(h) = ToSet(s \o g) \cup ToSet(u)
  <2>1. s \o g \in Seq(Phase) /\ ToSet(s \o g) = ToSet(s) \cup ToSet(g)
    BY <1>11, ConcatToSet
  <2> DEFINE sg == s \o g
  <2> HIDE DEF sg
  <2>2. sg \o u \in Seq(Phase) /\ ToSet(sg \o u) = ToSet(sg) \cup ToSet(u)
    <3>1. sg \in Seq(Phase)
      BY <2>1 DEF sg
    <3> QED
      BY <1>11, <3>1, ConcatToSet
  <2> QED
    BY <2>1, <2>2 DEF sg
<1>17. ToSet(h) \cap ToSet(o) = {}
    BY <1>11, <1>13, <1>16
<1>18. Follows(r0, h, E)
  <2>1. ToSet(s) \cap ToSet(g) = {} /\ ToSet(s \o g) \cap ToSet(u) = {}
    BY <1>11, <1>16
  <2>2. Follows(softwareSteps(c) \o gitSteps(c), s \o g, E)
    BY <1>5, <1>9, <2>1, FollowsOn
  <2> QED
    BY <1>10, <2>1, <2>2, FollowsOn
<1> HIDE DEF h, r0
<1>19. Onward(r0, h, o, 0, E)
  <2>1. SubSeq(o, 1, 0) = << >> /\ h \o << >> = h
    BY <1>16, SubSeqEmpty, ConcatEmptySeq
  <2> QED
    BY <1>18, <2>1 DEF Onward
<1>20. Onward(r1, h, o, 1, E)
    BY <1>3, <1>12, <1>13, <1>14, <1>15, <1>16, <1>17, <1>19, PhaseOn
<1> HIDE DEF r1
<1>21. Onward(r2, h, o, 2, E)
    BY <1>3, <1>12, <1>13, <1>14, <1>15, <1>16, <1>17, <1>20, PhaseOn
<1> HIDE DEF r2
<1>22. Onward(r3, h, o, 3, E)
    BY <1>3, <1>12, <1>13, <1>14, <1>15, <1>16, <1>17, <1>21, PhaseOn
<1> HIDE DEF r3
<1>23. Onward(r4, h, o, 4, E)
    BY <1>3, <1>12, <1>13, <1>14, <1>15, <1>16, <1>17, <1>22, PhaseOn
<1> HIDE DEF r4
<1>24. Onward(r5, h, o, 5, E)
    BY <1>3, <1>12, <1>13, <1>14, <1>15, <1>16, <1>17, <1>23, PhaseOn
<1> HIDE DEF r5
<1>25. Onward(r6, h, o, 6, E)
    BY <1>3, <1>12, <1>13, <1>14, <1>15, <1>16, <1>17, <1>24, PhaseOn
<1> HIDE DEF r6
<1>26. Onward(r7, h, o, 7, E)
    BY <1>3, <1>12, <1>13, <1>14, <1>15, <1>16, <1>17, <1>25, PhaseOn
<1> HIDE DEF r7
<1>27. SubSeq(o, 1, 7) = o
    BY <1>13, <1>14, SubSeqFull
<1>28. Follows(r7, EffectivePhaseOrder(c), E)
    BY <1>7, <1>26, <1>27 DEF Onward
<1> QED
    BY <1>6, <1>8, <1>28 DEF Follows

-----------------------------------------------------------------------------
(***************************************************************************)
(* The stored list.                                                        *)
(***************************************************************************)

LEMMA Changed ==
    ASSUME NEW c \in Config, NEW list \in Seq(Phase)
    PROVE  /\ [c EXCEPT !.disabled = list] \in Config
           /\ [c EXCEPT !.disabled = list].disabled = list
           /\ EffectivePhaseOrder([c EXCEPT !.disabled = list]) = EffectivePhaseOrder(c)
<1> DEFINE d == [c EXCEPT !.disabled = list]
<1>1. /\ d \in Config /\ d.disabled = list
      /\ d.software = c.software /\ d.git = c.git /\ d.untar = c.untar
    BY DEF Config
<1> HIDE DEF d
<1>2. EffectivePhaseOrder(d) = EffectivePhaseOrder(c)
    BY <1>1 DEF EffectivePhaseOrder, SoftwareEnabled, GitCloneEnabled, UntarEnabled
<1> QED
    BY <1>1, <1>2 DEF d

\* Normalizing gives a well-formed list, and doing it again changes nothing.
LEMMA NormalizedTells ==
    ASSUME NEW c \in Config
    PROVE  /\ Normalized(c) \in Config
           /\ WellFormed(Normalized(c))
           /\ EffectivePhaseOrder(Normalized(c)) = EffectivePhaseOrder(c)
           /\ ToSet(Normalized(c).disabled)
                  = WithGroups(ToSet(c.disabled)) \cap ToSet(EffectivePhaseOrder(c))
           /\ Normalized(Normalized(c)) = Normalized(c)
<1> DEFINE P == ToSet(EffectivePhaseOrder(c))
           n == Norm(c.disabled, P)
           d == Normalized(c)
<1>1. P \in SUBSET Phase /\ Whole(P)
  <2>1. P \in SUBSET Phase
    BY PlanTells DEF ToSet
  <2> QED
    BY <2>1, PlanIsWhole
<1>2. c.disabled \in Seq(Phase) /\ NormalizeDisabledPhases(c) = n
    BY NormalizedIs
<1> HIDE DEF P
<1>3. /\ n \in Seq(Phase) /\ Distinct(n) /\ Whole(ToSet(n))
      /\ ToSet(n) = WithGroups(ToSet(c.disabled)) \cap P
      /\ Norm(n, P) = n
    BY <1>1, <1>2, NormTells, NormTwice
<1> HIDE DEF n
<1>4. d = [c EXCEPT !.disabled = n]
    BY <1>2 DEF Normalized
<1>5. d \in Config /\ d.disabled = n /\ EffectivePhaseOrder(d) = EffectivePhaseOrder(c)
    BY <1>3, <1>4, Changed
<1> HIDE DEF d
<1>6. \A p \in ToSet(n) : GroupOf(p) \subseteq ToSet(n)
  <2>1. ToSet(n) \subseteq Phase
    BY <1>3 DEF ToSet
  <2> QED
    BY <1>3, <2>1, GroupMembers DEF Whole
<1>7. WellFormed(d)
    BY <1>3, <1>5, <1>6 DEF WellFormed, P
<1>8. Normalized(d) = d
  <2>1. NormalizeDisabledPhases(d) = n
    BY <1>3, <1>5, NormalizedIs DEF P
  <2>2. Normalized(d) = [d EXCEPT !.disabled = n]
    BY <2>1 DEF Normalized
  <2>3. [d EXCEPT !.disabled = n] = d
    BY <1>5 DEF Config
  <2> QED
    BY <2>2, <2>3
<1> QED
    BY <1>3, <1>5, <1>7, <1>8 DEF d, P

LEMMA DistinctLength ==
    ASSUME NEW T, NEW list \in Seq(T), Distinct(list)
    PROVE  IsFiniteSet(ToSet(list)) /\ Cardinality(ToSet(list)) = Len(list)
<1> DEFINE Good(s) == IsFiniteSet(ToSet(s)) /\ Cardinality(ToSet(s)) = Len(s)
           P == {s \in Seq(T) : Distinct(s) => Good(s)}
<1>1. << >> \in P
    BY EmptyToSet, EmptySeq, FS_EmptySet
<1>2. ASSUME NEW s \in Seq(T), NEW x \in T, s \in P
      PROVE  Append(s, x) \in P
  <2>1. Append(s, x) \in Seq(T) /\ ToSet(Append(s, x)) = ToSet(s) \cup {x}
    BY AppendToSet
  <2> SUFFICES ASSUME Distinct(Append(s, x))
               PROVE  Good(Append(s, x))
    BY <2>1
  <2>2. /\ DOMAIN Append(s, x) = 1..(Len(s) + 1) /\ DOMAIN s = 1..Len(s)
        /\ \A i \in 1..Len(s) : Append(s, x)[i] = s[i]
        /\ Append(s, x)[Len(s) + 1] = x
        /\ Len(s) \in Nat /\ Len(Append(s, x)) = Len(s) + 1
    BY AppendProperties, LenProperties
  <2>3. \A i, j \in 1..(Len(s) + 1) : Append(s, x)[i] = Append(s, x)[j] => i = j
    BY <2>2 DEF Distinct
  <2>4. Distinct(s) /\ \A i \in 1..Len(s) : s[i] # x
    <3>1. \A i \in 1..Len(s) : i \in 1..(Len(s) + 1) /\ i # Len(s) + 1
                               /\ Len(s) + 1 \in 1..(Len(s) + 1)
      BY <2>2
    <3> QED
      BY <2>2, <2>3, <3>1 DEF Distinct
  <2>5. x \notin ToSet(s)
    BY <2>2, <2>4 DEF ToSet
  <2>6. IsFiniteSet(ToSet(s)) /\ Cardinality(ToSet(s)) = Len(s)
    BY <1>2, <2>4
  <2> QED
    BY <2>1, <2>2, <2>5, <2>6, FS_AddElement
<1>3. Seq(T) \subseteq P
  <2> HIDE DEF P
  <2> QED
    BY <1>1, <1>2, SeqInduct
<1> QED
    BY <1>3

\* A group has three phases at the most.
LEMMA SmallGroups ==
    ASSUME NEW p \in Phase
    PROVE  IsFiniteSet(GroupOf(p)) /\ Cardinality(GroupOf(p)) <= 3
           /\ Cardinality(GroupOf(p)) \in Nat
<1>1. PhaseToggleGroup(p) \in Seq(Phase) /\ Distinct(PhaseToggleGroup(p))
    BY Groups DEF Distinct
<1>2. Len(PhaseToggleGroup(p)) \in 0..3
    BY DEF PhaseToggleGroup
<1> DEFINE g == PhaseToggleGroup(p)
<1> HIDE DEF g
<1>3. IsFiniteSet(ToSet(g)) /\ Cardinality(ToSet(g)) = Len(g)
    BY <1>1, DistinctLength DEF g
<1>4. Len(g) <= 3 /\ Len(g) \in Nat
    BY <1>2 DEF g
<1> QED
    BY <1>3, <1>4 DEF GroupOf, g

\* What shows when the whole plan is written over the stored list of all but
\* one group: the first entries of the plan.  What is cut off are phases from
\* the end of the plan, and these toggle alone.
LEMMA OverwrittenTells ==
    ASSUME NEW c \in Config, WellFormed(c), NEW p \in Phase,
           ToSet(EffectivePhaseOrder(c)) \subseteq ToSet(c.disabled) \cup GroupOf(p)
    PROVE  /\ Overwritten(c.disabled, EffectivePhaseOrder(c)) \in Seq(Phase)
           /\ WellFormed([c EXCEPT !.disabled =
                              Overwritten(c.disabled, EffectivePhaseOrder(c))])
<1> DEFINE plan == EffectivePhaseOrder(c)
           P == ToSet(plan)
           old == c.disabled
           D == ToSet(old)
           new == Overwritten(old, plan)
           n == Len(old)
           l == Len(plan)
<1>1. plan \in Seq(Phase) /\ Distinct(plan)
    BY PlanTells
<1>2. old \in Seq(Phase) /\ Distinct(old) /\ D \subseteq P
    BY DEF WellFormed, Config
<1>3. n \in Nat /\ DOMAIN old = 1..n /\ l \in Nat /\ DOMAIN plan = 1..l
    BY <1>1, <1>2, LenProperties
<1>4. /\ IsFiniteSet(P) /\ Cardinality(P) = l
      /\ IsFiniteSet(D) /\ Cardinality(D) = n
    BY <1>1, <1>2, DistinctLength
<1>5. n <= l
    BY <1>2, <1>4, FS_Subset
<1>6. l <= n + 3
  <2> DEFINE G == GroupOf(p)
  <2>1. IsFiniteSet(G) /\ Cardinality(G) <= 3 /\ Cardinality(G) \in Nat
    BY SmallGroups
  <2>2. P \subseteq D \cup G
    OBVIOUS
  <2> HIDE DEF G, P, D
  <2>3. /\ IsFiniteSet(D \cup G)
        /\ Cardinality(D \cup G) = Cardinality(D) + Cardinality(G) - Cardinality(D \cap G)
    BY <1>4, <2>1, FS_Union
  <2>4. Cardinality(D \cap G) \in Nat
    <3>1. IsFiniteSet(D \cap G)
      BY <1>4, FS_Subset
    <3> QED
      BY <3>1, FS_CardinalityType
  <2>5. Cardinality(P) <= Cardinality(D \cup G)
    BY <2>2, <2>3, FS_Subset
  <2> HIDE DEF n, l
  <2> QED
    BY <1>3, <1>4, <2>1, <2>3, <2>4, <2>5
<1>7. \A j \in 1..l : j > n => GroupOf(plan[j]) = {plan[j]}
  <2> DEFINE s == If(c.software, SoftwarePhases)
             g == If(c.git, <<"git_clone">>)
             u == If(c.untar, <<"untar">>)
             h == (s \o g) \o u
             o == PhaseOrder
  <2>1. plan = h \o o
    BY DEF EffectivePhaseOrder, SoftwareEnabled, GitCloneEnabled, UntarEnabled,
           SoftwarePhases
  <2>2. "git_clone" \in Phase /\ "untar" \in Phase
    BY DEF Phase
  <2>3. c.software \in BOOLEAN /\ c.git \in BOOLEAN /\ c.untar \in BOOLEAN
    BY DEF Config
  <2>4. s \in Seq(Phase) /\ g \in Seq(Phase) /\ u \in Seq(Phase) /\ o \in Seq(Phase)
    BY <2>2, <2>3, PartsOfPlans, Optional
  <2>5. /\ Len(o) = 7 /\ o[5] = "read_write" /\ o[6] = "riops" /\ o[7] = "final_delete"
    BY DEF PhaseOrder
  <2> HIDE DEF s, g, u, o
  <2>6. h \in Seq(Phase)
    <3>1. s \o g \in Seq(Phase)
      BY <2>4, ConcatProperties
    <3> QED
      BY <2>4, <3>1, ConcatProperties
  <2> HIDE DEF h
  <2>7. /\ Len(h) \in Nat /\ Len(h \o o) = Len(h) + 7
        /\ \A i \in 1..Len(h) + 7 :
               (h \o o)[i] = IF i <= Len(h) THEN h[i] ELSE o[i - Len(h)]
    <3>1. /\ Len(h \o o) = Len(h) + Len(o)
          /\ \A i \in 1..Len(h) + Len(o) :
                 (h \o o)[i] = IF i <= Len(h) THEN h[i] ELSE o[i - Len(h)]
      BY <2>4, <2>6, ConcatProperties
    <3>2. Len(h) \in Nat
      BY <2>6, LenProperties
    <3> QED
      BY <2>5, <3>1, <3>2
  <2>8. l = Len(h) + 7
    BY <2>1, <2>7
  <2> SUFFICES ASSUME NEW j \in 1..l, j > n
               PROVE  GroupOf(plan[j]) = {plan[j]}
    OBVIOUS
  <2>9. j - Len(h) \in 5..7 /\ ~(j <= Len(h)) /\ j \in 1..Len(h) + 7
    <3> HIDE DEF n, l
    <3> QED
      BY <1>3, <1>6, <2>7, <2>8
  <2>10. plan[j] = o[j - Len(h)]
    BY <2>1, <2>7, <2>9
  <2>11. plan[j] \in {"read_write", "riops", "final_delete"}
    <3>1. j - Len(h) = 5 \/ j - Len(h) = 6 \/ j - Len(h) = 7
      BY <2>9
    <3> QED
      BY <2>5, <2>10, <3>1
  <2> HIDE DEF plan
  <2>12. plan[j] \in Phase
    BY <2>11 DEF Phase
  <2> QED
    BY <2>11, <2>12, GroupIs
<1>8. /\ new \in Seq(Phase) /\ DOMAIN new = 1..n
      /\ \A i \in 1..n : new[i] = plan[i]
  <2>1. \A i \in 1..n : i \in DOMAIN plan /\ plan[i] \in Phase
    BY <1>1, <1>3, <1>5, ElementOfSeq
  <2>2. new = [i \in 1..n |-> plan[i]]
    BY <1>3, <2>1 DEF Overwritten
  <2>3. new \in [1..n -> Phase]
    BY <2>1, <2>2
  <2> HIDE DEF plan, n, new
  <2> QED
    BY <1>3, <2>2, <2>3
<1>9. [c EXCEPT !.disabled = new] \in Config
      /\ [c EXCEPT !.disabled = new].disabled = new
      /\ EffectivePhaseOrder([c EXCEPT !.disabled = new]) = plan
    BY <1>8, Changed
<1> HIDE DEF plan, old, new, n, l
<1>10. ToSet(new) = {plan[i] : i \in 1..n}
    BY <1>8 DEF ToSet
<1>11. Distinct(new)
    BY <1>1, <1>3, <1>5, <1>8 DEF Distinct
<1>12. ToSet(new) \subseteq P
    BY <1>3, <1>5, <1>10 DEF ToSet
<1>13. ASSUME NEW q \in ToSet(new), NEW r \in GroupOf(q) \cap P
       PROVE  r \in ToSet(new)
  <2>1. PICK j \in 1..l : r = plan[j]
    BY <1>3 DEF ToSet
  <2>2. CASE j <= n
    BY <1>3, <1>10, <2>1, <2>2
  <2>3. CASE j > n
    <3>1. GroupOf(r) = {r}
      BY <1>7, <2>1, <2>3
    <3>2. q \in Phase
      <4>1. q \in P
        BY <1>12
      <4>2. P \subseteq Phase
        BY <1>1 DEF ToSet
      <4> QED
        BY <4>1, <4>2
    <3>3. q \in GroupOf(q) /\ GroupOf(r) = GroupOf(q)
      BY <3>2, GroupMembers
    <3>4. q = r
      BY <3>1, <3>3
    <3> QED
      BY <3>4
  <2> QED
    BY <1>3, <2>2, <2>3
<1>14. WellFormed([c EXCEPT !.disabled = new])
    BY <1>9, <1>11, <1>12, <1>13 DEF WellFormed
<1> QED
    BY <1>8, <1>14 DEF new, old, plan

\* A click is refused only when it disables the last group, and then the list
\* that was built is the whole plan.
LEMMA RefusedBuildsWholePlan ==
    ASSUME NEW c \in Config, WellFormed(c), NEW p \in Phase, NEW enabled \in BOOLEAN,
           GroupOf(p) \cap ToSet(EffectivePhaseOrder(c)) # {},
           NEW list,
           list = Collect(EffectivePhaseOrder(c),
                          IF enabled THEN ToSet(c.disabled) \ GroupOf(p)
                                     ELSE ToSet(c.disabled) \cup GroupOf(p)),
           ActivePhaseOrder(Normalized([c EXCEPT !.disabled = list])) = << >>
    PROVE  /\ list = EffectivePhaseOrder(c)
           /\ ToSet(EffectivePhaseOrder(c)) \subseteq ToSet(c.disabled) \cup GroupOf(p)
<1> DEFINE plan == EffectivePhaseOrder(c)
           P == ToSet(plan)
           D == ToSet(c.disabled)
           G == GroupOf(p)
           S == IF enabled THEN D \ G ELSE D \cup G
           d == [c EXCEPT !.disabled = list]
           new == Normalized(d)
<1>1. plan \in Seq(Phase) /\ Distinct(plan)
    BY PlanTells
<1>2. /\ P \subseteq Phase /\ D \subseteq P /\ G \subseteq Phase /\ p \in G
      /\ \A q \in D : GroupOf(q) \cap P \subseteq D
      /\ \A q \in G : GroupOf(q) = G
  <2>1. P \subseteq Phase
    BY <1>1 DEF ToSet
  <2>2. D \subseteq P /\ \A q \in D : GroupOf(q) \cap P \subseteq D
    BY DEF WellFormed
  <2> QED
    BY <2>1, <2>2, GroupMembers
<1>3. list \in Seq(Phase) /\ ToSet(list) = P \cap S
    BY <1>1, CollectTells
<1>4. d \in Config /\ d.disabled = list /\ EffectivePhaseOrder(d) = plan
    BY <1>3, Changed
<1> HIDE DEF d
<1>5. /\ new \in Config /\ WellFormed(new) /\ EffectivePhaseOrder(new) = plan
      /\ ToSet(new.disabled) = WithGroups(P \cap S) \cap P
    BY <1>3, <1>4, NormalizedTells
<1>6. ActivePhaseOrder(new) = << >>
    BY DEF d
<1> HIDE DEF new
<1>7. ActivePhaseOrder(new) = Collect(plan, Phase \ ToSet(new.disabled))
    BY <1>5, ActiveIs
<1>8. P \subseteq WithGroups(P \cap S)
  <2> DEFINE N == ToSet(new.disabled)
  <2>1. ToSet(Collect(plan, Phase \ N)) = P \cap (Phase \ N)
    BY <1>1, CollectTells
  <2>2. P \cap (Phase \ N) = {}
    BY <1>6, <1>7, <2>1, EmptyToSet
  <2> HIDE DEF P, N
  <2> QED
    BY <1>2, <1>5, <2>2 DEF N
<1> HIDE DEF P, D, G
<1>9. ~enabled
  <2> SUFFICES ASSUME enabled
               PROVE  FALSE
    OBVIOUS
  <2>1. PICK g \in G : g \in P
    BY DEF G, P
  <2>2. PICK r \in D \ G : g \in GroupOf(r)
    BY <1>8, <2>1 DEF WithGroups
  <2>3. r \in Phase /\ r \in GroupOf(r) /\ GroupOf(g) = GroupOf(r)
    BY <1>2, <2>2, GroupMembers
  <2>4. GroupOf(g) = G
    BY <1>2, <2>1
  <2> QED
    BY <2>2, <2>3, <2>4
<1>10. P \subseteq D \cup G
  <2> SUFFICES ASSUME NEW q \in P
               PROVE  q \in D \cup G
    OBVIOUS
  <2>1. PICK r \in D \cup G : q \in GroupOf(r)
    BY <1>8, <1>9 DEF WithGroups
  <2>2. r \in D => q \in D
    BY <1>2, <2>1
  <2>3. r \in G => q \in G
    BY <1>2, <2>1
  <2> QED
    BY <2>1, <2>2, <2>3
<1>11. list = plan
  <2>1. list = Collect(plan, D \cup G)
    BY <1>9 DEF D, G
  <2>2. Collect(plan, D \cup G) = plan
    BY <1>1, <1>10, CollectAll DEF P
  <2> QED
    BY <2>1, <2>2
<1> QED
    BY <1>10, <1>11 DEF P, D, G

-----------------------------------------------------------------------------
(***************************************************************************)
(* The configuration in every reachable state.                             *)
(***************************************************************************)

\* While the controller is up, the list it keeps is well formed, and if it is
\* in step with the file, the file gives that list back.
ConfigInv ==
    /\ TypeOK
    /\ up => WellFormed(cfg)
    /\ up /\ synced => disk \in Config /\ cfg = Normalized(disk)

LEMMA InitConfig == Init => ConfigInv
    BY ConfigAssumption DEF Init, ConfigInv, TypeOK, Reply

LEMMA AcceptKeeps ==
    ASSUME ConfigInv, up, NEW c \in Config, Accept(Normalized(c))
    PROVE  ConfigInv'
<1> DEFINE new == Normalized(c)
<1>1. new \in Config /\ WellFormed(new) /\ Normalized(new) = new
    BY NormalizedTells
<1>2. cfg' = new /\ UNCHANGED <<up, running>> /\ reply' \in Reply
    BY DEF Accept, Reply
<1>3. \/ disk' = new /\ synced' = TRUE
      \/ disk' = disk /\ synced' = FALSE
    BY DEF Accept, Save
<1> HIDE DEF new
<1>4. TypeOK'
    BY <1>1, <1>2, <1>3 DEF ConfigInv, TypeOK
<1>5. WellFormed(cfg')
    BY <1>1, <1>2
<1>6. synced' => disk' \in Config /\ cfg' = Normalized(disk')
    BY <1>1, <1>2, <1>3
<1> QED
    BY <1>4, <1>5, <1>6 DEF ConfigInv

LEMMA NextConfig == ConfigInv /\ [Next]_vars => ConfigInv'
<1> SUFFICES ASSUME ConfigInv, [Next]_vars
             PROVE  ConfigInv'
    OBVIOUS
<1>1. CASE NewOrchestrator
  <2>1. /\ up' = TRUE /\ running' \in BOOLEAN /\ reply' \in Reply /\ synced' \in BOOLEAN
    BY <1>1 DEF NewOrchestrator, Save, Reply
  <2>2. PICK c \in Config : /\ cfg' = Normalized(c)
                             /\ disk' \in Config \cup {NoFile, Malformed}
                             /\ (synced' => disk' = c)
    <3>1. CASE disk \in Config /\ cfg' = Normalized(disk) /\ UNCHANGED disk
      BY <3>1 DEF ConfigInv, TypeOK
    <3>2. CASE cfg' = Normalized(Default) /\ Save(Default)
      BY <3>2, ConfigAssumption DEF ConfigInv, TypeOK, Save
    <3>3. CASE cfg' = Normalized(Default) /\ synced' = FALSE /\ UNCHANGED disk
      BY <3>3, ConfigAssumption DEF ConfigInv, TypeOK
    <3> QED
      BY <1>1, <3>1, <3>2, <3>3 DEF NewOrchestrator
  <2>3. cfg' \in Config /\ WellFormed(cfg')
    BY <2>2, NormalizedTells
  <2>4. synced' => disk' \in Config /\ cfg' = Normalized(disk')
    BY <2>2
  <2> QED
    BY <2>1, <2>2, <2>3, <2>4 DEF ConfigInv, TypeOK
<1>2. CASE Crash
    BY <1>2 DEF Crash, ConfigInv, TypeOK
<1>3. ASSUME NEW new \in Inputs, SetConfig(new)
      PROVE  ConfigInv'
  <2>1. CASE running /\ Refuse /\ UNCHANGED <<cfg, synced>>
    BY <2>1 DEF Refuse, ConfigInv, TypeOK, Reply
  <2>2. CASE Accept(Normalized(new))
    BY <1>3, <2>2, AcceptKeeps, ConfigAssumption DEF SetConfig
  <2> QED
    BY <1>3, <2>1, <2>2 DEF SetConfig
<1>4. ASSUME NEW p \in Toggles, NEW enabled \in BOOLEAN, SetPhaseEnabled(p, enabled)
      PROVE  ConfigInv'
  <2> DEFINE list == Toggled(p, enabled)
             d == [cfg EXCEPT !.disabled = list]
             new == Normalized(d)
  <2>1. up /\ cfg \in Config /\ WellFormed(cfg) /\ p \in Phase
    BY <1>4, ConfigAssumption DEF SetPhaseEnabled, ConfigInv, TypeOK
  <2>2. list = Collect(EffectivePhaseOrder(cfg),
                       IF enabled THEN ToSet(cfg.disabled) \ GroupOf(p)
                                  ELSE ToSet(cfg.disabled) \cup GroupOf(p))
    BY DEF Toggled, GroupOf
  <2>3. list \in Seq(Phase)
    BY <2>1, <2>2, PlanTells, CollectTells
  <2>4. d \in Config
    BY <2>1, <2>3, Changed
  <2>5. CASE Refuse /\ UNCHANGED <<cfg, synced>>
    BY <2>5 DEF Refuse, ConfigInv, TypeOK, Reply
  <2>6. CASE /\ InPlan(p) /\ ActivePhaseOrder(new) = << >> /\ Refuse
             /\ cfg' = [cfg EXCEPT !.disabled = Overwritten(@, list)]
             /\ synced' = FALSE
    <3>1. GroupOf(p) \cap ToSet(EffectivePhaseOrder(cfg)) # {}
      <4>1. PICK g \in GroupOf(p) : Contains(EffectivePhaseOrder(cfg), g)
        BY <2>6 DEF InPlan, GroupOf
      <4>2. g \in ToSet(EffectivePhaseOrder(cfg))
        BY <2>1, <4>1, PlanTells, ContainsIs
      <4> QED
        BY <4>2
    <3> HIDE DEF list
    <3>2. /\ list = EffectivePhaseOrder(cfg)
          /\ ToSet(EffectivePhaseOrder(cfg)) \subseteq ToSet(cfg.disabled) \cup GroupOf(p)
      BY <2>1, <2>2, <2>6, <3>1, RefusedBuildsWholePlan
    <3> DEFINE o == Overwritten(cfg.disabled, EffectivePhaseOrder(cfg))
    <3>3. o \in Seq(Phase) /\ WellFormed([cfg EXCEPT !.disabled = o])
      BY <2>1, <3>2, OverwrittenTells
    <3>4. cfg' = [cfg EXCEPT !.disabled = o]
      BY <2>6, <3>2
    <3> HIDE DEF o
    <3>5. cfg' \in Config /\ WellFormed(cfg')
      BY <2>1, <3>3, <3>4, Changed
    <3>6. UNCHANGED <<up, running, disk>> /\ reply' \in Reply
      BY <2>6 DEF Refuse, Reply
    <3> QED
      BY <2>6, <3>5, <3>6 DEF ConfigInv, TypeOK
  <2>7. CASE Accept(new)
    <3> HIDE DEF d
    <3> QED
      BY <2>1, <2>4, <2>7, AcceptKeeps
  <2> QED
    BY <1>4, <2>5, <2>6, <2>7 DEF SetPhaseEnabled
<1>5. CASE Start
    BY <1>5 DEF Start, ConfigInv, TypeOK
<1>6. CASE finish
    BY <1>6 DEF finish, ConfigInv, TypeOK
<1>7. CASE UNCHANGED vars
    BY <1>7 DEF vars, ConfigInv, TypeOK
<1> QED
    BY <1>1, <1>2, <1>3, <1>4, <1>5, <1>6, <1>7 DEF Next

LEMMA ConfigInvariant == Spec => []ConfigInv
<1>1. Init => ConfigInv
    BY InitConfig
<1>2. ConfigInv /\ [Next]_vars => ConfigInv'
    BY NextConfig
<1> QED
    BY <1>1, <1>2, PTL DEF Spec

\* The configuration in memory and the one on disk keep their types through
\* clicks, submitted configurations, failed saves and restarts.
THEOREM ConfigTypeCorrect == Spec => []TypeOK
<1>1. ConfigInv => TypeOK
    BY DEF ConfigInv
<1> QED
    BY <1>1, ConfigInvariant, PTL

\* The list that normalizeConfig and SetPhaseEnabled keep never names a phase
\* twice, nor one the plan does not have, nor a part of a group only, not
\* even after a refused click has written over it.
THEOREM DisabledListStaysWellFormed == Spec => []DisabledListWellFormed
<1>1. ConfigInv => DisabledListWellFormed
    BY DEF ConfigInv, DisabledListWellFormed, WellFormed, Distinct, GroupOf
<1> QED
    BY <1>1, ConfigInvariant, PTL

\* What run() decides phase by phase is what ActivePhaseOrder shows, for
\* every reachable configuration and every number of steps of a ramp.
THEOREM RunsFollowThePlan == Spec => []RunFollowsActivePlan
<1>1. ConfigInv => RunFollowsActivePlan
    BY RunFollows DEF ConfigInv, TypeOK, RunFollowsActivePlan
<1> QED
    BY <1>1, ConfigInvariant, PTL

\* NewOrchestrator, after a restart, finds in the file the configuration that
\* was in use, when the controller had loaded or written that file and since
\* then no save failed and no click was refused: what was normalized once
\* stays as it is.
THEOREM SavedConfigReturns == Spec => []SyncedConfigSurvivesRestart
<1>1. ConfigInv => SyncedConfigSurvivesRestart
    BY DEF ConfigInv, SyncedConfigSurvivesRestart
<1> QED
    BY <1>1, ConfigInvariant, PTL
====
