---------------------------- MODULE WorkerProofs ----------------------------
(***************************************************************************)
(* The worker and its ledger, for any number of files, runs and stops:     *)
(* the types, the search of the delete phases, the freshness of indices,   *)
(* what the readers find, and what a stop leaves on disk.                  *)
(***************************************************************************)
EXTENDS Worker, FiniteSetTheorems, SequenceTheorems, WellFoundedInduction, TLAPS

-----------------------------------------------------------------------------
(***************************************************************************)
(* Numbers and sequences.                                                  *)
(***************************************************************************)

LEMMA ModIsRest ==
    ASSUME NEW n \in Nat, n > 0, NEW x \in Nat, x < 2 * n
    PROVE  x % n = IF x < n THEN x ELSE x - n
<1>1. x < n => x % n = x
    OBVIOUS
<1>2. x >= n => x % n = x - n
    OBVIOUS
<1> QED
    BY <1>1, <1>2

LEMMA LeastOf ==
    ASSUME NEW S, S \subseteq Nat, S # {}
    PROVE  \E n \in S : \A m \in S : n <= m
<1>1. PICK x \in S : \A y \in S : ~ (<<y, x>> \in OpToRel(<, Nat))
    BY NatLessThanWellFounded, WFMin
<1>2. ASSUME NEW y \in S
      PROVE  x <= y
  <2>1. ~ (y < x)
    BY <1>1 DEF OpToRel
  <2>2. x \in Nat /\ y \in Nat
    OBVIOUS
  <2> QED
    BY <2>1, <2>2
<1> QED
    BY <1>2

LEMMA Induct ==
    ASSUME NEW S, 0 \in S, \A n \in Nat : n \in S => n + 1 \in S
    PROVE  Nat \subseteq S
<1> SUFFICES ASSUME Nat \ S # {}
             PROVE  FALSE
    OBVIOUS
<1>1. PICK n \in Nat \ S : \A m \in Nat \ S : n <= m
    BY LeastOf
<1>2. n # 0 /\ n - 1 \in Nat /\ n - 1 \in S
    BY <1>1
<1>3. (n - 1) + 1 \in S
    BY <1>2
<1> QED
    BY <1>1, <1>2, <1>3

-----------------------------------------------------------------------------
(***************************************************************************)
(* The search of the ledger, by induction on the turns of its loop.        *)
(***************************************************************************)

Searches == [ledger : Ledgers, scanned : Nat, found : SUBSET Nat, over : BOOLEAN]

\* The search before its first turn.
Begun(l) == [ledger |-> l, scanned |-> 0, found |-> NoFile, over |-> FALSE]

AreTurns(turn, l, existing, remove, N) ==
    turn = [n \in 0..N |-> IF n = 0 THEN Begun(l) ELSE Look(turn[n - 1], existing, remove)]

\* The function that NextExistingPath defines exists.
LEMMA TurnsExist ==
    ASSUME NEW l, NEW existing, NEW remove, NEW N \in Nat
    PROVE  \E turn : AreTurns(turn, l, existing, remove, N)
<1> DEFINE Is(turn, M) == AreTurns(turn, l, existing, remove, M)
           S == {M \in Nat : \E turn : Is(turn, M)}
<1>1. 0 \in S
  <2>1. Is([n \in 0..0 |-> Begun(l)], 0)
    BY DEF AreTurns
  <2> QED
    BY <2>1
<1>2. ASSUME NEW M \in Nat, M \in S
      PROVE  M + 1 \in S
  <2>1. PICK turn : Is(turn, M)
    BY <1>2
  <2> DEFINE next == [n \in 0..(M + 1) |-> IF n = M + 1 THEN Look(turn[M], existing, remove)
                                                        ELSE turn[n]]
  <2>2. ASSUME NEW n \in 0..(M + 1)
        PROVE  next[n] = IF n = 0 THEN Begun(l) ELSE Look(next[n - 1], existing, remove)
    <3>1. CASE n = M + 1
      BY <3>1
    <3>2. CASE n # M + 1
      <4>1. n \in 0..M /\ next[n] = turn[n]
        BY <3>2
      <4>2. n # 0 => n - 1 \in 0..M /\ next[n - 1] = turn[n - 1]
        BY <3>2, <4>1
      <4> QED
        BY <2>1, <4>1, <4>2 DEF AreTurns
    <3> QED
      BY <3>1, <3>2
  <2>3. Is(next, M + 1)
    BY <2>2 DEF AreTurns
  <2> HIDE DEF next, Is
  <2>4. \E t : Is(t, M + 1)
    BY <2>3
  <2> QED
    BY <2>4
<1> HIDE DEF S
<1>3. N \in S
    BY <1>1, <1>2, Induct
<1> QED
    BY <1>3 DEF S

\* What is true before the first turn, and of every turn if it is of the one
\* before, is true of the last turn.
LEMMA ScanInduct ==
    ASSUME NEW l \in Ledgers, NEW existing, NEW remove, NEW P,
           <<0, Begun(l)>> \in P,
           \A n \in Nat : \A s :
               <<n, s>> \in P => <<n + 1, Look(s, existing, remove)>> \in P
    PROVE  <<Len(l.indices) + 1, NextExistingPath(l, existing, remove)>> \in P
<1> DEFINE N == Len(l.indices) + 1
           turn == CHOOSE t : AreTurns(t, l, existing, remove, N)
           S == {n \in Nat : n <= N => <<n, turn[n]>> \in P}
<1>1. N \in Nat
    BY DEF Ledgers
<1>2. NextExistingPath(l, existing, remove) = turn[N]
    BY DEF NextExistingPath, Begun, AreTurns
<1>3. turn = [n \in 0..N |-> IF n = 0 THEN Begun(l) ELSE Look(turn[n - 1], existing, remove)]
  <2>1. \E t : AreTurns(t, l, existing, remove, N)
    BY <1>1, TurnsExist
  <2>2. AreTurns(turn, l, existing, remove, N)
    BY <2>1
  <2> QED
    BY <2>2 DEF AreTurns
<1> HIDE DEF turn
<1> HIDE DEF N
<1>4. 0 \in S
    BY <1>1, <1>3
<1>5. ASSUME NEW n \in Nat, n \in S
      PROVE  n + 1 \in S
  <2> SUFFICES ASSUME n + 1 <= N
               PROVE  <<n + 1, turn[n + 1]>> \in P
    OBVIOUS
  <2>1. <<n, turn[n]>> \in P
    BY <1>1, <1>5
  <2>2. turn[n + 1] = Look(turn[n], existing, remove)
    BY <1>1, <1>3
  <2> QED
    BY <2>1, <2>2
<1>6. N \in S
  <2> HIDE DEF S
  <2> QED
    BY <1>1, <1>4, <1>5, Induct
<1> QED
    BY <1>1, <1>2, <1>6 DEF N


LEMMA SeqOfItsSet ==
    ASSUME NEW S, NEW q \in Seq(S)
    PROVE  q \in Seq(ToSet(q)) /\ ToSet(q) \subseteq S
    BY DEF ToSet

LEMMA RemoveAtIsSeq ==
    ASSUME NEW S, NEW q \in Seq(S), NEW i \in 1..Len(q)
    PROVE  RemoveAt(q, i) \in Seq(S)
<1> DEFINE a == SubSeq(q, 1, i - 1)
           b == SubSeq(q, i + 1, Len(q))
<1>1. a \in Seq(S) /\ b \in Seq(S)
    OBVIOUS
<1> HIDE DEF a, b
<1>2. a \o b \in Seq(S)
    BY <1>1, ConcatProperties
<1> QED
    BY <1>2 DEF RemoveAt, a, b

LEMMA RemoveAtKeeps ==
    ASSUME NEW q \in Seq(Nat), NEW i \in 1..Len(q)
    PROVE  /\ RemoveAt(q, i) \in Seq(Nat)
           /\ ToSet(RemoveAt(q, i)) \subseteq ToSet(q)
<1>1. RemoveAt(q, i) \in Seq(Nat) /\ RemoveAt(q, i) \in Seq(ToSet(q))
    BY SeqOfItsSet, RemoveAtIsSeq
<1> QED
    BY <1>1, SeqOfItsSet

\* A turn takes an entry out, or none, and may find one that is there.
LookedAt(s, existing, t) ==
    /\ t \in Searches
    /\ t.ledger.next = s.ledger.next
    /\ t.ledger.bwIndices = s.ledger.bwIndices
    /\ ToSet(t.ledger.indices) \subseteq ToSet(s.ledger.indices)
    /\ \/ t.found = s.found
       \/ t.found = NoFile
       \/ \E f \in ToSet(s.ledger.indices) \cap existing : t.found = {f}

LEMMA LookKeeps ==
    ASSUME NEW s \in Searches, NEW existing, NEW remove \in BOOLEAN
    PROVE  LookedAt(s, existing, Look(s, existing, remove))
<1> DEFINE l == s.ledger
           p == IF l.delPos >= Len(l.indices) THEN 0 ELSE l.delPos
           i == l.indices[p + 1]
<1>0. l \in Ledgers /\ s.scanned \in Nat
    BY DEF Searches
<1>1. CASE \/ s.over
           \/ s.scanned >= Len(l.indices)
           \/ remove /\ l.delPos >= Len(l.indices)
  <2>1. Look(s, existing, remove) = [s EXCEPT !.over = TRUE]
    BY <1>1 DEF Look
  <2> QED
    BY <2>1 DEF LookedAt, Searches
<1>2. CASE ~ \/ s.over
             \/ s.scanned >= Len(l.indices)
             \/ remove /\ l.delPos >= Len(l.indices)
  <2>1. Look(s, existing, remove) =
           [ledger  |-> IF remove THEN [l EXCEPT !.indices = RemoveAt(@, p + 1)]
                                  ELSE [l EXCEPT !.delPos = p + 1],
            scanned |-> IF i \in existing THEN s.scanned ELSE s.scanned + 1,
            found   |-> {i} \cap existing,
            over    |-> i \in existing]
    BY <1>2 DEF Look
  <2>2. p \in Nat /\ p + 1 \in 1..Len(l.indices) /\ l.indices \in Seq(Nat)
    BY <1>0, <1>2 DEF Ledgers
  <2> HIDE DEF p, l
  <2>3. i \in Nat /\ i \in ToSet(l.indices)
    BY <2>2 DEF ToSet
  <2> HIDE DEF i
  <2>4. /\ RemoveAt(l.indices, p + 1) \in Seq(Nat)
        /\ ToSet(RemoveAt(l.indices, p + 1)) \subseteq ToSet(l.indices)
    BY <2>2, RemoveAtKeeps
  <2> DEFINE m == IF remove THEN [l EXCEPT !.indices = RemoveAt(@, p + 1)]
                            ELSE [l EXCEPT !.delPos = p + 1]
  <2> HIDE DEF m
  <2>5. /\ m \in Ledgers
        /\ m.next = l.next
        /\ m.bwIndices = l.bwIndices
        /\ ToSet(m.indices) \subseteq ToSet(l.indices)
    <3>1. CASE remove
      <4>1. m = [l EXCEPT !.indices = RemoveAt(@, p + 1)]
        BY <3>1 DEF m
      <4>2. /\ m \in Ledgers /\ m.next = l.next /\ m.bwIndices = l.bwIndices
            /\ m.indices = RemoveAt(l.indices, p + 1)
        BY <1>0, <2>4, <4>1 DEF Ledgers
      <4> QED
        BY <2>4, <4>2
    <3>2. CASE ~remove
      <4>1. m = [l EXCEPT !.delPos = p + 1]
        BY <3>2 DEF m
      <4>2. p + 1 \in Nat
        BY <2>2
      <4>3. /\ m \in Ledgers /\ m.next = l.next /\ m.bwIndices = l.bwIndices
            /\ m.indices = l.indices
        BY <1>0, <4>1, <4>2 DEF Ledgers
      <4> QED
        BY <4>3
    <3> QED
      BY <3>1, <3>2
  <2>6. Look(s, existing, remove) \in Searches
    BY <1>0, <2>1, <2>3, <2>5 DEF Searches, m
  <2>7. \/ {i} \cap existing = NoFile
        \/ {i} \cap existing = {i} /\ i \in existing
    BY DEF NoFile
  <2> QED
    BY <2>1, <2>3, <2>5, <2>6, <2>7 DEF LookedAt, l, m
<1> QED
    BY <1>1, <1>2

LEMMA BegunIsSearch ==
    ASSUME NEW l \in Ledgers
    PROVE  Begun(l) \in Searches
    BY DEF Begun, Searches, NoFile

Yields(l, existing, r) ==
    /\ r.ledger \in Ledgers
    /\ r.ledger.next = l.next
    /\ r.ledger.bwIndices = l.bwIndices
    /\ ToSet(r.ledger.indices) \subseteq ToSet(l.indices)
    /\ r.found = NoFile \/ \E f \in ToSet(l.indices) \cap existing : r.found = {f}

\* What NextExistingPath yields, whether it keeps the entries or not.
LEMMA ScanYields ==
    ASSUME NEW l \in Ledgers, NEW existing, NEW remove \in BOOLEAN
    PROVE  Yields(l, existing, NextExistingPath(l, existing, remove))
<1> DEFINE P == {ns \in Nat \X Searches : LookedAt(Begun(l), existing, ns[2])}
<1>1. <<0, Begun(l)>> \in P
    BY BegunIsSearch DEF LookedAt
<1>2. ASSUME NEW n \in Nat, NEW s, <<n, s>> \in P
      PROVE  <<n + 1, Look(s, existing, remove)>> \in P
  <2>1. s \in Searches /\ LookedAt(Begun(l), existing, s)
    BY <1>2
  <2>2. LookedAt(s, existing, Look(s, existing, remove))
    BY <2>1, LookKeeps
  <2> QED
    BY <2>1, <2>2 DEF LookedAt
<1> HIDE DEF P
<1>3. <<Len(l.indices) + 1, NextExistingPath(l, existing, remove)>> \in P
    BY <1>1, <1>2, ScanInduct
<1>4. LookedAt(Begun(l), existing, NextExistingPath(l, existing, remove))
    BY <1>3 DEF P
<1>5. Begun(l).ledger = l /\ Begun(l).found = NoFile
    BY DEF Begun
<1> QED
    BY <1>4, <1>5 DEF LookedAt, Searches, Yields


-----------------------------------------------------------------------------
\* Where a cursor that keeps the entries looks.
Place(l) == IF l.delPos >= Len(l.indices) THEN 1 ELSE l.delPos + 1

LEMMA CursorGoesRound ==
    ASSUME NEW l \in Ledgers, NEW k \in 1..Len(l.indices)
    PROVE  LET n == Len(l.indices)
               order == FromCursor(l)
           IN  /\ order[k] \in 1..n
               /\ k = 1 => order[k] = Place(l)
               /\ k < n => order[k + 1] = IF order[k] = n THEN 1 ELSE order[k] + 1
<1> DEFINE n == Len(l.indices)
           p == IF l.delPos >= n THEN 0 ELSE l.delPos
           order == FromCursor(l)
<1>1. n \in Nat /\ n > 0 /\ p \in 0..(n - 1) /\ k \in 1..n
    BY DEF Ledgers
<1>2. /\ order[k] = ((p + k - 1) % n) + 1
      /\ k < n => order[k + 1] = ((p + (k + 1) - 1) % n) + 1
    BY <1>1 DEF FromCursor
<1>3. k = 1 => Place(l) = p + 1
    BY <1>1 DEF Place, Ledgers
<1> HIDE DEF n, p, order
<1>4. (p + k - 1) % n = IF p + k - 1 < n THEN p + k - 1 ELSE p + k - 1 - n
  <2>1. p + k - 1 \in Nat /\ p + k - 1 < 2 * n
    BY <1>1
  <2> QED
    BY <1>1, <2>1, ModIsRest
<1>5. k < n => (p + (k + 1) - 1) % n = IF p + k < n THEN p + k ELSE p + k - n
  <2>1. k < n => p + (k + 1) - 1 \in Nat /\ p + (k + 1) - 1 < 2 * n /\ p + (k + 1) - 1 = p + k
    BY <1>1
  <2> QED
    BY <1>1, <2>1, ModIsRest
<1>6. /\ order[k] \in 1..n
      /\ k = 1 => order[k] = Place(l)
    BY <1>1, <1>2, <1>3, <1>4
<1>7. k < n => order[k + 1] = IF order[k] = n THEN 1 ELSE order[k] + 1
    BY <1>1, <1>2, <1>4, <1>5
<1> QED
    BY <1>6, <1>7 DEF n, order

\* Turn n + 1 of a search that keeps the entries looks at the place that comes
\* n places after the cursor, and there was nothing at those before.
Searching(l, existing, n, s) ==
    /\ s.ledger.indices = l.indices
    /\ s.over \/ n <= Len(l.indices)
    /\ s.over => s.found = FirstExisting(l, existing)
    /\ ~s.over => /\ s.scanned = n
                  /\ s.found = NoFile
                  /\ \A k \in 1..n : l.indices[FromCursor(l)[k]] \notin existing
                  /\ n < Len(l.indices) => Place(s.ledger) = FromCursor(l)[n + 1]

LEMMA FirstIsFound ==
    ASSUME NEW l \in Ledgers, NEW existing, NEW n \in Nat, n <= Len(l.indices),
           \A k \in 1..n : l.indices[FromCursor(l)[k]] \notin existing
    PROVE  /\ n = Len(l.indices) => FirstExisting(l, existing) = NoFile
           /\ n < Len(l.indices) /\ l.indices[FromCursor(l)[n + 1]] \in existing
                 => FirstExisting(l, existing) = {l.indices[FromCursor(l)[n + 1]]}
<1> DEFINE order == FromCursor(l)
           there == {k \in DOMAIN order : l.indices[order[k]] \in existing}
           first == CHOOSE k \in there : \A j \in there : k <= j
<1>1. Len(l.indices) \in Nat /\ DOMAIN order = 1..Len(l.indices)
    BY DEF Ledgers, FromCursor
<1>2. FirstExisting(l, existing) = IF there = {} THEN NoFile ELSE {l.indices[order[first]]}
    BY DEF FirstExisting
<1> HIDE DEF order
<1>3. n = Len(l.indices) => there = {}
    BY <1>1 DEF order
<1>4. ASSUME n < Len(l.indices), l.indices[order[n + 1]] \in existing
      PROVE  first = n + 1
  <2>1. n + 1 \in there
    BY <1>1, <1>4
  <2>2. \A j \in there : j \in Nat /\ n + 1 <= j
    BY <1>1 DEF order
  <2>3. \A k \in there : (\A j \in there : k <= j) => k = n + 1
    BY <2>1, <2>2
  <2> HIDE DEF there
  <2> QED
    BY <2>1, <2>2, <2>3
<1>5. n < Len(l.indices) /\ l.indices[order[n + 1]] \in existing => there # {}
    BY <1>1
<1> HIDE DEF there, first
<1> QED
    BY <1>1, <1>2, <1>3, <1>4, <1>5 DEF order

LEMMA SearchGoesOn ==
    ASSUME NEW l \in Ledgers, NEW existing, NEW n \in Nat, NEW s \in Searches,
           Searching(l, existing, n, s)
    PROVE  Searching(l, existing, n + 1, Look(s, existing, FALSE))
<1> DEFINE m == s.ledger
           N == Len(l.indices)
           order == FromCursor(l)
           p == IF m.delPos >= N THEN 0 ELSE m.delPos
           i == l.indices[p + 1]
           t == Look(s, existing, FALSE)
<1> HIDE DEF t
<1>1. /\ m \in Ledgers /\ m.indices = l.indices /\ N \in Nat
      /\ s.scanned \in Nat /\ s.over \in BOOLEAN /\ p \in Nat /\ Place(m) = p + 1
    BY DEF Searches, Ledgers, Searching, Place
<1>2. CASE s.over
  <2>1. t = [s EXCEPT !.over = TRUE]
    BY <1>2 DEF Look, t
  <2>2. t = s
    BY <1>2, <2>1 DEF Searches
  <2> QED
    BY <1>2, <2>2 DEF Searching, t
<1>3. CASE ~s.over /\ n >= N
  <2>1. n = N /\ s.scanned = N
    BY <1>1, <1>3 DEF Searching
  <2>2. t = [s EXCEPT !.over = TRUE]
    BY <1>1, <2>1 DEF Look, t
  <2>3. FirstExisting(l, existing) = NoFile
    BY <1>3, <2>1, FirstIsFound DEF Searching
  <2>4. t.ledger = s.ledger /\ t.over /\ t.found = s.found
    BY <2>2 DEF Searches
  <2> QED
    BY <1>3, <2>3, <2>4 DEF Searching, t
<1>4. CASE ~s.over /\ n < N
  <2>1. t = [ledger  |-> [m EXCEPT !.delPos = p + 1],
             scanned |-> IF i \in existing THEN s.scanned ELSE s.scanned + 1,
             found   |-> {i} \cap existing,
             over    |-> i \in existing]
    BY <1>1, <1>4 DEF Look, Searching, t
  <2>2. p + 1 = order[n + 1] /\ i = l.indices[order[n + 1]]
    BY <1>1, <1>4 DEF Searching
  <2>3. \A k \in 1..n : l.indices[order[k]] \notin existing
    BY <1>4 DEF Searching
  <2>4. t.ledger.indices = l.indices /\ t.ledger.delPos = p + 1
    <3> HIDE DEF p, i
    <3>1. t.ledger = [m EXCEPT !.delPos = p + 1]
      BY <2>1
    <3> QED
      BY <1>1, <3>1 DEF Ledgers
  <2> HIDE DEF p, i, m
  <2>5. CASE i \in existing
    <3>1. {i} \cap existing = {i}
      BY <2>5
    <3>2. FirstExisting(l, existing) = {i}
      BY <1>1, <1>4, <2>2, <2>3, <2>5, FirstIsFound
    <3>3. t.over /\ t.found = {i}
      BY <2>1, <2>5, <3>1
    <3> QED
      BY <2>4, <3>2, <3>3 DEF Searching, t
  <2>6. CASE i \notin existing
    <3>1. {i} \cap existing = NoFile
      BY <2>6 DEF NoFile
    <3>2. \A k \in 1..(n + 1) : l.indices[order[k]] \notin existing
      <4> HIDE DEF order, i
      <4>1. \A k \in 1..(n + 1) : k \in 1..n \/ k = n + 1
        OBVIOUS
      <4> QED
        BY <2>2, <2>3, <2>6, <4>1
    <3>3. n + 1 < N => Place(t.ledger) = order[n + 2]
      <4>1. n + 1 \in 1..N
        BY <1>1, <1>4
      <4>2. n + 1 < N => order[(n + 1) + 1] = IF order[n + 1] = N THEN 1 ELSE order[n + 1] + 1
        BY <4>1, CursorGoesRound
      <4>3. order[n + 1] \in 1..N
        BY <4>1, CursorGoesRound
      <4> HIDE DEF order, N
      <4>4. Place(t.ledger) = IF p + 1 >= N THEN 1 ELSE (p + 1) + 1
        BY <2>4 DEF Place, N
      <4>5. (n + 1) + 1 = n + 2
        OBVIOUS
      <4> QED
        BY <1>1, <2>2, <4>2, <4>3, <4>4, <4>5
    <3>4. t.scanned = n + 1 /\ t.found = NoFile /\ ~t.over
      <4>1. s.scanned = n
        BY <1>4 DEF Searching
      <4> QED
        BY <2>1, <2>6, <3>1, <4>1
    <3>5. (n + 1) + 1 = n + 2 /\ n + 1 <= N
      BY <1>1, <1>4
    <3> QED
      BY <2>4, <3>2, <3>3, <3>4, <3>5 DEF Searching, t
  <2> QED
    BY <2>5, <2>6
<1>5. n >= N \/ n < N
    BY <1>1
<1> QED
    BY <1>2, <1>3, <1>4, <1>5, Zenon

LEMMA ScanFindsFirst ==
    ASSUME NEW l \in Ledgers, NEW existing
    PROVE  LET r == NextExistingPath(l, existing, FALSE)
           IN  r.found = FirstExisting(l, existing) /\ r.ledger.indices = l.indices
<1> DEFINE P == {ns \in Nat \X Searches : Searching(l, existing, ns[1], ns[2])}
           N == Len(l.indices)
<1>1. <<0, Begun(l)>> \in P
  <2>1. Searching(l, existing, 0, Begun(l))
    <3>1. N \in Nat
      BY DEF Ledgers
    <3>2. 0 < N => Place(l) = FromCursor(l)[0 + 1]
      BY <3>1, CursorGoesRound
    <3> QED
      BY <3>1, <3>2 DEF Searching, Begun
  <2> QED
    BY <2>1, BegunIsSearch
<1>2. ASSUME NEW n \in Nat, NEW s, <<n, s>> \in P
      PROVE  <<n + 1, Look(s, existing, FALSE)>> \in P
  <2>1. s \in Searches /\ Searching(l, existing, n, s)
    BY <1>2
  <2> DEFINE t == Look(s, existing, FALSE)
  <2>2. t \in Searches
    BY <2>1, LookKeeps DEF LookedAt
  <2>3. Searching(l, existing, n + 1, t)
    BY <2>1, SearchGoesOn
  <2> HIDE DEF t
  <2>4. <<n + 1, t>> \in P
    BY <2>2, <2>3
  <2> QED
    BY <2>4 DEF t
<1> HIDE DEF P
<1>3. <<N + 1, NextExistingPath(l, existing, FALSE)>> \in P
    BY <1>1, <1>2, ScanInduct
<1> DEFINE r == NextExistingPath(l, existing, FALSE)
<1> HIDE DEF r
<1>4. Searching(l, existing, N + 1, r) /\ N \in Nat
  <2>1. <<N + 1, r>> \in P
    BY <1>3 DEF r
  <2> HIDE DEF N
  <2>2. Searching(l, existing, N + 1, r)
    BY <2>1 DEF P
  <2>3. N \in Nat
    BY DEF N, Ledgers
  <2> QED
    BY <2>2, <2>3
<1>5. r.over
    BY <1>4 DEF Searching
<1> QED
    BY <1>4, <1>5 DEF Searching, r

-----------------------------------------------------------------------------
(***************************************************************************)
(* Where the lanes are, and what the ledger may hold.                      *)
(***************************************************************************)

Jobs == [pc : JobPCs, file : OneFile, files : SUBSET Files]

PCsOf(l, p) ==
    CASE l = "reader" /\ p \in {"read", "rw"} ->
             {"off", "check", "next", "take", "open", "chunk", "add", "reread",
              "openRead", "read"}
      [] l = "writer" /\ p = "create" -> {"off", "check", "take", "create", "add"}
      [] l = "writer" /\ p \in {"write", "rw"} -> {"off", "check", "take", "open", "chunk", "add"}
      [] l = "writer" /\ p \in {"delete", "final"} -> {"off", "check", "look", "walk", "remove"}
      [] l = "writer" /\ p = "riops" -> {"off", "prep", "check"}
      [] l = "writer" /\ p = "wipe" -> {"off", "wipe", "wiped"}
      [] OTHER -> {"off"}

Makes == {"create", "open", "chunk", "add"}

\* In phase p, lane l may be at pc with the given file.
LaneOK(l, pc, file, p) ==
    /\ pc \in PCsOf(l, p)
    /\ pc \in Makes => \E f \in Indices : file = {f}
    /\ l = "writer" /\ pc = "check" => /\ file \subseteq Indices
                                       /\ p \notin {"write", "rw"} => file = {}
    /\ pc \in {"off", "walk", "prep", "wipe", "wiped"} => file = {}

LedgerInv ==
    /\ ledger \in Ledgers
    /\ ledger.next <= MaxIndex
    /\ \A f \in ToSet(ledger.indices) : f < ledger.next
    /\ ToSet(ledger.bwIndices) \subseteq Indices

LanesOK == \A l \in Lanes : LaneOK(l, job[l].pc, job[l].file, phase)

ShapeInv == TypeOK /\ LedgerInv /\ LanesOK

\* Lane l comes to pc with the given files, the others stay where they are.
To(l, pc, file, files) ==
    /\ job' \in [Lanes -> Jobs]
    /\ job'[l].pc = pc
    /\ job'[l].file = file
    /\ job'[l].files = files
    /\ \A k \in Lanes \ {l} : job'[k] = job[k]

LEMMA PhasesAre ==
    Phases = {"create", "delete", "write", "read", "rw", "riops", "final", "wipe"}
<1>1. DOMAIN Order = 1..8
    BY DEF Order
<1>2. 1..8 = {1, 2, 3, 4, 5, 6, 7, 8}
    OBVIOUS
<1> QED
    BY <1>1, <1>2 DEF Phases, Order

LEMMA PCsAre ==
    ASSUME NEW l, NEW p
    PROVE  PCsOf(l, p) \subseteq JobPCs
    BY DEF PCsOf, JobPCs

LEMMA GotoIs ==
    ASSUME job \in [Lanes -> Jobs], NEW l \in Lanes, NEW pc \in JobPCs, Goto(l, pc)
    PROVE  To(l, pc, job[l].file, job[l].files)
    BY DEF Goto, To, Jobs

LEMMA GotoWithIs ==
    ASSUME job \in [Lanes -> Jobs], NEW l \in Lanes, NEW pc \in JobPCs,
           NEW file \in OneFile, GotoWith(l, pc, file)
    PROVE  To(l, pc, file, job[l].files)
    BY DEF GotoWith, To, Jobs

LEMMA PickIs ==
    ASSUME job \in [Lanes -> Jobs], NEW l \in Lanes, NEW files \in SUBSET Files,
           PickFrom(l, files)
    PROVE  \E f \in files : To(l, "openRead", {f}, files)
<1>1. PICK f \in files :
          job' = [job EXCEPT ![l].pc = "openRead", ![l].file = {f}, ![l].files = files]
    BY DEF PickFrom
<1>2. {f} \in OneFile /\ "openRead" \in JobPCs
    BY DEF OneFile, JobPCs
<1>3. To(l, "openRead", {f}, files)
    BY <1>1, <1>2 DEF To, Jobs
<1> QED
    BY <1>3

LEMMA TakeIs ==
    ASSUME job \in [Lanes -> Jobs], NEW l \in Lanes,
           job' = [job EXCEPT ![l].pc = "take", ![l].files = {}]
    PROVE  To(l, "take", job[l].file, {})
<1>1. "take" \in JobPCs
    BY DEF JobPCs
<1> QED
    BY <1>1 DEF To, Jobs

LEMMA OffIs ==
    ASSUME job \in [Lanes -> Jobs], NEW l \in Lanes, job' = [job EXCEPT ![l] = Off]
    PROVE  To(l, "off", {}, {})
<1>1. "off" \in JobPCs /\ {} \in OneFile
    BY DEF JobPCs, OneFile
<1> QED
    BY <1>1 DEF To, Jobs, Off

LEMMA ToKeepsLanes ==
    ASSUME LanesOK, NEW l \in Lanes, NEW pc, NEW file, NEW files,
           To(l, pc, file, files), LaneOK(l, pc, file, phase), phase' = phase
    PROVE  LanesOK'
<1> SUFFICES ASSUME NEW k \in Lanes
             PROVE  LaneOK(k, job'[k].pc, job'[k].file, phase')
    BY DEF LanesOK
<1> QED
    BY DEF To, LanesOK

LEMMA PutKeepsDisk ==
    ASSUME disk \in [Files -> Contents], NEW file, NEW what \in Contents, Put(file, what)
    PROVE  disk' \in [Files -> Contents]
    BY DEF Put

LEMMA CloseKeepsDisk ==
    ASSUME disk \in [Files -> Contents], NEW l, Close(l)
    PROVE  disk' \in [Files -> Contents]
    BY DEF Close, Contents

LEMMA AppendAdds ==
    ASSUME NEW q \in Seq(Nat), NEW f \in Nat
    PROVE  Append(q, f) \in Seq(Nat) /\ ToSet(Append(q, f)) = ToSet(q) \cup {f}
<1>1. /\ Append(q, f) \in Seq(Nat)
      /\ DOMAIN Append(q, f) = 1..(Len(q) + 1)
      /\ DOMAIN q = 1..Len(q)
      /\ Append(q, f)[Len(q) + 1] = f
      /\ \A i \in 1..Len(q) : Append(q, f)[i] = q[i]
      /\ Len(q) \in Nat
    OBVIOUS
<1>2. \A i \in 1..(Len(q) + 1) : i \in 1..Len(q) \/ i = Len(q) + 1
    BY <1>1
<1>3. \A i \in 1..Len(q) : i \in 1..(Len(q) + 1)
    BY <1>1
<1>4. Len(q) + 1 \in 1..(Len(q) + 1)
    BY <1>1
<1> QED
    BY <1>1, <1>2, <1>3, <1>4 DEF ToSet

LEMMA AddAdds ==
    ASSUME NEW l \in Ledgers, NEW f \in Nat
    PROVE  /\ Add(l, f) \in Ledgers
           /\ Add(l, f).bwIndices = l.bwIndices
           /\ ToSet(Add(l, f).indices) = ToSet(l.indices) \cup {f}
           /\ Add(l, f).next = IF f >= l.next THEN f + 1 ELSE l.next
           /\ AddBW(l, f) \in Ledgers
           /\ ToSet(AddBW(l, f).bwIndices) = ToSet(l.bwIndices) \cup {f}
           /\ AddBW(l, f).indices = Add(l, f).indices
           /\ AddBW(l, f).next = Add(l, f).next
<1>1. /\ Append(l.indices, f) \in Seq(Nat)
      /\ ToSet(Append(l.indices, f)) = ToSet(l.indices) \cup {f}
      /\ Append(l.bwIndices, f) \in Seq(Nat)
      /\ ToSet(Append(l.bwIndices, f)) = ToSet(l.bwIndices) \cup {f}
    BY AppendAdds DEF Ledgers
<1>2. /\ Add(l, f) \in Ledgers
      /\ Add(l, f).bwIndices = l.bwIndices
      /\ Add(l, f).indices = Append(l.indices, f)
      /\ Add(l, f).next = IF f >= l.next THEN f + 1 ELSE l.next
  <2> DEFINE q == Append(l.indices, f)
             n == IF f >= l.next THEN f + 1 ELSE l.next
  <2>1. Add(l, f) = [l EXCEPT !.indices = q, !.next = n]
    BY DEF Add
  <2>2. q \in Seq(Nat) /\ n \in Nat
    BY <1>1 DEF Ledgers
  <2> HIDE DEF q, n
  <2>3. /\ Add(l, f) \in Ledgers
        /\ Add(l, f).bwIndices = l.bwIndices
        /\ Add(l, f).indices = q
        /\ Add(l, f).next = n
    BY <2>1, <2>2 DEF Ledgers
  <2> QED
    BY <2>3 DEF q, n
<1>3. /\ AddBW(l, f) \in Ledgers
      /\ AddBW(l, f).bwIndices = Append(l.bwIndices, f)
      /\ AddBW(l, f).indices = Add(l, f).indices
      /\ AddBW(l, f).next = Add(l, f).next
  <2> DEFINE a == Add(l, f)
             q == Append(a.bwIndices, f)
  <2>1. AddBW(l, f) = [a EXCEPT !.bwIndices = q]
    BY DEF AddBW
  <2>2. q \in Seq(Nat) /\ a \in Ledgers /\ q = Append(l.bwIndices, f)
    BY <1>1, <1>2
  <2> HIDE DEF a, q
  <2>3. /\ AddBW(l, f) \in Ledgers
        /\ AddBW(l, f).bwIndices = q
        /\ AddBW(l, f).indices = a.indices
        /\ AddBW(l, f).next = a.next
    BY <2>1, <2>2 DEF Ledgers
  <2> QED
    BY <2>2, <2>3 DEF a
<1> QED
    BY <1>1, <1>2, <1>3

LEMMA AddKeepsLedger ==
    ASSUME LedgerInv, NEW f \in Indices,
           \/ ledger' = Add(ledger, f)
           \/ ledger' = AddBW(ledger, f)
    PROVE  /\ LedgerInv'
           /\ ToSet(ledger'.indices) = ToSet(ledger.indices) \cup {f}
           /\ ledger'.next >= ledger.next
<1>1. f \in Nat /\ f < MaxIndex /\ MaxIndex \in Nat
    BY WorkerAssumption DEF Indices
<1>2. ledger \in Ledgers /\ ledger.next \in Nat
    BY DEF LedgerInv, Ledgers
<1>3. /\ ledger' \in Ledgers
      /\ ToSet(ledger'.indices) = ToSet(ledger.indices) \cup {f}
      /\ ledger'.next = IF f >= ledger.next THEN f + 1 ELSE ledger.next
      /\ ToSet(ledger'.bwIndices) \subseteq ToSet(ledger.bwIndices) \cup {f}
  <2>1. CASE ledger' = Add(ledger, f)
    BY <1>1, <1>2, <2>1, AddAdds
  <2>2. CASE ledger' = AddBW(ledger, f)
    <3> DEFINE a == Add(ledger, f)
               b == AddBW(ledger, f)
    <3>1. /\ ToSet(a.indices) = ToSet(ledger.indices) \cup {f}
          /\ a.next = IF f >= ledger.next THEN f + 1 ELSE ledger.next
      BY <1>1, <1>2, AddAdds
    <3>2. /\ b \in Ledgers
          /\ ToSet(b.bwIndices) = ToSet(ledger.bwIndices) \cup {f}
          /\ b.indices = a.indices
          /\ b.next = a.next
      BY <1>1, <1>2, AddAdds
    <3> HIDE DEF a
    <3>3. ledger' = b
      BY <2>2
    <3> HIDE DEF b
    <3> QED
      BY <3>1, <3>2, <3>3
  <2> QED
    BY <2>1, <2>2
<1>4. \A g \in ToSet(ledger.indices) : g \in Nat
    BY <1>2, SeqOfItsSet DEF Ledgers
<1>5. ledger'.next <= MaxIndex /\ ledger'.next >= ledger.next /\ f < ledger'.next
    BY <1>1, <1>2, <1>3 DEF LedgerInv
<1>6. ledger'.next \in Nat
    BY <1>3 DEF Ledgers
<1>7. \A g \in ToSet(ledger'.indices) : g < ledger'.next
    BY <1>2, <1>3, <1>4, <1>5, <1>6 DEF LedgerInv
<1> QED
    BY <1>3, <1>5, <1>7 DEF LedgerInv

LEMMA TakeKeepsLedger ==
    ASSUME LedgerInv, ledger.next < MaxIndex, ledger' = TakeIndex(ledger)
    PROVE  /\ LedgerInv'
           /\ ledger'.indices = ledger.indices
           /\ ledger'.bwIndices = ledger.bwIndices
           /\ ledger'.next = ledger.next + 1
           /\ ledger.next \in Indices
<1>1. ledger \in Ledgers /\ ledger.next \in Nat /\ MaxIndex \in Nat
    BY WorkerAssumption DEF LedgerInv, Ledgers
<1>2. /\ ledger' \in Ledgers
      /\ ledger'.indices = ledger.indices
      /\ ledger'.bwIndices = ledger.bwIndices
      /\ ledger'.next = ledger.next + 1
  <2> DEFINE n == ledger.next + 1
  <2>1. ledger' = [ledger EXCEPT !.next = n] /\ n \in Nat
    BY <1>1 DEF TakeIndex
  <2> HIDE DEF n
  <2>2. /\ ledger' \in Ledgers
        /\ ledger'.indices = ledger.indices
        /\ ledger'.bwIndices = ledger.bwIndices
        /\ ledger'.next = n
    BY <1>1, <2>1 DEF Ledgers
  <2> QED
    BY <2>2 DEF n
<1>3. \A g \in ToSet(ledger.indices) : g \in Nat
    BY <1>1, SeqOfItsSet DEF Ledgers
<1> QED
    BY <1>1, <1>2, <1>3 DEF LedgerInv, Indices

LEMMA NewLedger ==
    ASSUME ledger' = NewFileLedger
    PROVE  LedgerInv'
<1>1. << >> \in Seq(Nat) /\ ToSet(<< >>) = {}
    BY DEF ToSet
<1>2. /\ ledger' \in Ledgers
      /\ ledger'.indices = << >> /\ ledger'.bwIndices = << >> /\ ledger'.next = 0
    BY <1>1 DEF NewFileLedger, Ledgers
<1> QED
    BY <1>1, <1>2, WorkerAssumption DEF LedgerInv

LEMMA PreparedKeepsLedger ==
    ASSUME LedgerInv, NEW p, ledger' = Prepared(p, ledger)
    PROVE  /\ LedgerInv'
           /\ ledger'.indices = ledger.indices
           /\ ledger'.next = ledger.next
           /\ ledger'.bwIndices = IF p = "create" THEN << >> ELSE ledger.bwIndices
<1>1. ledger \in Ledgers
    BY DEF LedgerInv
<1>2. << >> \in Seq(Nat) /\ ToSet(<< >>) = {}
    BY DEF ToSet
<1>3. /\ ledger' \in Ledgers
      /\ ledger'.indices = ledger.indices
      /\ ledger'.next = ledger.next
      /\ ledger'.bwIndices = IF p = "create" THEN << >> ELSE ledger.bwIndices
    BY <1>1, <1>2 DEF Prepared, ClearBW, ResetDeleteCursor, Ledgers
<1> QED
    BY <1>2, <1>3 DEF LedgerInv

LEMMA ScanKeepsLedger ==
    ASSUME LedgerInv, NEW there \in SUBSET Files, NEW remove \in BOOLEAN,
           ledger' = NextExistingPath(ledger, there, remove).ledger
    PROVE  /\ LedgerInv'
           /\ ToSet(ledger'.indices) \subseteq ToSet(ledger.indices)
           /\ ledger'.bwIndices = ledger.bwIndices
           /\ ledger'.next = ledger.next
           /\ NextExistingPath(ledger, there, remove).found \in OneFile
<1>1. ledger \in Ledgers
    BY DEF LedgerInv
<1> DEFINE r == NextExistingPath(ledger, there, remove)
<1>2. Yields(ledger, there, r)
    BY <1>1, ScanYields
<1> HIDE DEF r
<1>3. r.found \in OneFile
    BY <1>2 DEF OneFile, NoFile, Yields
<1>4. ledger' = r.ledger
    BY DEF r
<1>5. LedgerInv'
    BY <1>2, <1>4 DEF LedgerInv, Yields
<1> QED
    BY <1>2, <1>3, <1>4, <1>5 DEF r, Yields

-----------------------------------------------------------------------------
Rest == <<phase, cancelled, main, counters, ghosts>>

LEMMA LaneKeepsShape ==
    ASSUME ShapeInv, NEW l \in Lanes, NEW pc, NEW file, NEW files,
           To(l, pc, file, files), LaneOK(l, pc, file, phase),
           disk' \in [Files -> Contents], LedgerInv', UNCHANGED Rest
    PROVE  ShapeInv'
<1>1. LanesOK'
    BY ToKeepsLanes DEF ShapeInv, Rest
<1>2. TypeOK'
    BY DEF ShapeInv, TypeOK, LedgerInv, To, Jobs, Rest, counters, ghosts
<1> QED
    BY <1>1, <1>2 DEF ShapeInv

LEMMA BeginKeepsShape ==
    ASSUME ShapeInv, NEW p \in Phases, Begin(p), main' = main, disk' \in [Files -> Contents],
           run' \in 0..MaxRuns, stops' = stops, created' \in BOOLEAN
    PROVE  ShapeInv'
<1>1. LedgerInv'
    BY PreparedKeepsLedger DEF ShapeInv, Begin
<1>2. \A l \in Lanes : job'[l] = IF l \in LanesOf(p) THEN [Off EXCEPT !.pc = FirstStep(p)]
                                                      ELSE Off
    BY DEF Begin
<1>3. FirstStep(p) \in {"wipe", "prep", "check"}
    BY Zenon DEF FirstStep
<1>4. job' \in [Lanes -> Jobs]
  <2>1. {"off", "wipe", "prep", "check"} \subseteq JobPCs /\ {} \in OneFile
    BY DEF JobPCs, OneFile
  <2> QED
    BY <1>3, <2>1 DEF Begin, Off, Jobs
<1>5. TypeOK'
    BY <1>1, <1>4 DEF ShapeInv, TypeOK, LedgerInv, Jobs, Begin
<1>6. LanesOK'
  <2> SUFFICES ASSUME NEW l \in Lanes
               PROVE  LaneOK(l, job'[l].pc, job'[l].file, p)
    BY DEF LanesOK, Begin
  <2>1. job'[l].file = {}
    BY <1>2 DEF Off
  <2>2. CASE l \in LanesOf(p)
    <3>1. job'[l].pc = FirstStep(p)
      BY <1>2, <2>2 DEF Off
    <3>2. l = "writer" \/ l = "reader"
      BY DEF Lanes
    <3>3. FirstStep(p) \in PCsOf(l, p)
      BY <2>2, <3>2, PhasesAre DEF PCsOf, FirstStep, LanesOf
    <3> QED
      BY <1>3, <2>1, <3>1, <3>3 DEF LaneOK, Makes
  <2>3. CASE l \notin LanesOf(p)
    <3>1. job'[l].pc = "off"
      BY <1>2, <2>3 DEF Off
    <3> QED
      BY <2>1, <3>1 DEF LaneOK, PCsOf, Makes
  <2> QED
    BY <2>2, <2>3
<1> QED
    BY <1>1, <1>5, <1>6 DEF ShapeInv

LEMMA ShapeInitially ==
    ASSUME Init
    PROVE  ShapeInv
<1>1. LedgerInv
  <2>1. << >> \in Seq(Nat) /\ ToSet(<< >>) = {}
    BY DEF ToSet
  <2>2. /\ ledger \in Ledgers
        /\ ledger.indices = << >> /\ ledger.bwIndices = << >> /\ ledger.next = 0
    BY <2>1 DEF Init, NewFileLedger, Ledgers
  <2> QED
    BY <2>1, <2>2, WorkerAssumption DEF LedgerInv
<1>2. job \in [Lanes -> Jobs]
  <2>1. "off" \in JobPCs /\ {} \in OneFile
    BY DEF JobPCs, OneFile
  <2> QED
    BY <2>1 DEF Init, Off, Jobs
<1>3. TypeOK
  <2>1. 0 \in 0..MaxRuns /\ 0 \in 0..MaxStops
    BY WorkerAssumption
  <2>2. disk \in [Files -> Contents]
    BY DEF Init, NothingOnDisk, Contents
  <2> QED
    BY <1>1, <1>2, <2>1, <2>2 DEF Init, TypeOK, LedgerInv, Jobs
<1>4. LanesOK
    BY DEF Init, LanesOK, LaneOK, PCsOf, Makes, Off
<1> QED
    BY <1>1, <1>3, <1>4 DEF ShapeInv

-----------------------------------------------------------------------------
(***************************************************************************)
(* The indices of the files that are being made are fresh, and what the    *)
(* ledger lists is whole.                                                  *)
(***************************************************************************)

Bandwidth == {"write", "read", "rw"}

\* The file that a lane holds: it has the index, and the ledger does not list it.
HeldAt(l, pc, file) == IF pc \in Makes \/ (l = "writer" /\ pc = "check") THEN file ELSE {}
Held(l) == HeldAt(l, job[l].pc, job[l].file)

FreshInv ==
    ~hit => /\ \A l \in Lanes : /\ Held(l) \cap ToSet(ledger.indices) = {}
                                /\ \A f \in Held(l) : f < ledger.next
            /\ Held("writer") \cap Held("reader") = {}

\* What is on the disk of the file at pc.
BackedAt(l, pc, file, content) ==
    /\ pc = "chunk" \/ (l = "writer" /\ pc = "check") => \A f \in file : content[f] = l
    /\ pc = "add" => \A f \in file : content[f] = "whole"
Backed(l) == BackedAt(l, job[l].pc, job[l].file, disk)

Listed == ToSet(ledger.bwIndices)
ReadsListed(pc, file, files) ==
    /\ files \subseteq Listed
    /\ pc = "openRead" => file \subseteq Listed

WholeInv ==
    created =>
       /\ main = "read" /\ ~hit
       /\ phase \in {"create", "delete"} => ledger.bwIndices = << >>
       /\ phase \in Bandwidth =>
            /\ Listed \subseteq ToSet(ledger.indices)
            /\ \A f \in Listed : disk[f] = "whole"
            /\ ReadsListed(job["reader"].pc, job["reader"].file, job["reader"].files)
            /\ \A l \in Lanes : Backed(l)

WorkerInv == ShapeInv /\ FreshInv /\ WholeInv

-----------------------------------------------------------------------------
\* What a step of lane l has to see to.
KeepsFresh(l, pc, file) ==
    ~hit => /\ \A f \in HeldAt(l, pc, file) : /\ f < ledger'.next
                                              /\ f \notin ToSet(ledger'.indices)
            /\ \A k \in Lanes \ {l} : /\ Held(k) \cap HeldAt(l, pc, file) = {}
                                      /\ Held(k) \cap ToSet(ledger'.indices) = {}
                                      /\ \A f \in Held(k) : f < ledger'.next

KeepsWhole(l, pc, file, files) ==
    created =>
       /\ phase \in {"create", "delete"} => ledger'.bwIndices = ledger.bwIndices
       /\ phase \in Bandwidth =>
            /\ Listed' \subseteq ToSet(ledger'.indices)
            /\ \A f \in Listed' : disk'[f] = "whole"
            /\ Listed \subseteq Listed'
            /\ l = "reader" => files \subseteq Listed' /\ (pc = "openRead" => file \subseteq Listed')
            /\ BackedAt(l, pc, file, disk')
            /\ \A k \in Lanes \ {l} : BackedAt(k, job[k].pc, job[k].file, disk')

LEMMA LaneKeepsFresh ==
    ASSUME FreshInv, NEW l \in Lanes, NEW pc, NEW file, NEW files,
           To(l, pc, file, files), KeepsFresh(l, pc, file), hit' = hit
    PROVE  FreshInv'
<1> SUFFICES ASSUME ~hit
             PROVE  FreshInv'
    BY DEF FreshInv
<1>1. Held(l)' = HeldAt(l, pc, file)
    BY DEF Held, HeldAt, To
<1>2. \A k \in Lanes \ {l} : Held(k)' = Held(k)
    BY DEF Held, HeldAt, To
<1>3. ASSUME NEW k \in Lanes
      PROVE  /\ Held(k)' \cap ToSet(ledger'.indices) = {}
             /\ \A f \in Held(k)' : f < ledger'.next
  <2>1. CASE k = l
    BY <1>1, <2>1 DEF KeepsFresh
  <2>2. CASE k # l
    BY <1>2, <2>2 DEF KeepsFresh
  <2> QED
    BY <2>1, <2>2
<1>4. Held("writer")' \cap Held("reader")' = {}
  <2>1. CASE l = "writer"
    BY <1>1, <1>2, <2>1 DEF KeepsFresh, Lanes
  <2>2. CASE l = "reader"
    BY <1>1, <1>2, <2>2 DEF KeepsFresh, Lanes
  <2> QED
    BY <2>1, <2>2 DEF Lanes
<1> QED
    BY <1>3, <1>4 DEF FreshInv

LEMMA LaneKeepsWhole ==
    ASSUME WholeInv, NEW l \in Lanes, NEW pc, NEW file, NEW files,
           To(l, pc, file, files), KeepsWhole(l, pc, file, files), UNCHANGED Rest
    PROVE  WholeInv'
<1> SUFFICES ASSUME created
             PROVE  WholeInv'
    BY DEF WholeInv, Rest, ghosts
<1>1. main' = "read" /\ ~hit' /\ phase' = phase /\ created'
    BY DEF WholeInv, Rest, ghosts
<1>2. phase \in {"create", "delete"} => ledger'.bwIndices = << >>
    BY DEF WholeInv, KeepsWhole
<1>3. ASSUME phase \in Bandwidth
      PROVE  ReadsListed(job["reader"].pc, job["reader"].file, job["reader"].files)'
  <2>1. CASE l = "reader"
    BY <1>3, <2>1 DEF KeepsWhole, To, ReadsListed
  <2>2. CASE l # "reader"
    <3>1. job'["reader"] = job["reader"]
      BY <2>2 DEF To, Lanes
    <3> QED
      BY <1>3, <3>1 DEF KeepsWhole, WholeInv, ReadsListed
  <2> QED
    BY <2>1, <2>2
<1>4. ASSUME phase \in Bandwidth, NEW k \in Lanes
      PROVE  Backed(k)'
  <2>1. CASE k = l
    BY <1>4, <2>1 DEF KeepsWhole, To, Backed, BackedAt
  <2>2. CASE k # l
    <3>1. job'[k] = job[k]
      BY <2>2 DEF To
    <3> QED
      BY <1>4, <2>2, <3>1 DEF KeepsWhole, Backed, BackedAt
  <2> QED
    BY <2>1, <2>2
<1>5. phase \in Bandwidth => /\ Listed' \subseteq ToSet(ledger'.indices)
                             /\ \A f \in Listed' : disk'[f] = "whole"
    BY DEF KeepsWhole
<1> QED
    BY <1>1, <1>2, <1>3, <1>4, <1>5 DEF WholeInv

\* A step that hands out no index and lists no file.
LEMMA QuietKeepsFresh ==
    ASSUME FreshInv, NEW l \in Lanes, NEW pc, NEW file,
           HeldAt(l, pc, file) \subseteq Held(l),
           ToSet(ledger'.indices) \subseteq ToSet(ledger.indices),
           ledger'.next = ledger.next
    PROVE  KeepsFresh(l, pc, file)
    BY DEF FreshInv, KeepsFresh, Lanes

\* A step that changes neither what is listed nor what is on disk.
LEMMA QuietKeepsWhole ==
    ASSUME WholeInv, NEW l \in Lanes, NEW pc, NEW file, NEW files,
           disk' = disk, ledger'.bwIndices = ledger.bwIndices,
           phase \in Bandwidth => ledger'.indices = ledger.indices,
           created /\ phase \in Bandwidth =>
               /\ l = "reader" => ReadsListed(pc, file, files)
               /\ BackedAt(l, pc, file, disk)
    PROVE  KeepsWhole(l, pc, file, files)
<1> SUFFICES ASSUME created
             PROVE  KeepsWhole(l, pc, file, files)
    BY DEF KeepsWhole
<1>1. Listed' = Listed
    BY DEF Listed
<1>2. \A k \in Lanes : Backed(k) => BackedAt(k, job[k].pc, job[k].file, disk')
    BY DEF Backed, BackedAt
<1> QED
    BY <1>1, <1>2 DEF WholeInv, KeepsWhole, ReadsListed, BackedAt

\* A step of a phase without bandwidth files.
LEMMA OtherKeepsWhole ==
    ASSUME NEW l, NEW pc, NEW file, NEW files, phase \notin Bandwidth,
           ledger'.bwIndices = ledger.bwIndices \/ phase \notin {"create", "delete"}
    PROVE  KeepsWhole(l, pc, file, files)
    BY DEF KeepsWhole

\* A lane closes its file.
LEMMA CloseKeepsWhole ==
    ASSUME ShapeInv, WholeInv, NEW l \in Lanes, NEW pc, NEW files, ledger' = ledger, Close(l),
           pc # "openRead",
           created /\ phase \in Bandwidth /\ l = "reader" => files \subseteq Listed
    PROVE  KeepsWhole(l, pc, {}, files)
<1> SUFFICES ASSUME created
             PROVE  KeepsWhole(l, pc, {}, files)
    BY DEF KeepsWhole
<1>1. Listed' = Listed
    BY DEF Listed
<1>2. Listed \subseteq Files
    BY DEF Listed, ShapeInv, LedgerInv, Files
<1>3. ASSUME phase \in Bandwidth
      PROVE  \A f \in Listed : disk'[f] = "whole"
    BY <1>2, <1>3 DEF WholeInv, Close, Lanes
<1>4. ASSUME phase \in Bandwidth, NEW k \in Lanes \ {l}
      PROVE  BackedAt(k, job[k].pc, job[k].file, disk')
  <2>1. job[k].file \subseteq Files
    BY DEF ShapeInv, TypeOK, OneFile
  <2>2. BackedAt(k, job[k].pc, job[k].file, disk)
    BY <1>4 DEF WholeInv, Backed
  <2>3. \A f \in Files : disk[f] \in {k, "whole"} => disk'[f] = disk[f]
    BY DEF Close, Lanes
  <2> QED
    BY <2>1, <2>2, <2>3 DEF BackedAt
<1> QED
    BY <1>1, <1>3, <1>4 DEF WholeInv, KeepsWhole, BackedAt

\* A lane opens its file, or fails to.
LEMMA PutKeepsWhole ==
    ASSUME ShapeInv, FreshInv, WholeInv, NEW l \in Lanes, NEW pc, NEW file,
           ledger' = ledger, NEW what, disk' = disk \/ Put(Held(l), what),
           pc \in {"chunk", "check"}, pc = "chunk" => Put(Held(l), l) /\ file = Held(l),
           pc = "check" => file = {}
    PROVE  KeepsWhole(l, pc, file, job[l].files)
<1> SUFFICES ASSUME created
             PROVE  KeepsWhole(l, pc, file, job[l].files)
    BY DEF KeepsWhole
<1>1. Listed' = Listed
    BY DEF Listed
<1>2. Listed \subseteq Files
    BY DEF Listed, ShapeInv, LedgerInv, Files
<1>3. ~hit
    BY DEF WholeInv
<1>4. \A f \in Files \ Held(l) : disk'[f] = disk[f]
    BY DEF Put
<1>5. ASSUME phase \in Bandwidth
      PROVE  \A f \in Listed : disk'[f] = "whole"
    BY <1>2, <1>3, <1>4, <1>5 DEF WholeInv, FreshInv
<1>6. ASSUME phase \in Bandwidth, NEW k \in Lanes \ {l}
      PROVE  BackedAt(k, job[k].pc, job[k].file, disk')
  <2>1. job[k].file \subseteq Files
    BY DEF ShapeInv, TypeOK, OneFile
  <2>2. BackedAt(k, job[k].pc, job[k].file, disk)
    BY <1>6 DEF WholeInv, Backed
  <2>3. Held(k) \cap Held(l) = {}
    BY <1>3 DEF FreshInv, Lanes
  <2>4. \A f \in Held(k) : f \in Files => disk'[f] = disk[f]
    BY <1>4, <2>3
  <2> QED
    BY <2>1, <2>2, <2>4 DEF BackedAt, Held, HeldAt, Makes
<1>7. pc = "chunk" => \A f \in file : disk'[f] = l
  <2>1. Held(l) \subseteq Files
    BY DEF Held, HeldAt, ShapeInv, TypeOK, OneFile
  <2> QED
    BY <2>1 DEF Put
<1>8. phase \in Bandwidth /\ l = "reader" => job[l].files \subseteq Listed
    BY DEF WholeInv, ReadsListed
<1> QED
    BY <1>1, <1>5, <1>6, <1>7, <1>8 DEF WholeInv, KeepsWhole, BackedAt

\* A lane has written the whole of its file.
LEMMA FinishKeepsWhole ==
    ASSUME ShapeInv, WholeInv, NEW l \in Lanes, At(l, "chunk"), ledger' = ledger,
           disk' = [f \in Files |-> IF disk[f] = l THEN "whole" ELSE disk[f]]
    PROVE  KeepsWhole(l, "add", job[l].file, job[l].files)
<1> SUFFICES ASSUME created
             PROVE  KeepsWhole(l, "add", job[l].file, job[l].files)
    BY DEF KeepsWhole
<1>1. Listed' = Listed
    BY DEF Listed
<1>2. Listed \subseteq Files
    BY DEF Listed, ShapeInv, LedgerInv, Files
<1>3. ASSUME phase \in Bandwidth
      PROVE  \A f \in Listed : disk'[f] = "whole"
    BY <1>2, <1>3 DEF WholeInv
<1>4. ASSUME phase \in Bandwidth, NEW k \in Lanes \ {l}
      PROVE  BackedAt(k, job[k].pc, job[k].file, disk')
  <2>1. job[k].file \subseteq Files
    BY DEF ShapeInv, TypeOK, OneFile
  <2>2. BackedAt(k, job[k].pc, job[k].file, disk)
    BY <1>4 DEF WholeInv, Backed
  <2>3. \A f \in Files : disk[f] \in {k, "whole"} => disk'[f] = disk[f]
    BY DEF Lanes
  <2> QED
    BY <2>1, <2>2, <2>3 DEF BackedAt
<1>5. phase \in Bandwidth => BackedAt(l, "add", job[l].file, disk')
  <2>1. job[l].file \subseteq Files
    BY DEF ShapeInv, TypeOK, OneFile
  <2> QED
    BY <2>1 DEF WholeInv, Backed, BackedAt, At
<1>6. phase \in Bandwidth /\ l = "reader" => job[l].files \subseteq Listed
    BY DEF WholeInv, ReadsListed
<1> QED
    BY <1>1, <1>3, <1>4, <1>5, <1>6 DEF WholeInv, KeepsWhole

\* A lane lists its file.
LEMMA ListKeepsFresh ==
    ASSUME ShapeInv, FreshInv, NEW l \in Lanes, At(l, "add"), NEW pc, NEW f \in Indices,
           job[l].file = {f},
           ToSet(ledger'.indices) = ToSet(ledger.indices) \cup {f},
           ledger'.next >= ledger.next, ledger'.next \in Nat
    PROVE  KeepsFresh(l, pc, {})
<1> SUFFICES ASSUME ~hit
             PROVE  KeepsFresh(l, pc, {})
    BY DEF KeepsFresh
<1>1. f \in Held(l)
    BY DEF At, Held, HeldAt, Makes
<1>2. HeldAt(l, pc, {}) = {}
    BY DEF HeldAt
<1>3. ASSUME NEW k \in Lanes \ {l}
      PROVE  /\ Held(k) \cap ToSet(ledger'.indices) = {}
             /\ \A g \in Held(k) : g < ledger'.next
  <2>1. f \notin Held(k)
    BY <1>1 DEF FreshInv, Lanes
  <2>2. \A g \in Held(k) : g \in Nat
    BY DEF Held, HeldAt, ShapeInv, LanesOK, LaneOK, Indices
  <2>3. ledger.next \in Nat
    BY DEF ShapeInv, LedgerInv, Ledgers
  <2> QED
    BY <2>1, <2>2, <2>3 DEF FreshInv
<1> QED
    BY <1>2, <1>3 DEF KeepsFresh

LEMMA ListKeepsWhole ==
    ASSUME ShapeInv, WholeInv, NEW l \in Lanes, At(l, "add"), NEW f, job[l].file = {f},
           ledger' = AddBW(ledger, f), disk' = disk, phase \in Bandwidth,
           NEW pc \in {"reread", "check"}, f \in Nat
    PROVE  KeepsWhole(l, pc, {}, job[l].files)
<1> SUFFICES ASSUME created
             PROVE  KeepsWhole(l, pc, {}, job[l].files)
    BY DEF KeepsWhole
<1>1. /\ Listed' = Listed \cup {f}
      /\ ToSet(ledger'.indices) = ToSet(ledger.indices) \cup {f}
  <2>1. ledger \in Ledgers
    BY DEF ShapeInv, LedgerInv
  <2>2. /\ ToSet(AddBW(ledger, f).bwIndices) = ToSet(ledger.bwIndices) \cup {f}
        /\ ToSet(Add(ledger, f).indices) = ToSet(ledger.indices) \cup {f}
        /\ AddBW(ledger, f).indices = Add(ledger, f).indices
    BY <2>1, AddAdds
  <2> QED
    BY <2>2 DEF Listed
<1>2. disk[f] = "whole"
    BY DEF WholeInv, Backed, BackedAt, At
<1>3. \A k \in Lanes : BackedAt(k, job[k].pc, job[k].file, disk')
    BY DEF WholeInv, Backed
<1>4. phase \notin {"create", "delete"}
    BY DEF Bandwidth
<1>5. l = "reader" => job[l].files \subseteq Listed
    BY DEF WholeInv, ReadsListed
<1> QED
    BY <1>1, <1>2, <1>3, <1>4, <1>5 DEF WholeInv, KeepsWhole, BackedAt

LEMMA TakeKeepsFresh ==
    ASSUME ShapeInv, FreshInv, NEW l \in Lanes, NEW pc,
           ledger'.indices = ledger.indices, ledger'.next = ledger.next + 1
    PROVE  KeepsFresh(l, pc, {ledger.next})
<1> SUFFICES ASSUME ~hit
             PROVE  KeepsFresh(l, pc, {ledger.next})
    BY DEF KeepsFresh
<1> DEFINE n == ledger.next
<1>1. n \in Nat /\ \A g \in ToSet(ledger.indices) : g < n
    BY DEF ShapeInv, LedgerInv, Ledgers
<1>2. HeldAt(l, pc, {n}) \subseteq {n}
    BY DEF HeldAt
<1>3. n \notin ToSet(ledger.indices)
    BY <1>1
<1>4. \A k \in Lanes : \A g \in Held(k) : g \in Nat /\ g < n
    BY DEF Held, HeldAt, ShapeInv, LanesOK, LaneOK, Indices, FreshInv
<1> HIDE DEF n
<1>5. \A k \in Lanes : n \notin Held(k) /\ \A g \in Held(k) : g < n + 1
    BY <1>1, <1>4
<1>6. n < n + 1
    BY <1>1
<1>7. ledger'.next = n + 1
    BY DEF n
<1>8. KeepsFresh(l, pc, {n})
    BY <1>2, <1>3, <1>5, <1>6, <1>7 DEF KeepsFresh, FreshInv
<1> QED
    BY <1>8 DEF n

LEMMA ClearKeepsFresh ==
    ASSUME ShapeInv, NEW l \in Lanes, At(l, "wiped")
    PROVE  phase = "wipe" /\ KeepsFresh(l, "off", {})
<1>1. LaneOK(l, "wiped", job[l].file, phase)
    BY DEF ShapeInv, LanesOK, At
<1>2. l = "writer" /\ phase = "wipe"
    BY <1>1 DEF LaneOK, PCsOf
<1>3. job["reader"].pc = "off"
    BY <1>2 DEF ShapeInv, LanesOK, LaneOK, PCsOf, Lanes
<1>4. \A k \in Lanes \ {l} : Held(k) = {}
    BY <1>2, <1>3 DEF Held, HeldAt, Makes, Lanes
<1>5. HeldAt(l, "off", {}) = {}
    BY DEF HeldAt
<1> QED
    BY <1>2, <1>4, <1>5 DEF KeepsFresh

-----------------------------------------------------------------------------
LEMMA LaneKeepsAll ==
    ASSUME WorkerInv, NEW l \in Lanes, NEW pc, NEW file, NEW files,
           To(l, pc, file, files), LaneOK(l, pc, file, phase),
           disk' \in [Files -> Contents], LedgerInv', UNCHANGED Rest,
           KeepsFresh(l, pc, file), KeepsWhole(l, pc, file, files)
    PROVE  WorkerInv'
<1>1. ShapeInv'
    BY LaneKeepsShape DEF WorkerInv
<1>2. FreshInv'
    BY LaneKeepsFresh DEF WorkerInv, Rest, ghosts
<1>3. WholeInv'
    BY LaneKeepsWhole DEF WorkerInv
<1> QED
    BY <1>1, <1>2, <1>3 DEF WorkerInv

LEMMA LaneStepKeepsAll ==
    ASSUME WorkerInv, NEW l \in Lanes, Step(l) \/ RemoveFails(l) \/ End(l)
    PROVE  WorkerInv'
<1>1. /\ job \in [Lanes -> Jobs] /\ disk \in [Files -> Contents] /\ LedgerInv
      /\ LaneOK(l, job[l].pc, job[l].file, phase)
      /\ job[l].file \in OneFile /\ job[l].files \in SUBSET Files
    BY DEF WorkerInv, ShapeInv, TypeOK, Jobs, LanesOK
<1>2. UNCHANGED ledger => LedgerInv'
    BY <1>1 DEF LedgerInv
<1>3. {} \in OneFile /\ \A f \in Files : {f} \in OneFile
    BY DEF OneFile
<1>4. l = "writer" \/ l = "reader"
    BY DEF Lanes
<1>5. {"none", "whole", "broken", l} \subseteq Contents
    BY DEF Contents
<1>6. Indices \subseteq Files
    BY DEF Files
<1>7. JobPCs = {"off", "check", "take", "create", "add", "open", "chunk", "next", "reread",
                "openRead", "read", "look", "walk", "remove", "prep", "wipe", "wiped"}
    BY DEF JobPCs
<1>8. ShapeInv /\ FreshInv /\ WholeInv
    BY DEF WorkerInv
<1>9. created /\ phase \in Bandwidth /\ l = "reader" =>
          ReadsListed(job[l].pc, job[l].file, job[l].files) /\ job[l].files \subseteq Listed
    BY DEF WorkerInv, WholeInv, ReadsListed
<1>10. CASE End(l)
  <2>1. To(l, "off", {}, {})
    BY <1>1, <1>10, OffIs DEF End
  <2>2. LaneOK(l, "off", {}, phase)
    BY DEF LaneOK, PCsOf, Makes
  <2>3. disk' \in [Files -> Contents]
    BY <1>1, <1>10, CloseKeepsDisk DEF End
  <2>4. KeepsFresh(l, "off", {})
    BY <1>8, <1>10, QuietKeepsFresh DEF End, HeldAt, Makes
  <2>5. KeepsWhole(l, "off", {}, {})
    BY <1>8, <1>10, CloseKeepsWhole DEF End
  <2> QED
    BY <1>2, <1>10, <2>1, <2>2, <2>3, <2>4, <2>5, LaneKeepsAll DEF End, Rest
<1>11. CASE Go(l)
  <2>1. Turn(l) \in {"read", "next", "chunk", "look", "take"}
    BY Zenon DEF Turn
  <2>2. To(l, Turn(l), job[l].file, job[l].files)
    BY <1>1, <1>7, <1>11, <2>1, GotoIs DEF Go
  <2>3. LaneOK(l, Turn(l), job[l].file, phase)
    BY <1>1, <1>4, <1>11 DEF LaneOK, PCsOf, Makes, Go, At, Turn, OneFile
  <2>4. KeepsFresh(l, Turn(l), job[l].file)
    <3>1. HeldAt(l, Turn(l), job[l].file) \subseteq Held(l)
      BY <1>4, <1>11, <2>1 DEF Go, At, Turn, Held, HeldAt, Makes
    <3> QED
      BY <1>8, <1>11, <3>1, QuietKeepsFresh DEF Go
  <2>5. KeepsWhole(l, Turn(l), job[l].file, job[l].files)
    <3>1. created /\ phase \in Bandwidth => BackedAt(l, Turn(l), job[l].file, disk)
      BY <1>4, <1>8, <1>11, <2>1 DEF WholeInv, Backed, BackedAt, Go, At, Turn
    <3> QED
      BY <1>8, <1>9, <1>11, <2>1, <3>1, QuietKeepsWhole DEF Go, ReadsListed
  <2> QED
    BY <1>1, <1>2, <1>11, <2>2, <2>3, <2>4, <2>5, LaneKeepsAll DEF Go, Rest
<1>12. CASE TakeNextIndex(l)
  <2> DEFINE pc == IF phase = "create" THEN "create" ELSE "open"
             file == {ledger.next}
  <2>1. LedgerInv' /\ ledger.next \in Indices
    BY <1>1, <1>12, TakeKeepsLedger DEF TakeNextIndex
  <2>2. pc \in JobPCs /\ file \in OneFile
    BY <1>3, <1>6, <1>7, <2>1
  <2>3. To(l, pc, file, job[l].files)
    BY <1>1, <1>12, <2>2, GotoWithIs DEF TakeNextIndex
  <2>4. LaneOK(l, pc, file, phase)
    BY <1>1, <1>4, <1>12, <2>1 DEF LaneOK, PCsOf, Makes, TakeNextIndex, At
  <2>5. /\ ledger'.indices = ledger.indices
        /\ ledger'.next = ledger.next + 1
        /\ ledger'.bwIndices = ledger.bwIndices
    BY <1>1, <1>12, TakeKeepsLedger DEF TakeNextIndex
  <2>6. KeepsFresh(l, pc, file)
    <3> HIDE DEF pc
    <3> QED
      BY <1>8, <2>5, TakeKeepsFresh
  <2>7. KeepsWhole(l, pc, file, job[l].files)
    BY <1>8, <1>9, <1>12, <2>5, QuietKeepsWhole
       DEF TakeNextIndex, ReadsListed, BackedAt
  <2> HIDE DEF pc, file
  <2> QED
    BY <1>1, <1>12, <2>1, <2>3, <2>4, <2>6, <2>7, LaneKeepsAll DEF TakeNextIndex, Rest
<1>13. CASE CreateFile(l)
  <2>1. disk' \in [Files -> Contents]
    BY <1>1, <1>5, <1>13, PutKeepsDisk DEF CreateFile
  <2>2. \/ To(l, "add", job[l].file, job[l].files)
        \/ To(l, "check", {}, job[l].files)
    BY <1>1, <1>3, <1>7, <1>13, GotoIs, GotoWithIs DEF CreateFile
  <2>3. LaneOK(l, "add", job[l].file, phase) /\ LaneOK(l, "check", {}, phase)
    BY <1>1, <1>4, <1>13 DEF LaneOK, PCsOf, Makes, CreateFile, At
  <2>4. phase = "create"
    BY <1>1, <1>4, <1>13 DEF LaneOK, PCsOf, CreateFile, At
  <2>5. KeepsFresh(l, "add", job[l].file) /\ KeepsFresh(l, "check", {})
    BY <1>8, <1>13, QuietKeepsFresh DEF CreateFile, At, Held, HeldAt, Makes
  <2>6. \A pc, file : KeepsWhole(l, pc, file, job[l].files)
    BY <1>13, <2>4, OtherKeepsWhole DEF CreateFile, Bandwidth
  <2> QED
    BY <1>1, <1>2, <1>13, <2>1, <2>2, <2>3, <2>5, <2>6, LaneKeepsAll DEF CreateFile,
       Rest
<1>14. CASE OpenFile(l)
  <2>1. disk' \in [Files -> Contents]
    BY <1>1, <1>5, <1>14, PutKeepsDisk DEF OpenFile
  <2>2. \/ To(l, "chunk", job[l].file, job[l].files)
        \/ To(l, "check", {}, job[l].files)
    BY <1>1, <1>3, <1>7, <1>14, GotoIs, GotoWithIs DEF OpenFile
  <2>3. LaneOK(l, "chunk", job[l].file, phase) /\ LaneOK(l, "check", {}, phase)
    BY <1>1, <1>4, <1>14 DEF LaneOK, PCsOf, Makes, OpenFile, At
  <2>4. Held(l) = job[l].file
    BY <1>14 DEF OpenFile, At, Held, HeldAt, Makes
  <2>5. KeepsFresh(l, "chunk", job[l].file) /\ KeepsFresh(l, "check", {})
    BY <1>8, <1>14, <2>4, QuietKeepsFresh DEF OpenFile, HeldAt, Makes
  <2>6. \/ /\ To(l, "chunk", job[l].file, job[l].files)
           /\ KeepsWhole(l, "chunk", job[l].file, job[l].files)
        \/ /\ To(l, "check", {}, job[l].files)
           /\ KeepsWhole(l, "check", {}, job[l].files)
    <3>1. CASE Put(job[l].file, l) /\ Goto(l, "chunk")
      BY <1>1, <1>7, <1>8, <1>14, <2>4, <3>1, PutKeepsWhole, GotoIs DEF OpenFile
    <3>2. CASE /\ disk' = disk \/ Put(job[l].file, "none")
               /\ GotoWith(l, "check", {})
      BY <1>1, <1>3, <1>7, <1>8, <1>14, <2>4, <3>2, PutKeepsWhole, GotoWithIs
         DEF OpenFile
    <3> QED
      BY <1>14, <3>1, <3>2 DEF OpenFile
  <2> QED
    BY <1>1, <1>2, <1>14, <2>1, <2>2, <2>3, <2>5, <2>6, LaneKeepsAll DEF OpenFile, Rest
<1>15. CASE WriteChunk(l)
  <2>1. disk' \in [Files -> Contents]
    BY <1>1, <1>5, <1>15, CloseKeepsDisk DEF WriteChunk
  <2>2. \/ l = "writer" /\ To(l, "check", job[l].file, job[l].files)
        \/ To(l, "add", job[l].file, job[l].files)
        \/ To(l, "check", {}, job[l].files)
    BY <1>1, <1>3, <1>7, <1>15, GotoIs, GotoWithIs DEF WriteChunk
  <2>3. /\ LaneOK(l, "check", job[l].file, phase)
        /\ LaneOK(l, "add", job[l].file, phase)
        /\ LaneOK(l, "check", {}, phase)
    BY <1>1, <1>4, <1>15 DEF LaneOK, PCsOf, Makes, WriteChunk, At
  <2>4. /\ l = "writer" => KeepsFresh(l, "check", job[l].file)
        /\ KeepsFresh(l, "add", job[l].file)
        /\ KeepsFresh(l, "check", {})
    BY <1>8, <1>15, QuietKeepsFresh DEF WriteChunk, At, Held, HeldAt, Makes
  <2>5. \/ /\ l = "writer" /\ To(l, "check", job[l].file, job[l].files)
           /\ KeepsWhole(l, "check", job[l].file, job[l].files)
        \/ /\ To(l, "add", job[l].file, job[l].files)
           /\ KeepsWhole(l, "add", job[l].file, job[l].files)
        \/ /\ To(l, "check", {}, job[l].files)
           /\ KeepsWhole(l, "check", {}, job[l].files)
    <3>1. CASE l = "writer" /\ Goto(l, "check") /\ UNCHANGED disk
      <4>1. created /\ phase \in Bandwidth => BackedAt(l, "check", job[l].file, disk)
        BY <1>8, <1>15 DEF WholeInv, Backed, BackedAt, WriteChunk, At
      <4> QED
        BY <1>1, <1>7, <1>8, <1>15, <3>1, <4>1, QuietKeepsWhole, GotoIs DEF WriteChunk
    <3>2. CASE /\ disk' = [f \in Files |-> IF disk[f] = l THEN "whole" ELSE disk[f]]
               /\ Goto(l, "add")
      BY <1>1, <1>7, <1>8, <1>15, <3>2, FinishKeepsWhole, GotoIs DEF WriteChunk
    <3>3. CASE Close(l) /\ GotoWith(l, "check", {})
      BY <1>1, <1>3, <1>7, <1>8, <1>9, <1>15, <3>3, CloseKeepsWhole, GotoWithIs
         DEF WriteChunk
    <3> QED
      BY <1>15, <3>1, <3>2, <3>3 DEF WriteChunk
  <2> QED
    BY <1>1, <1>2, <1>15, <2>1, <2>2, <2>3, <2>4, <2>5, LaneKeepsAll DEF WriteChunk,
       Rest
<1>16. CASE AddFile(l)
  <2> DEFINE pc == IF l = "reader" THEN "reread" ELSE "check"
  <2>1. PICK f \in Indices : job[l].file = {f}
    BY <1>1, <1>16 DEF LaneOK, Makes, AddFile, At
  <2>2. ledger' = Add(ledger, f) \/ ledger' = AddBW(ledger, f)
    BY <1>16, <2>1 DEF AddFile
  <2>3. LedgerInv'
    BY <1>1, <2>2, AddKeepsLedger
  <2>4. To(l, pc, {}, job[l].files)
    BY <1>1, <1>3, <1>7, <1>16, GotoWithIs DEF AddFile
  <2>5. LaneOK(l, pc, {}, phase)
    BY <1>1, <1>4, <1>16 DEF LaneOK, PCsOf, Makes, AddFile, At
  <2>6. KeepsFresh(l, pc, {})
    <3>1. /\ ToSet(ledger'.indices) = ToSet(ledger.indices) \cup {f}
          /\ ledger'.next >= ledger.next
      BY <1>1, <2>2, AddKeepsLedger
    <3>2. ledger'.next \in Nat
      BY <2>3 DEF LedgerInv, Ledgers
    <3> QED
      BY <1>8, <1>16, <2>1, <3>1, <3>2, ListKeepsFresh DEF AddFile
  <2>7. KeepsWhole(l, pc, {}, job[l].files)
    <3>1. f \in Nat /\ ledger \in Ledgers
      BY <1>1 DEF Indices, LedgerInv
    <3>2. CASE phase = "create"
      <4>1. ledger' = Add(ledger, f)
        BY <1>16, <2>1, <3>2 DEF AddFile
      <4>2. ledger'.bwIndices = ledger.bwIndices
        BY <3>1, <4>1, AddAdds
      <4> QED
        BY <3>2, <4>2, OtherKeepsWhole DEF Bandwidth
    <3>3. CASE phase # "create"
      <4>1. ledger' = AddBW(ledger, f)
        BY <1>16, <2>1, <3>3 DEF AddFile
      <4>2. phase \in Bandwidth
        BY <1>1, <1>16, <3>3 DEF LaneOK, PCsOf, AddFile, At, Bandwidth
      <4>3. pc \in {"reread", "check"}
        OBVIOUS
      <4> QED
        BY <1>8, <1>16, <2>1, <3>1, <4>1, <4>2, <4>3, ListKeepsWhole DEF AddFile
    <3> QED
      BY <3>2, <3>3
  <2> HIDE DEF pc
  <2> QED
    BY <1>1, <1>16, <2>3, <2>4, <2>5, <2>6, <2>7, LaneKeepsAll DEF AddFile, Rest
<1>17. CASE NextRead(l)
  <2>1. ToSet(ledger.bwIndices) \in SUBSET Files
    BY <1>1, <1>6 DEF LedgerInv
  <2>2. \/ \E f, files : To(l, "openRead", {f}, files)
        \/ To(l, "take", job[l].file, {})
    BY <1>1, <1>17, <2>1, PickIs, TakeIs DEF NextRead
  <2>3. /\ \A f : LaneOK(l, "openRead", {f}, phase)
        /\ LaneOK(l, "take", job[l].file, phase)
    BY <1>1, <1>4, <1>17 DEF LaneOK, PCsOf, Makes, NextRead, At
  <2>4. /\ \A f : KeepsFresh(l, "openRead", {f})
        /\ KeepsFresh(l, "take", job[l].file)
    BY <1>8, <1>17, QuietKeepsFresh DEF NextRead, HeldAt, Makes
  <2>5. l = "reader"
    BY <1>1, <1>4, <1>17 DEF LaneOK, PCsOf, NextRead, At
  <2>6. ASSUME NEW files \in SUBSET Files, PickFrom(l, files),
               created /\ phase \in Bandwidth => files \subseteq Listed
        PROVE  \E f : To(l, "openRead", {f}, files) /\ KeepsWhole(l, "openRead", {f}, files)
    <3>1. PICK f \in files : To(l, "openRead", {f}, files)
      BY <1>1, <2>6, PickIs
    <3>2. KeepsWhole(l, "openRead", {f}, files)
      BY <1>8, <1>17, <2>6, <3>1, QuietKeepsWhole DEF NextRead, ReadsListed, BackedAt
    <3> QED
      BY <3>1, <3>2
  <2>7. \/ \E f, files : To(l, "openRead", {f}, files) /\ KeepsWhole(l, "openRead", {f}, files)
        \/ To(l, "take", job[l].file, {}) /\ KeepsWhole(l, "take", job[l].file, {})
    <3>1. CASE PickFrom(l, job[l].files)
      BY <1>1, <1>9, <2>5, <2>6, <3>1
    <3>2. CASE PickFrom(l, ToSet(ledger.bwIndices))
      BY <2>1, <2>6, <3>2 DEF Listed
    <3>3. CASE job' = [job EXCEPT ![l].pc = "take", ![l].files = {}]
      <4>1. KeepsWhole(l, "take", job[l].file, {})
        BY <1>8, <1>17, QuietKeepsWhole DEF NextRead, ReadsListed, BackedAt
      <4> QED
        BY <1>1, <3>3, <4>1, TakeIs
    <3> QED
      BY <1>17, <3>1, <3>2, <3>3 DEF NextRead
  <2> QED
    BY <1>1, <1>2, <1>17, <2>2, <2>3, <2>4, <2>7, LaneKeepsAll DEF NextRead, Rest
<1>18. CASE ReadSeed(l)
  <2>1. ToSet(ledger.bwIndices) \in SUBSET Files
    BY <1>1, <1>6 DEF LedgerInv
  <2>2. \/ \E f, files : To(l, "openRead", {f}, files)
        \/ To(l, "check", job[l].file, job[l].files)
    BY <1>1, <1>7, <1>18, <2>1, PickIs, GotoIs DEF ReadSeed
  <2>3. /\ \A f : LaneOK(l, "openRead", {f}, phase)
        /\ LaneOK(l, "check", job[l].file, phase)
    BY <1>1, <1>4, <1>18 DEF LaneOK, PCsOf, Makes, ReadSeed, At
  <2>4. /\ \A f : KeepsFresh(l, "openRead", {f})
        /\ KeepsFresh(l, "check", job[l].file)
    <3>1. l = "reader"
      BY <1>1, <1>4, <1>18 DEF LaneOK, PCsOf, ReadSeed, At
    <3> QED
      BY <1>8, <1>18, <3>1, QuietKeepsFresh DEF ReadSeed, HeldAt, Makes
  <2>5. l = "reader"
    BY <1>1, <1>4, <1>18 DEF LaneOK, PCsOf, ReadSeed, At
  <2>6. \/ \E f, files : To(l, "openRead", {f}, files) /\ KeepsWhole(l, "openRead", {f}, files)
        \/ /\ To(l, "check", job[l].file, job[l].files)
           /\ KeepsWhole(l, "check", job[l].file, job[l].files)
    <3>1. CASE PickFrom(l, ToSet(ledger.bwIndices))
      <4>1. PICK f \in ToSet(ledger.bwIndices) :
                To(l, "openRead", {f}, ToSet(ledger.bwIndices))
        BY <1>1, <2>1, <3>1, PickIs
      <4>2. KeepsWhole(l, "openRead", {f}, ToSet(ledger.bwIndices))
        BY <1>8, <1>18, <4>1, QuietKeepsWhole DEF ReadSeed, ReadsListed, BackedAt,
           Listed
      <4> QED
        BY <4>1, <4>2
    <3>2. CASE Goto(l, "check")
      <4>1. KeepsWhole(l, "check", job[l].file, job[l].files)
        BY <1>8, <1>9, <1>18, <2>5, QuietKeepsWhole DEF ReadSeed, ReadsListed, BackedAt
      <4> QED
        BY <1>1, <1>7, <3>2, <4>1, GotoIs
    <3> QED
      BY <1>18, <3>1, <3>2 DEF ReadSeed
  <2> QED
    BY <1>1, <1>2, <1>18, <2>2, <2>3, <2>4, <2>6, LaneKeepsAll DEF ReadSeed, Rest
<1>19. CASE OpenRead(l)
  <2>2. \/ To(l, "read", job[l].file, job[l].files)
        \/ To(l, "check", {}, job[l].files)
    BY <1>1, <1>3, <1>7, <1>19, GotoIs, GotoWithIs DEF OpenRead
  <2>3. LaneOK(l, "read", job[l].file, phase) /\ LaneOK(l, "check", {}, phase)
    BY <1>1, <1>4, <1>19 DEF LaneOK, PCsOf, Makes, OpenRead, At
  <2>4. KeepsFresh(l, "read", job[l].file) /\ KeepsFresh(l, "check", {})
    BY <1>8, <1>19, QuietKeepsFresh DEF OpenRead, HeldAt, Makes
  <2>5. /\ KeepsWhole(l, "read", job[l].file, job[l].files)
        /\ KeepsWhole(l, "check", {}, job[l].files)
    BY <1>8, <1>9, <1>19, QuietKeepsWhole DEF OpenRead, ReadsListed, BackedAt
  <2> QED
    BY <1>1, <1>2, <1>19, <2>2, <2>3, <2>4, <2>5, LaneKeepsAll DEF OpenRead, Rest
<1>20. CASE ReadChunk(l)
  <2>2. \/ To(l, "check", job[l].file, job[l].files)
        \/ To(l, "check", {}, job[l].files)
    BY <1>1, <1>3, <1>7, <1>20, GotoIs, GotoWithIs DEF ReadChunk
  <2>3. LaneOK(l, "check", job[l].file, phase) /\ LaneOK(l, "check", {}, phase)
    BY <1>1, <1>4, <1>20 DEF LaneOK, PCsOf, Makes, ReadChunk, At
  <2>4. l = "reader"
    BY <1>1, <1>4, <1>20 DEF LaneOK, PCsOf, ReadChunk, At
  <2>5. KeepsFresh(l, "check", job[l].file) /\ KeepsFresh(l, "check", {})
    BY <1>8, <1>20, <2>4, QuietKeepsFresh DEF ReadChunk, HeldAt, Makes
  <2>6. /\ KeepsWhole(l, "check", job[l].file, job[l].files)
        /\ KeepsWhole(l, "check", {}, job[l].files)
    BY <1>8, <1>9, <1>20, <2>4, QuietKeepsWhole DEF ReadChunk, ReadsListed, BackedAt
  <2> QED
    BY <1>1, <1>2, <1>20, <2>2, <2>3, <2>5, <2>6, LaneKeepsAll DEF ReadChunk, Rest
<1>21. CASE LookInLedger(l)
  <2> DEFINE next == NextExistingPath(ledger, OnDisk, phase = "final")
             pc == IF next.found = NoFile THEN "walk" ELSE "remove"
  <2>1. OnDisk \in SUBSET Files /\ (phase = "final") \in BOOLEAN
    BY DEF OnDisk
  <2>2. ledger' = next.ledger /\ GotoWith(l, pc, next.found)
    BY <1>21 DEF LookInLedger
  <2>3. LedgerInv' /\ next.found \in OneFile
    BY <1>1, <2>1, <2>2, ScanKeepsLedger
  <2> HIDE DEF next
  <2>4. To(l, pc, next.found, job[l].files)
    BY <1>1, <1>7, <2>2, <2>3, GotoWithIs
  <2>5. LaneOK(l, pc, next.found, phase)
    BY <1>1, <1>4, <1>21 DEF LaneOK, PCsOf, Makes, LookInLedger, At, NoFile
  <2>6. KeepsFresh(l, pc, next.found) /\ ledger'.bwIndices = ledger.bwIndices
    <3>1. /\ ToSet(ledger'.indices) \subseteq ToSet(ledger.indices)
          /\ ledger'.bwIndices = ledger.bwIndices
          /\ ledger'.next = ledger.next
      BY <1>1, <2>1, <2>2, ScanKeepsLedger DEF next
    <3>2. HeldAt(l, pc, next.found) = {}
      BY DEF HeldAt, Makes
    <3> HIDE DEF pc
    <3> QED
      BY <1>8, <3>1, <3>2, QuietKeepsFresh
  <2>7. KeepsWhole(l, pc, next.found, job[l].files)
    <3>1. phase \in {"delete", "final"}
      BY <1>1, <1>4, <1>21 DEF LaneOK, PCsOf, LookInLedger, At
    <3> HIDE DEF pc
    <3> QED
      BY <2>6, <3>1, OtherKeepsWhole DEF Bandwidth
  <2> HIDE DEF pc
  <2> QED
    BY <1>1, <1>21, <2>3, <2>4, <2>5, <2>6, <2>7, LaneKeepsAll DEF LookInLedger, Rest
<1>22. CASE WalkDirectory(l)
  <2>1. \/ To(l, "check", job[l].file, job[l].files)
        \/ \E f : To(l, "remove", {f}, job[l].files)
    BY <1>1, <1>3, <1>7, <1>22, GotoIs, GotoWithIs DEF WalkDirectory, OnDisk
  <2>2. /\ LaneOK(l, "check", job[l].file, phase)
        /\ \A f : LaneOK(l, "remove", {f}, phase)
    BY <1>1, <1>4, <1>22 DEF LaneOK, PCsOf, Makes, WalkDirectory, At
  <2>3. job[l].file = {} /\ phase \in {"delete", "final"}
    BY <1>1, <1>4, <1>22 DEF LaneOK, PCsOf, WalkDirectory, At
  <2>4. /\ KeepsFresh(l, "check", job[l].file)
        /\ \A f : KeepsFresh(l, "remove", {f})
    BY <1>8, <1>22, <2>3, QuietKeepsFresh DEF WalkDirectory, HeldAt, Makes
  <2>5. \A pc, file : KeepsWhole(l, pc, file, job[l].files)
    BY <1>22, <2>3, OtherKeepsWhole DEF WalkDirectory, Bandwidth
  <2> QED
    BY <1>1, <1>2, <1>22, <2>1, <2>2, <2>4, <2>5, LaneKeepsAll DEF WalkDirectory, Rest
<1>23. CASE RemoveFile(l)
  <2>1. disk' \in [Files -> Contents]
    BY <1>1, <1>5, <1>23, PutKeepsDisk DEF RemoveFile
  <2>2. To(l, "check", {}, job[l].files)
    BY <1>1, <1>3, <1>7, <1>23, GotoWithIs DEF RemoveFile
  <2>3. LaneOK(l, "check", {}, phase)
    BY <1>1, <1>4, <1>23 DEF LaneOK, PCsOf, Makes, RemoveFile, At
  <2>4. phase \in {"delete", "final"}
    BY <1>1, <1>4, <1>23 DEF LaneOK, PCsOf, RemoveFile, At
  <2>5. KeepsFresh(l, "check", {})
    BY <1>8, <1>23, QuietKeepsFresh DEF RemoveFile, HeldAt, Makes
  <2>6. KeepsWhole(l, "check", {}, job[l].files)
    BY <1>23, <2>4, OtherKeepsWhole DEF RemoveFile, Bandwidth
  <2> QED
    BY <1>1, <1>2, <1>23, <2>1, <2>2, <2>3, <2>5, <2>6, LaneKeepsAll DEF RemoveFile,
       Rest
<1>24. CASE RemoveFails(l)
  <2>1. To(l, "check", {}, job[l].files)
    BY <1>1, <1>3, <1>7, <1>24, GotoWithIs DEF RemoveFails
  <2>2. LaneOK(l, "check", {}, phase)
    BY <1>1, <1>4, <1>24 DEF LaneOK, PCsOf, Makes, RemoveFails, At
  <2>3. phase \in {"delete", "final"}
    BY <1>1, <1>4, <1>24 DEF LaneOK, PCsOf, RemoveFails, At
  <2>4. KeepsFresh(l, "check", {})
    BY <1>8, <1>24, QuietKeepsFresh DEF RemoveFails, HeldAt, Makes
  <2>5. KeepsWhole(l, "check", {}, job[l].files)
    BY <1>24, <2>3, OtherKeepsWhole DEF RemoveFails, Bandwidth
  <2> QED
    BY <1>1, <1>2, <1>24, <2>1, <2>2, <2>4, <2>5, LaneKeepsAll DEF RemoveFails, Rest
<1>25. CASE PrepareSparse(l)
  <2>1. disk' \in [Files -> Contents]
    BY <1>1, <1>5, <1>25, PutKeepsDisk DEF PrepareSparse
  <2>2. \/ To(l, "check", job[l].file, job[l].files)
        \/ To(l, "off", job[l].file, job[l].files)
    BY <1>1, <1>7, <1>25, GotoIs DEF PrepareSparse
  <2>3. /\ LaneOK(l, "check", job[l].file, phase)
        /\ LaneOK(l, "off", job[l].file, phase)
    BY <1>1, <1>4, <1>25 DEF LaneOK, PCsOf, Makes, PrepareSparse, At
  <2>4. job[l].file = {} /\ phase = "riops"
    BY <1>1, <1>4, <1>25 DEF LaneOK, PCsOf, PrepareSparse, At
  <2>5. KeepsFresh(l, "check", job[l].file) /\ KeepsFresh(l, "off", job[l].file)
    BY <1>8, <1>25, <2>4, QuietKeepsFresh DEF PrepareSparse, HeldAt, Makes
  <2>6. \A pc, file : KeepsWhole(l, pc, file, job[l].files)
    BY <1>25, <2>4, OtherKeepsWhole DEF PrepareSparse, Bandwidth
  <2> QED
    BY <1>1, <1>2, <1>25, <2>1, <2>2, <2>3, <2>5, <2>6, LaneKeepsAll
       DEF PrepareSparse, Rest
<1>26. CASE Wipe(l)
  <2>1. disk' \in [Files -> Contents]
    BY <1>5, <1>26 DEF Wipe, NothingOnDisk
  <2>2. To(l, "wiped", job[l].file, job[l].files)
    BY <1>1, <1>7, <1>26, GotoIs DEF Wipe
  <2>3. LaneOK(l, "wiped", job[l].file, phase)
    BY <1>1, <1>4, <1>26 DEF LaneOK, PCsOf, Makes, Wipe, At
  <2>4. phase = "wipe"
    BY <1>1, <1>4, <1>26 DEF LaneOK, PCsOf, Wipe, At
  <2>5. KeepsFresh(l, "wiped", job[l].file)
    BY <1>8, <1>26, QuietKeepsFresh DEF Wipe, HeldAt, Makes
  <2>6. KeepsWhole(l, "wiped", job[l].file, job[l].files)
    BY <1>26, <2>4, OtherKeepsWhole DEF Wipe, Bandwidth
  <2> QED
    BY <1>1, <1>2, <1>26, <2>1, <2>2, <2>3, <2>5, <2>6, LaneKeepsAll DEF Wipe, Rest
<1>27. CASE WipeClears(l)
  <2>1. LedgerInv'
    BY <1>27, NewLedger DEF WipeClears, Clear
  <2>2. To(l, "off", job[l].file, job[l].files)
    BY <1>1, <1>7, <1>27, GotoIs DEF WipeClears
  <2>3. LaneOK(l, "off", job[l].file, phase)
    BY <1>1, <1>4, <1>27 DEF LaneOK, PCsOf, Makes, WipeClears, At
  <2>4. job[l].file = {}
    BY <1>1, <1>27 DEF LaneOK, WipeClears, At
  <2>5. phase = "wipe" /\ KeepsFresh(l, "off", job[l].file)
    BY <1>8, <1>27, <2>4, ClearKeepsFresh DEF WipeClears
  <2>6. KeepsWhole(l, "off", job[l].file, job[l].files)
    BY <2>5, OtherKeepsWhole DEF Bandwidth
  <2> QED
    BY <1>1, <1>27, <2>1, <2>2, <2>3, <2>5, <2>6, LaneKeepsAll DEF WipeClears, Rest
<1> QED
    BY <1>10, <1>11, <1>12, <1>13, <1>14, <1>15, <1>16, <1>17, <1>18, <1>19, <1>20,
       <1>21, <1>22, <1>23, <1>24, <1>25, <1>26, <1>27 DEF Step

-----------------------------------------------------------------------------
\* After the beginning of a command, or before that of any, no lane is about a file.
NoneHeld(j) == \A l \in Lanes : j[l].file = {} /\ j[l].files = {} /\ j[l].pc # "openRead"

LEMMA NoneHeldIsFresh ==
    ASSUME NoneHeld(job')
    PROVE  FreshInv'
<1>1. \A l \in Lanes : Held(l)' = {}
    BY DEF NoneHeld, Held, HeldAt
<1> QED
    BY <1>1 DEF FreshInv, Lanes

LEMMA BeginHoldsNone ==
    ASSUME NEW p \in Phases, Begin(p)
    PROVE  NoneHeld(job')
<1>1. \A l \in Lanes : job'[l] = IF l \in LanesOf(p) THEN [Off EXCEPT !.pc = FirstStep(p)]
                                                      ELSE Off
    BY DEF Begin
<1>2. FirstStep(p) \in {"wipe", "prep", "check"}
    BY Zenon DEF FirstStep
<1> QED
    BY <1>1, <1>2 DEF NoneHeld, Off

\* A bandwidth phase comes after the bandwidth phases and those before them.
LEMMA BeforeBandwidth ==
    ASSUME NEW q, NEW p, Before(q, p)
    PROVE  /\ p \in Bandwidth => q \in {"create", "delete"} \cup Bandwidth
           /\ p \in {"create", "delete"} => q \in {"create", "delete"}
<1>1. DOMAIN Order = 1..8
    BY DEF Order
<1>2. PICK i, j \in 1..8 : i <= j /\ Order[i] = q /\ Order[j] = p
    BY <1>1 DEF Before
<1>3. 1..8 = {1, 2, 3, 4, 5, 6, 7, 8}
    OBVIOUS
<1>4. p \in Bandwidth => j \in {3, 4, 5}
    BY <1>2, <1>3 DEF Order, Bandwidth
<1>5. p \in {"create", "delete"} => j \in {1, 2}
    BY <1>2, <1>3 DEF Order
<1>6. i \in {1, 2, 3, 4, 5} => q \in {"create", "delete"} \cup Bandwidth
    BY <1>2 DEF Order, Bandwidth
<1>7. i \in {1, 2} => q \in {"create", "delete"}
    BY <1>2 DEF Order
<1> QED
    BY <1>2, <1>3, <1>4, <1>5, <1>6, <1>7

LEMMA BeginCommandKeepsWhole ==
    ASSUME WorkerInv, NEW p \in Phases, BeginCommand(p)
    PROVE  WholeInv'
<1> SUFFICES ASSUME created
             PROVE  WholeInv'
    BY DEF BeginCommand, WholeInv
<1>1. main' = "read" /\ ~hit' /\ phase' = p /\ created' /\ disk' = disk
    BY DEF WorkerInv, WholeInv, BeginCommand, Begin
<1>2. /\ ledger'.indices = ledger.indices
      /\ ledger'.bwIndices = IF p = "create" THEN << >> ELSE ledger.bwIndices
    BY PreparedKeepsLedger DEF WorkerInv, ShapeInv, BeginCommand, Begin
<1>3. NoneHeld(job')
    BY BeginHoldsNone DEF BeginCommand
<1>4. /\ p \in Bandwidth => phase \in {"create", "delete"} \cup Bandwidth
      /\ p \in {"create", "delete"} => phase \in {"create", "delete"}
    BY BeforeBandwidth DEF BeginCommand
<1>5. p \in {"create", "delete"} => ledger'.bwIndices = << >>
    BY <1>2, <1>4 DEF WorkerInv, WholeInv
<1>6. ASSUME p \in Bandwidth
      PROVE  /\ Listed' \subseteq ToSet(ledger'.indices)
             /\ \A f \in Listed' : disk'[f] = "whole"
  <2>1. ledger'.bwIndices = ledger.bwIndices
    BY <1>2, <1>6 DEF Bandwidth
  <2>2. CASE phase \in Bandwidth
    BY <1>1, <1>2, <2>1, <2>2 DEF WorkerInv, WholeInv, Listed
  <2>3. CASE phase \in {"create", "delete"}
    <3>1. ledger'.bwIndices = << >>
      BY <2>1, <2>3 DEF WorkerInv, WholeInv
    <3>2. Listed' = {}
      BY <3>1 DEF Listed, ToSet
    <3> QED
      BY <3>2
  <2> QED
    BY <1>4, <1>6, <2>2, <2>3
<1>7. ReadsListed(job["reader"].pc, job["reader"].file, job["reader"].files)'
    BY <1>3 DEF NoneHeld, ReadsListed, Lanes
<1>8. \A l \in Lanes : Backed(l)'
    BY <1>3 DEF NoneHeld, Backed, BackedAt
<1> QED
    BY <1>1, <1>5, <1>6, <1>7, <1>8 DEF WholeInv

LEMMA BeginRunKeepsWhole ==
    ASSUME WorkerInv, NEW p \in Phases, BeginRun(p)
    PROVE  WholeInv'
<1> SUFFICES ASSUME created'
             PROVE  WholeInv'
    BY DEF WholeInv
<1>1. p = "create" /\ main' = "read" /\ ~hit' /\ phase' = "create"
    BY DEF BeginRun, Begin
<1>2. ledger'.bwIndices = << >>
    BY <1>1, PreparedKeepsLedger DEF WorkerInv, ShapeInv, BeginRun, Begin
<1> QED
    BY <1>1, <1>2 DEF WholeInv, Bandwidth

LEMMA WorkerInitially ==
    ASSUME Init
    PROVE  WorkerInv
<1>1. ShapeInv
    BY ShapeInitially
<1>2. FreshInv
  <2>1. \A l \in Lanes : Held(l) = {}
    BY DEF Init, Off, Held, HeldAt
  <2> QED
    BY <2>1 DEF FreshInv, Lanes
<1>3. WholeInv
    BY DEF Init, WholeInv
<1> QED
    BY <1>1, <1>2, <1>3 DEF WorkerInv

LEMMA WorkerPreserved ==
    ASSUME WorkerInv, [Next]_vars
    PROVE  WorkerInv'
<1>1. ShapeInv /\ FreshInv /\ WholeInv /\ TypeOK
    BY DEF WorkerInv, ShapeInv
<1>2. ASSUME NEW p \in Phases, BeginCommand(p)
      PROVE  WorkerInv'
  <2>1. ShapeInv'
    BY <1>1, <1>2, BeginKeepsShape DEF BeginCommand, TypeOK, counters
  <2>2. FreshInv'
    BY <1>2, BeginHoldsNone, NoneHeldIsFresh DEF BeginCommand
  <2>3. WholeInv'
    BY <1>2, BeginCommandKeepsWhole
  <2> QED
    BY <2>1, <2>2, <2>3 DEF WorkerInv
<1>3. ASSUME NEW p \in Phases, BeginRun(p)
      PROVE  WorkerInv'
  <2>1. disk' \in [Files -> Contents]
    BY <1>1, <1>3 DEF BeginRun, TypeOK, NothingOnDisk, Contents
  <2>2. run' \in 0..MaxRuns
    BY <1>1, <1>3, WorkerAssumption DEF BeginRun, TypeOK
  <2>3. created' \in BOOLEAN
    BY <1>3, Zenon DEF BeginRun
  <2>4. ShapeInv'
    BY <1>1, <1>3, <2>1, <2>2, <2>3, BeginKeepsShape DEF BeginRun
  <2>5. FreshInv'
    BY <1>3, BeginHoldsNone, NoneHeldIsFresh DEF BeginRun
  <2>6. WholeInv'
    BY <1>3, BeginRunKeepsWhole
  <2> QED
    BY <2>4, <2>5, <2>6 DEF WorkerInv
<1>4. CASE \E l \in Lanes : Step(l) \/ RemoveFails(l) \/ End(l)
    BY <1>4, LaneStepKeepsAll
<1>5. ASSUME UNCHANGED <<ledger, phase, job>>
      PROVE  LedgerInv' /\ LanesOK' /\ (UNCHANGED hit => FreshInv')
    BY <1>1, <1>5 DEF LedgerInv, LanesOK, ShapeInv, FreshInv, Held
<1>6. CASE SessionEnds
  <2>1. TypeOK'
    BY <1>1, <1>6 DEF SessionEnds, TypeOK, counters, ghosts
  <2>2. WholeInv'
    BY <1>1, <1>6 DEF SessionEnds, ghosts, WholeInv, Listed, ReadsListed, Backed
  <2> QED
    BY <1>5, <1>6, <2>1, <2>2 DEF SessionEnds, WorkerInv, ShapeInv, ghosts
<1>7. CASE ReadStop
  <2>1. stops' \in 0..MaxStops
    BY <1>1, <1>7, WorkerAssumption DEF ReadStop, TypeOK
  <2>2. TypeOK'
    BY <1>1, <1>7, <2>1 DEF ReadStop, TypeOK
  <2>3. WholeInv'
    BY <1>7 DEF ReadStop, WholeInv
  <2> QED
    BY <1>5, <1>7, <2>2, <2>3 DEF ReadStop, WorkerInv, ShapeInv
<1>8. CASE CleanupRemoves
  <2>1. disk' \in [Files -> Contents]
    BY <1>8 DEF CleanupRemoves, NothingOnDisk, Contents
  <2>2. swept' \in BOOLEAN
    BY <1>8, Zenon DEF CleanupRemoves
  <2>3. TypeOK'
    BY <1>1, <1>8, <2>1, <2>2 DEF CleanupRemoves, TypeOK, counters
  <2>4. WholeInv'
    BY <1>1, <1>8 DEF CleanupRemoves, WholeInv
  <2> QED
    BY <1>5, <1>8, <2>3, <2>4 DEF CleanupRemoves, WorkerInv, ShapeInv
<1>9. CASE CleanupClears
  <2>1. LedgerInv'
    BY <1>9, NewLedger DEF CleanupClears, Clear
  <2>2. hit' \in BOOLEAN
    BY <1>9, Zenon DEF CleanupClears
  <2>3. TypeOK' /\ LanesOK'
    BY <1>1, <1>9, <2>1, <2>2
       DEF CleanupClears, TypeOK, LanesOK, ShapeInv, LedgerInv, counters
  <2>4. FreshInv'
    <3> SUFFICES ASSUME Idle
                 PROVE  FreshInv'
      BY <1>9 DEF CleanupClears, FreshInv
    <3>1. \A l \in Lanes : Held(l)' = {}
      BY <1>9 DEF CleanupClears, Idle, At, Held, HeldAt, Makes
    <3> QED
      BY <3>1 DEF FreshInv, Lanes
  <2>5. WholeInv'
    BY <1>1, <1>9 DEF CleanupClears, WholeInv
  <2> QED
    BY <2>1, <2>3, <2>4, <2>5 DEF WorkerInv, ShapeInv
<1>10. CASE UNCHANGED vars
  <2>1. TypeOK' /\ WholeInv'
    BY <1>1, <1>10
       DEF vars, counters, ghosts, TypeOK, WholeInv, Listed, ReadsListed, Backed
  <2> QED
    BY <1>5, <1>10, <2>1 DEF vars, ghosts, WorkerInv, ShapeInv
<1> QED
    BY <1>2, <1>3, <1>4, <1>6, <1>7, <1>8, <1>9, <1>10 DEF Next

-----------------------------------------------------------------------------
LEMMA WorkerInvariant == Spec => []WorkerInv
<1>1. Init => WorkerInv
    BY WorkerInitially
<1>2. WorkerInv /\ [Next]_vars => WorkerInv'
    BY WorkerPreserved
<1> QED
    BY <1>1, <1>2, PTL DEF Spec

\* The variables of the worker have their types: the ledger hands out indices below
\* the bound, and lists and reads only files (FileLedger, Worker.Run).
THEOREM WorkerTypeCorrect == Spec => []TypeOK
<1>1. WorkerInv => TypeOK
    BY DEF WorkerInv, ShapeInv
<1> QED
    BY <1>1, WorkerInvariant, PTL

\* A file that is being written is neither listed nor written by the other goroutine
\* (NextIndex against Add and AddBW): IndicesAreFresh.
THEOREM IndicesStayFresh == Spec => []IndicesAreFresh
<1>1. WorkerInv => IndicesAreFresh
  <2>1. \A l \in Lanes : Writing(l) \subseteq Held(l)
    BY DEF Writing, Held, HeldAt, Makes
  <2> QED
    BY <2>1 DEF WorkerInv, FreshInv, IndicesAreFresh, Lanes
<1> QED
    BY <1>1, WorkerInvariant, PTL

\* The search of a delete phase finds the first file of the ledger that is left, around
\* the end of the list, and loses no entry (NextExistingPath): ScanIsCorrect, for lists
\* of any length.
THEOREM ScansFindTheFirst == Spec => []ScanIsCorrect
<1>1. WorkerInv => ScanIsCorrect
    BY ScanFindsFirst DEF WorkerInv, ShapeInv, LedgerInv, ScanIsCorrect
<1> QED
    BY <1>1, WorkerInvariant, PTL

\* In a run with a create phase a reader opens only files that are whole
\* (openNextRead against writeFileDirect and closeFile): ReaderFindsWholeFiles.
THEOREM ReadersFindWholeFiles == Spec => []ReaderFindsWholeFiles
<1>1. WorkerInv => ReaderFindsWholeFiles
  <2> SUFFICES ASSUME WorkerInv, created, At("reader", "openRead"), NEW f \in job["reader"].file
               PROVE  disk[f] = "whole"
    BY DEF ReaderFindsWholeFiles
  <2>1. phase \in Bandwidth
    BY DEF WorkerInv, ShapeInv, LanesOK, LaneOK, PCsOf, At, Bandwidth, Lanes
  <2> QED
    BY <2>1 DEF WorkerInv, WholeInv, ReadsListed, At
<1> QED
    BY <1>1, WorkerInvariant, PTL

-----------------------------------------------------------------------------
(***************************************************************************)
(* What a stop leaves on disk.                                             *)
(***************************************************************************)

\* A lane that has not yet made the file it may make under a cancelled context.
Unspent == {"next", "take", "create", "open", "prep"}
Spent == {l \in LanesOf(phase) : job[l].pc \notin Unspent}

\* What is found in the ledger may be anything.
IsJob(j) == \E P, F, G : j \in [Lanes -> [pc : P, file : F, files : G]]

\* Where the lanes are: those that make a file make one; those that are not of
\* the phase do nothing.
LanesInv ==
    /\ IsJob(job)
    /\ \A l \in Lanes : job[l].pc \in {"create", "open"} => \E x : job[l].file = {x}
    /\ \A l \in Lanes \ LanesOf(phase) : job[l].pc = "off"

\* Each file that is there since the stop was made by a lane of its own.
MadeBy(g) == OnDisk \subseteq {g[l] : l \in Spent}
SweptInv ==
    swept => /\ cancelled \/ Idle
             /\ \E g \in [Lanes -> Files] : MadeBy(g)

\* Lane l comes to pc with the given file, the others stay where they are.
Moved(l, pc, file) ==
    /\ IsJob(job')
    /\ job'[l].pc = pc
    /\ job'[l].file = file
    /\ \A k \in Lanes \ {l} : job'[k] = job[k]

-----------------------------------------------------------------------------
LEMMA LanesOfPhase ==
    ASSUME NEW p
    PROVE  LanesOf(p) \in {Lanes, {"reader"}, {"writer"}}
    BY Zenon DEF LanesOf

LEMMA LanesOfAreLanes ==
    ASSUME NEW p
    PROVE  LanesOf(p) \subseteq Lanes
    BY LanesOfPhase DEF Lanes

LEMMA GotoMoves ==
    ASSUME IsJob(job), NEW l \in Lanes, NEW pc, Goto(l, pc)
    PROVE  Moved(l, pc, job[l].file)
<1>1. PICK P, F, G : job \in [Lanes -> [pc : P, file : F, files : G]]
    BY DEF IsJob
<1>2. job' \in [Lanes -> [pc : P \cup {pc}, file : F, files : G]]
    BY <1>1 DEF Goto
<1>3. IsJob(job')
    BY <1>2 DEF IsJob
<1> QED
    BY <1>1, <1>3 DEF Goto, Moved

LEMMA GotoWithMoves ==
    ASSUME IsJob(job), NEW l \in Lanes, NEW pc, NEW file, GotoWith(l, pc, file)
    PROVE  Moved(l, pc, file)
<1>1. PICK P, F, G : job \in [Lanes -> [pc : P, file : F, files : G]]
    BY DEF IsJob
<1>2. job' \in [Lanes -> [pc : P \cup {pc}, file : F \cup {file}, files : G]]
    BY <1>1 DEF GotoWith
<1>3. IsJob(job')
    BY <1>2 DEF IsJob
<1> QED
    BY <1>1, <1>3 DEF GotoWith, Moved

LEMMA PickMoves ==
    ASSUME IsJob(job), NEW l \in Lanes, NEW files, PickFrom(l, files)
    PROVE  \E f : Moved(l, "openRead", {f})
<1>1. PICK P, F, G : job \in [Lanes -> [pc : P, file : F, files : G]]
    BY DEF IsJob
<1>2. PICK f \in files :
          job' = [job EXCEPT ![l].pc = "openRead", ![l].file = {f}, ![l].files = files]
    BY DEF PickFrom
<1>3. job' \in [Lanes -> [pc : P \cup {"openRead"}, file : F \cup {{f}},
                          files : G \cup {files}]]
    BY <1>1, <1>2
<1>4. IsJob(job')
    BY <1>3 DEF IsJob
<1> QED
    BY <1>1, <1>2, <1>4 DEF Moved

LEMMA TakeMoves ==
    ASSUME IsJob(job), NEW l \in Lanes,
           job' = [job EXCEPT ![l].pc = "take", ![l].files = {}]
    PROVE  Moved(l, "take", job[l].file)
<1>1. PICK P, F, G : job \in [Lanes -> [pc : P, file : F, files : G]]
    BY DEF IsJob
<1>2. job' \in [Lanes -> [pc : P \cup {"take"}, file : F, files : G \cup {{}}]]
    BY <1>1
<1>3. IsJob(job')
    BY <1>2 DEF IsJob
<1> QED
    BY <1>1, <1>3 DEF Moved

LEMMA OffMoves ==
    ASSUME IsJob(job), NEW l \in Lanes, job' = [job EXCEPT ![l] = Off]
    PROVE  Moved(l, "off", {})
<1>1. PICK P, F, G : job \in [Lanes -> [pc : P, file : F, files : G]]
    BY DEF IsJob
<1>2. job' \in [Lanes -> [pc : P \cup {"off"}, file : F \cup {{}}, files : G \cup {{}}]]
    BY <1>1 DEF Off
<1>3. IsJob(job')
    BY <1>2 DEF IsJob
<1> QED
    BY <1>1, <1>3 DEF Moved, Off

\* A lane that moves stays one of the phase.
LEMMA MoveKeepsLanes ==
    ASSUME LanesInv, NEW l \in Lanes, NEW pc, NEW file, Moved(l, pc, file),
           phase' = phase, job[l].pc # "off",
           pc \in {"create", "open"} => \E x : file = {x}
    PROVE  LanesInv'
    BY DEF LanesInv, Moved

\* A step after which no more is on disk, and which does not send a lane back to
\* where it may make a file.
LEMMA MoveKeepsSwept ==
    ASSUME LanesInv, SweptInv, NEW l \in Lanes, NEW pc, NEW file, Moved(l, pc, file),
           phase' = phase, job[l].pc # "off", cancelled' = cancelled, swept' = swept,
           OnDisk' \subseteq OnDisk,
           swept /\ cancelled /\ pc \in Unspent => job[l].pc \in Unspent
    PROVE  SweptInv'
<1> SUFFICES ASSUME swept
             PROVE  SweptInv'
    BY DEF SweptInv
<1>1. cancelled
    BY DEF SweptInv, Idle, At
<1>2. PICK g \in [Lanes -> Files] : MadeBy(g)
    BY DEF SweptInv
<1>3. Spent \subseteq Spent'
  <2> SUFFICES ASSUME NEW k \in Spent
               PROVE  k \in Spent'
    OBVIOUS
  <2>1. k \in LanesOf(phase)' /\ k \in Lanes /\ job[k].pc \notin Unspent
    BY LanesOfAreLanes DEF Spent
  <2>2. job'[k].pc \notin Unspent
    BY <1>1, <2>1 DEF Moved
  <2> QED
    BY <2>1, <2>2 DEF Spent
<1>4. MadeBy(g)'
    BY <1>2, <1>3 DEF MadeBy
<1> QED
    BY <1>1, <1>4 DEF SweptInv

\* A step that makes one file.
LEMMA MakeKeepsSwept ==
    ASSUME LanesInv, SweptInv, NEW l \in Lanes, NEW pc, NEW file, Moved(l, pc, file),
           phase' = phase, job[l].pc # "off", cancelled' = cancelled, swept' = swept,
           NEW x, OnDisk' \subseteq OnDisk \cup {x}, OnDisk' \subseteq Files,
           job[l].pc \in Unspent, pc \notin Unspent
    PROVE  SweptInv'
<1> SUFFICES ASSUME swept
             PROVE  SweptInv'
    BY DEF SweptInv
<1>1. cancelled
    BY DEF SweptInv, Idle, At
<1>2. PICK g \in [Lanes -> Files] : MadeBy(g)
    BY DEF SweptInv
<1>3. /\ l \in Spent' /\ l \notin Spent
      /\ Spent \subseteq Spent'
    BY LanesOfPhase DEF Spent, Moved, LanesInv
<1>4. CASE x \in Files
  <2> DEFINE h == [g EXCEPT ![l] = x]
  <2>1. h \in [Lanes -> Files]
    BY <1>4
  <2>2. \A k \in Spent : h[k] = g[k]
    BY <1>3, LanesOfPhase DEF Spent
  <2>3. h[l] = x
    OBVIOUS
  <2> HIDE DEF h
  <2>4. MadeBy(h)'
    BY <1>2, <1>3, <2>2, <2>3 DEF MadeBy
  <2> QED
    BY <1>1, <2>1, <2>4 DEF SweptInv
<1>5. CASE x \notin Files
  <2>1. OnDisk' \subseteq OnDisk
    BY <1>5
  <2>2. MadeBy(g)'
    BY <1>2, <1>3, <2>1 DEF MadeBy
  <2> QED
    BY <1>1, <2>2 DEF SweptInv
<1> QED
    BY <1>4, <1>5

-----------------------------------------------------------------------------
LEMMA PutMakesOne ==
    ASSUME NEW x, NEW what, Put({x}, what)
    PROVE  OnDisk' \subseteq OnDisk \cup {x}
    BY DEF Put, OnDisk

LEMMA PutNone ==
    ASSUME NEW file, Put(file, "none")
    PROVE  OnDisk' \subseteq OnDisk
    BY DEF Put, OnDisk

LEMMA CloseMakesNone ==
    ASSUME NEW l \in Lanes, Close(l)
    PROVE  OnDisk' \subseteq OnDisk
    BY DEF Close, OnDisk, Lanes

\* The steps of the lanes.
LEMMA LaneStep ==
    ASSUME LanesInv, SweptInv, NEW l \in Lanes, Step(l) \/ RemoveFails(l) \/ End(l)
    PROVE  LanesInv' /\ SweptInv'
<1> IsJob(job)
    BY DEF LanesInv
<1>1. CASE End(l)
  <2>1. Moved(l, "off", {})
    BY <1>1, OffMoves DEF End
  <2>2. OnDisk' \subseteq OnDisk
    BY <1>1, CloseMakesNone DEF End
  <2> QED
    BY <1>1, <2>1, <2>2, MoveKeepsLanes, MoveKeepsSwept DEF End, At, Unspent, ghosts
<1>2. CASE Go(l)
  <2>1. Moved(l, Turn(l), job[l].file)
    BY <1>2, GotoMoves DEF Go
  <2>2. Turn(l) \in {"read", "next", "chunk", "look", "take"}
    BY Zenon DEF Turn
  <2>3. OnDisk' \subseteq OnDisk
    BY <1>2 DEF Go, OnDisk
  <2> QED
    BY <1>2, <2>1, <2>2, <2>3, MoveKeepsLanes, MoveKeepsSwept DEF Go, At, ghosts
<1>3. CASE TakeNextIndex(l)
  <2> DEFINE pc == IF phase = "create" THEN "create" ELSE "open"
  <2>1. Moved(l, pc, {ledger.next})
    BY <1>3, GotoWithMoves DEF TakeNextIndex
  <2>2. OnDisk' \subseteq OnDisk
    BY <1>3 DEF TakeNextIndex, OnDisk
  <2> QED
    BY <1>3, <2>1, <2>2, MoveKeepsLanes, MoveKeepsSwept DEF TakeNextIndex, At,
       Unspent, ghosts
<1>4. CASE CreateFile(l)
  <2>1. PICK x : job[l].file = {x}
    BY <1>4 DEF LanesInv, CreateFile, At
  <2>2. OnDisk' \subseteq OnDisk \cup {x}
    BY <1>4, <2>1, PutMakesOne DEF CreateFile, OnDisk
  <2>3. OnDisk' \subseteq Files
    BY DEF OnDisk
  <2>4. \/ Moved(l, "add", job[l].file)
        \/ Moved(l, "check", {})
    BY <1>4, GotoMoves, GotoWithMoves DEF CreateFile
  <2>5. /\ job[l].pc \in {"create", "open", "prep"}
        /\ phase' = phase /\ cancelled' = cancelled /\ swept' = swept
    BY <1>4 DEF CreateFile, At, ghosts
  <2>6. PICK pc, file : pc \in {"add", "chunk", "check", "off"} /\ Moved(l, pc, file)
    BY <2>4
  <2>7. LanesInv'
    BY <2>5, <2>6, MoveKeepsLanes
  <2>8. SweptInv'
    BY <2>2, <2>3, <2>5, <2>6, MakeKeepsSwept DEF Unspent
  <2> QED
    BY <2>7, <2>8
<1>5. CASE OpenFile(l)
  <2>1. PICK x : job[l].file = {x}
    BY <1>5 DEF LanesInv, OpenFile, At
  <2>2. OnDisk' \subseteq OnDisk \cup {x}
    BY <1>5, <2>1, PutMakesOne DEF OpenFile, OnDisk
  <2>3. OnDisk' \subseteq Files
    BY DEF OnDisk
  <2>4. \/ Moved(l, "chunk", job[l].file)
        \/ Moved(l, "check", {})
    BY <1>5, GotoMoves, GotoWithMoves DEF OpenFile
  <2>5. /\ job[l].pc \in {"create", "open", "prep"}
        /\ phase' = phase /\ cancelled' = cancelled /\ swept' = swept
    BY <1>5 DEF OpenFile, At, ghosts
  <2>6. PICK pc, file : pc \in {"add", "chunk", "check", "off"} /\ Moved(l, pc, file)
    BY <2>4
  <2>7. LanesInv'
    BY <2>5, <2>6, MoveKeepsLanes
  <2>8. SweptInv'
    BY <2>2, <2>3, <2>5, <2>6, MakeKeepsSwept DEF Unspent
  <2> QED
    BY <2>7, <2>8
<1>6. CASE WriteChunk(l)
  <2>1. OnDisk' \subseteq OnDisk
    BY <1>6, CloseMakesNone DEF WriteChunk, OnDisk, Lanes
  <2>2. \/ Moved(l, "check", job[l].file)
        \/ Moved(l, "add", job[l].file)
        \/ Moved(l, "check", {})
    BY <1>6, GotoMoves, GotoWithMoves DEF WriteChunk
  <2> QED
    BY <1>6, <2>1, <2>2, MoveKeepsLanes, MoveKeepsSwept DEF WriteChunk, At, Unspent,
       ghosts
<1>7. CASE AddFile(l)
  <2> DEFINE pc == IF l = "reader" THEN "reread" ELSE "check"
  <2>1. Moved(l, pc, {})
    BY <1>7, GotoWithMoves DEF AddFile
  <2>2. OnDisk' \subseteq OnDisk
    BY <1>7 DEF AddFile, OnDisk
  <2> QED
    BY <1>7, <2>1, <2>2, MoveKeepsLanes, MoveKeepsSwept DEF AddFile, At, Unspent, ghosts
<1>8. CASE NextRead(l)
  <2>1. \/ \E f : Moved(l, "openRead", {f})
        \/ Moved(l, "take", job[l].file)
    BY <1>8, PickMoves, TakeMoves DEF NextRead
  <2>2. OnDisk' \subseteq OnDisk
    BY <1>8 DEF NextRead, OnDisk
  <2> QED
    BY <1>8, <2>1, <2>2, MoveKeepsLanes, MoveKeepsSwept DEF NextRead, At, Unspent,
       ghosts
<1>9. CASE ReadSeed(l)
  <2>1. \/ \E f : Moved(l, "openRead", {f})
        \/ Moved(l, "check", job[l].file)
    BY <1>9, PickMoves, GotoMoves DEF ReadSeed
  <2>2. OnDisk' \subseteq OnDisk
    BY <1>9 DEF ReadSeed, OnDisk
  <2> QED
    BY <1>9, <2>1, <2>2, MoveKeepsLanes, MoveKeepsSwept DEF ReadSeed, At, Unspent,
       ghosts
<1>10. CASE OpenRead(l)
  <2>1. \/ Moved(l, "read", job[l].file)
        \/ Moved(l, "check", {})
    BY <1>10, GotoMoves, GotoWithMoves DEF OpenRead
  <2>2. OnDisk' \subseteq OnDisk
    BY <1>10 DEF OpenRead, OnDisk
  <2> QED
    BY <1>10, <2>1, <2>2, MoveKeepsLanes, MoveKeepsSwept DEF OpenRead, At, Unspent,
       ghosts
<1>11. CASE ReadChunk(l)
  <2>1. \/ Moved(l, "check", job[l].file)
        \/ Moved(l, "check", {})
    BY <1>11, GotoMoves, GotoWithMoves DEF ReadChunk
  <2>2. OnDisk' \subseteq OnDisk
    BY <1>11 DEF ReadChunk, OnDisk
  <2> QED
    BY <1>11, <2>1, <2>2, MoveKeepsLanes, MoveKeepsSwept DEF ReadChunk, At, Unspent,
       ghosts
<1>12. CASE LookInLedger(l)
  <2> DEFINE next == NextExistingPath(ledger, OnDisk, phase = "final")
             pc == IF next.found = NoFile THEN "walk" ELSE "remove"
  <2>1. Moved(l, pc, next.found)
    BY <1>12, GotoWithMoves DEF LookInLedger
  <2>2. OnDisk' \subseteq OnDisk
    BY <1>12 DEF LookInLedger, OnDisk
  <2>3. pc \in {"walk", "remove"}
    OBVIOUS
  <2> HIDE DEF next, pc
  <2> QED
    BY <1>12, <2>1, <2>2, <2>3, MoveKeepsLanes, MoveKeepsSwept
       DEF LookInLedger, At, Unspent, ghosts
<1>13. CASE WalkDirectory(l)
  <2>1. \/ Moved(l, "check", job[l].file)
        \/ \E f : Moved(l, "remove", {f})
    BY <1>13, GotoMoves, GotoWithMoves DEF WalkDirectory
  <2>2. OnDisk' \subseteq OnDisk
    BY <1>13 DEF WalkDirectory, OnDisk
  <2> QED
    BY <1>13, <2>1, <2>2, MoveKeepsLanes, MoveKeepsSwept DEF WalkDirectory, At,
       Unspent, ghosts
<1>14. CASE RemoveFile(l)
  <2>1. Moved(l, "check", {})
    BY <1>14, GotoWithMoves DEF RemoveFile
  <2>2. OnDisk' \subseteq OnDisk
    BY <1>14, PutNone DEF RemoveFile
  <2> QED
    BY <1>14, <2>1, <2>2, MoveKeepsLanes, MoveKeepsSwept DEF RemoveFile, At, Unspent,
       ghosts
<1>15. CASE RemoveFails(l)
  <2>1. Moved(l, "check", {})
    BY <1>15, GotoWithMoves DEF RemoveFails
  <2>2. OnDisk' \subseteq OnDisk
    BY <1>15 DEF RemoveFails, OnDisk
  <2> QED
    BY <1>15, <2>1, <2>2, MoveKeepsLanes, MoveKeepsSwept DEF RemoveFails, At, Unspent,
       ghosts
<1>16. CASE PrepareSparse(l)
  <2>1. OnDisk' \subseteq OnDisk \cup {Sparse}
    BY <1>16, PutMakesOne DEF PrepareSparse, OnDisk
  <2>2. OnDisk' \subseteq Files
    BY DEF OnDisk
  <2>3. \/ Moved(l, "check", job[l].file)
        \/ Moved(l, "off", job[l].file)
    BY <1>16, GotoMoves DEF PrepareSparse
  <2>5. /\ job[l].pc \in {"create", "open", "prep"}
        /\ phase' = phase /\ cancelled' = cancelled /\ swept' = swept
    BY <1>16 DEF PrepareSparse, At, ghosts
  <2>6. PICK pc, file : pc \in {"add", "chunk", "check", "off"} /\ Moved(l, pc, file)
    BY <2>3
  <2>7. LanesInv'
    BY <2>5, <2>6, MoveKeepsLanes
  <2>8. SweptInv'
    BY <2>1, <2>2, <2>5, <2>6, MakeKeepsSwept DEF Unspent
  <2> QED
    BY <2>7, <2>8
<1>17. CASE Wipe(l)
  <2>1. Moved(l, "wiped", job[l].file)
    BY <1>17, GotoMoves DEF Wipe
  <2>2. OnDisk' \subseteq OnDisk
    BY <1>17 DEF Wipe, NothingOnDisk, OnDisk
  <2> QED
    BY <1>17, <2>1, <2>2, MoveKeepsLanes, MoveKeepsSwept DEF Wipe, At, Unspent, ghosts
<1>18. CASE WipeClears(l)
  <2>1. Moved(l, "off", job[l].file)
    BY <1>18, GotoMoves DEF WipeClears
  <2>2. OnDisk' \subseteq OnDisk
    BY <1>18 DEF WipeClears, OnDisk
  <2> QED
    BY <1>18, <2>1, <2>2, MoveKeepsLanes, MoveKeepsSwept DEF WipeClears, At, Unspent,
       ghosts
<1> QED
    BY <1>1, <1>2, <1>3, <1>4, <1>5, <1>6, <1>7, <1>8, <1>9, <1>10, <1>11, <1>12, <1>13,
       <1>14, <1>15, <1>16, <1>17, <1>18 DEF Step

-----------------------------------------------------------------------------
LEMMA BeginStep ==
    ASSUME NEW p \in Phases, Begin(p)
    PROVE  LanesInv' /\ SweptInv'
<1>1. ~swept'
    BY DEF Begin
<1>2. LanesInv'
  <2>1. \A l \in Lanes : job'[l] = IF l \in LanesOf(p) THEN [Off EXCEPT !.pc = FirstStep(p)]
                                                        ELSE Off
    BY DEF Begin
  <2>2. FirstStep(p) \in {"wipe", "prep", "check"}
    BY Zenon DEF FirstStep
  <2>3. job' \in [Lanes -> [pc : {"off", FirstStep(p)}, file : {{}}, files : {{}}]]
    BY DEF Begin, Off
  <2>4. IsJob(job')
    BY <2>3 DEF IsJob
  <2> QED
    BY <2>1, <2>2, <2>4 DEF Begin, LanesInv, Off
<1> QED
    BY <1>1, <1>2 DEF SweptInv

LEMMA SweptInitially ==
    ASSUME Init
    PROVE  LanesInv /\ SweptInv
<1>1. job \in [Lanes -> [pc : {"off"}, file : {{}}, files : {{}}]]
    BY DEF Init, Off
<1>2. IsJob(job)
    BY <1>1 DEF IsJob
<1> QED
    BY <1>2 DEF Init, LanesInv, SweptInv, Off

LEMMA SweptPreserved ==
    ASSUME LanesInv, SweptInv, [Next]_vars
    PROVE  LanesInv' /\ SweptInv'
<1> USE DEF LanesInv, SweptInv, MadeBy, OnDisk, Spent, Idle, At
<1>1. CASE \E p \in Phases : BeginCommand(p) \/ BeginRun(p)
    BY <1>1, BeginStep DEF BeginCommand, BeginRun
<1>2. CASE \E l \in Lanes : Step(l) \/ RemoveFails(l) \/ End(l)
    BY <1>2, LaneStep
<1>3. CASE SessionEnds
    BY <1>3 DEF SessionEnds, ghosts
<1>4. CASE ReadStop
    BY <1>4 DEF ReadStop
<1>5. CASE CleanupRemoves
  <2>1. OnDisk' = {}
    BY <1>5 DEF CleanupRemoves, NothingOnDisk
  <2>2. [l \in Lanes |-> Sparse] \in [Lanes -> Files]
    BY DEF Files
  <2> QED
    BY <1>5, <2>1, <2>2 DEF CleanupRemoves
<1>6. CASE CleanupClears
    BY <1>6 DEF CleanupClears
<1>7. CASE UNCHANGED vars
    BY <1>7 DEF vars, ghosts
<1> QED
    BY <1>1, <1>2, <1>3, <1>4, <1>5, <1>6, <1>7 DEF Next

\* There are no more files than lanes that may have made one.
LEMMA AtMostOneEach ==
    ASSUME NEW g \in [Lanes -> Files], MadeBy(g)
    PROVE  Cardinality(OnDisk) <= Cardinality(LanesOf(phase))
<1> DEFINE L == LanesOf(phase)
           w == g["writer"]
           r == g["reader"]
<1>1. \A x : IsFiniteSet({x}) /\ Cardinality({x}) = 1
    BY FS_Singleton
<1>2. CASE L = {"writer"}
  <2>1. OnDisk \in SUBSET {w}
    BY <1>2 DEF MadeBy, Spent
  <2> QED
    BY <1>1, <1>2, <2>1, FS_Subset
<1>3. CASE L = {"reader"}
  <2>1. OnDisk \in SUBSET {r}
    BY <1>3 DEF MadeBy, Spent
  <2> QED
    BY <1>1, <1>3, <2>1, FS_Subset
<1>4. CASE L = Lanes
  <2>1. OnDisk \in SUBSET ({w} \cup {r})
    BY <1>4 DEF MadeBy, Spent, Lanes
  <2>2. IsFiniteSet({w} \cup {r}) /\ Cardinality({w} \cup {r}) <= 2
    <3>1. IsFiniteSet({w}) /\ Cardinality({w}) = 1
      BY <1>1
    <3>2. /\ IsFiniteSet({w} \cup {r})
          /\ Cardinality({w} \cup {r}) = IF r \in {w} THEN Cardinality({w})
                                                       ELSE Cardinality({w}) + 1
      BY <3>1, FS_AddElement, Zenon
    <3> HIDE DEF w, r
    <3> QED
      BY <3>1, <3>2
  <2>3. Cardinality(OnDisk) <= 2
    BY <2>1, <2>2, FS_Subset, FS_CardinalityType
  <2>4. L = {"writer"} \cup {"reader"} /\ "reader" \notin {"writer"}
    BY <1>4 DEF Lanes
  <2>5. Cardinality(L) = 2
    <3>1. IsFiniteSet({"writer"}) /\ Cardinality({"writer"}) = 1
      BY <1>1
    <3>2. Cardinality({"writer"} \cup {"reader"})
             = IF "reader" \in {"writer"} THEN Cardinality({"writer"})
                                          ELSE Cardinality({"writer"}) + 1
      BY <3>1, FS_AddElement, Zenon
    <3> QED
      BY <2>4, <3>1, <3>2
  <2> QED
    BY <2>3, <2>5
<1> QED
    BY <1>2, <1>3, <1>4, LanesOfPhase

\* A stop removes what a command has made, except for one operation of each of
\* its goroutines that was under way (CleanupRemoves against the loops of the
\* phases): StopLeavesFew, for any number of files.
THEOREM StopsLeaveFew == Spec => []StopLeavesFew
<1>1. Init => LanesInv /\ SweptInv
    BY SweptInitially
<1>2. LanesInv /\ SweptInv /\ [Next]_vars => LanesInv' /\ SweptInv'
    BY SweptPreserved
<1>3. SweptInv => StopLeavesFew
    BY AtMostOneEach DEF SweptInv, StopLeavesFew
<1> QED
    BY <1>1, <1>2, <1>3, PTL DEF Spec
=============================================================================
