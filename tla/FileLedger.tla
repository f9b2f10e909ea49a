----------------------------- MODULE FileLedger -----------------------------
(***************************************************************************)
(* The list a client keeps of the files it has created: which there are,   *)
(* which of them were written by the bandwidth phases, the next index to   *)
(* use, and a cursor for the delete phases.  A file is its index; one      *)
(* operator stands for one method, which holds the mutex from beginning to *)
(* end, and yields the ledger after it.                                    *)
(***************************************************************************)
EXTENDS Naturals, SequencesExt

\* A search yields the set of what it finds: one file or none.
NoFile == {}

NewFileLedger == [indices |-> << >>, bwIndices |-> << >>, next |-> 0, delPos |-> 0]

Ledgers == [indices : Seq(Nat), bwIndices : Seq(Nat), next : Nat, delPos : Nat]

\* Mutant: the next index is left alone.
Add_KeepsNext(l, i) == [l EXCEPT !.indices = Append(@, i)]

\* Indices are handed out by NextIndex, but the ledger may have been cleared
\* since.
Add(l, i) ==
    [l EXCEPT !.indices = Append(@, i),
              !.next = IF i >= @ THEN i + 1 ELSE @]

AddBW(l, i) == [Add(l, i) EXCEPT !.bwIndices = Append(@, i)]

TakeIndex(l) == [l EXCEPT !.next = @ + 1]

ClearBW(l) == [l EXCEPT !.bwIndices = << >>]

ResetDeleteCursor(l) == [l EXCEPT !.delPos = 0]

Clear(l) == NewFileLedger

-----------------------------------------------------------------------------
(***************************************************************************)
(* NextExistingPath.  The state of its loop: the ledger, the number of     *)
(* missing files met, what was found, and whether the loop is over.        *)
(***************************************************************************)

\* Mutant: no wrap.
Look_NoWrap(s, disk, remove) ==
    LET l == s.ledger
        p == l.delPos
        i == l.indices[p + 1]
    IN  IF s.over \/ s.scanned >= Len(l.indices) \/ p >= Len(l.indices)
        THEN [s EXCEPT !.over = TRUE]
        ELSE [ledger  |-> IF remove THEN [l EXCEPT !.indices = RemoveAt(@, p + 1)]
                                    ELSE [l EXCEPT !.delPos = p + 1],
              scanned |-> IF i \in disk THEN s.scanned ELSE s.scanned + 1,
              found   |-> {i} \cap disk,
              over    |-> i \in disk]

\* One turn.  At the end of the list the final delete gives up; the others wrap.
\* The entry looked at is taken out, or the cursor moves past it.
Look(s, disk, remove) ==
    LET l == s.ledger
        p == IF l.delPos >= Len(l.indices) THEN 0 ELSE l.delPos
        i == l.indices[p + 1]
    IN  IF \/ s.over
           \/ s.scanned >= Len(l.indices)
           \/ remove /\ l.delPos >= Len(l.indices)
        THEN [s EXCEPT !.over = TRUE]
        ELSE [ledger  |-> IF remove THEN [l EXCEPT !.indices = RemoveAt(@, p + 1)]
                                    ELSE [l EXCEPT !.delPos = p + 1],
              scanned |-> IF i \in disk THEN s.scanned ELSE s.scanned + 1,
              found   |-> {i} \cap disk,
              over    |-> i \in disk]

\* Each turn but the last meets a missing file, and there are at most as many
\* of them as entries.
NextExistingPath(l, disk, remove) ==
    LET turn[n \in 0..Len(l.indices) + 1] ==
            IF n = 0
            THEN [ledger |-> l, scanned |-> 0, found |-> NoFile, over |-> FALSE]
            ELSE Look(turn[n - 1], disk, remove)
    IN  turn[Len(l.indices) + 1]

-----------------------------------------------------------------------------
(***************************************************************************)
(* What NextExistingPath promises: the first file that exists, from the    *)
(* cursor on and around the end of the list.                               *)
(***************************************************************************)

\* The positions of a list, in the order in which a cursor meets them.
FromCursor(l) ==
    LET n == Len(l.indices)
        p == IF l.delPos >= n THEN 0 ELSE l.delPos
    IN  [k \in 1..n |-> ((p + k - 1) % n) + 1]

FirstExisting(l, disk) ==
    LET order == FromCursor(l)
        there == {k \in DOMAIN order : l.indices[order[k]] \in disk}
    IN  IF there = {}
        THEN NoFile
        ELSE {l.indices[order[CHOOSE k \in there : \A j \in there : k <= j]]}
=============================================================================
