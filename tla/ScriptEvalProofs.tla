-------------------------- MODULE ScriptEvalProofs --------------------------
(***************************************************************************)
(* Proofs about the evaluation of `var UPSData = [ ... ]` (ScriptEval),   *)
(* for every sequence of row literals, under the hypothesis that the     *)
(* commas between them are right (WellPunctuated): one after every row   *)
(* but the last, and at most one after the last.  The hypothesis is     *)
(* needed: a missing comma merges two rows into an undefined element, a *)
(* doubled one leaves a hole, and run load_table's mutants show each of *)
(* these breaking the properties proved here.                           *)
(***************************************************************************)
EXTENDS ScriptEval, SequenceTheorems, TLAPS

USE RowsAssumption, CommasAssumption, ValuesAssumption


Elem == Row \cup {Undefined}

TypeOK ==
    /\ UPSData \in {Absent, Undefined} \cup Seq(Elem)
    /\ built \in Seq(Elem)
    /\ next \in 1..(Len(Rows) + 1)

USE DEF Elem

(***************************************************************************)
(* The inductive invariant.  With correct commas every element literal   *)
(* is one row, so the array under construction is the prefix of the rows *)
(* read so far, and the index of the next row literal is one past it.    *)
(* The prefix conjunct is what lets Assign be shown to store exactly the *)
(* rows; the next conjunct is what lets EvalElement be shown to append   *)
(* the right one.                                                        *)
(***************************************************************************)
IInv ==
    /\ TypeOK
    /\ next = Len(built) + 1
    /\ \A i \in 1..Len(built) : built[i] = Rows[i]
    /\ UPSData = Absent => built = <<>>
    /\ UPSData \in Seq(Elem) => UPSData = Rows

\* A function on the empty interval is the empty sequence: a comma run of
\* length one leaves no hole.
LEMMA NoHoles == ASSUME NEW x PROVE [h \in 1..0 |-> x] = <<>>
OBVIOUS

\* With correct commas, one EvalElement step appends the next row literal's
\* value and moves past it: no row is joined and no hole is left.
LEMMA EvalElementAppends ==
    ASSUME WellPunctuated, IInv, EvalElement
    PROVE  /\ built' = Append(built, Rows[next])
           /\ next' = next + 1
           /\ UPSData' = UPSData
<1> USE DEF IInv, TypeOK
<1>1. next \in 1..Len(Rows)
    BY DEF EvalElement
<1>2. ~Joined(next)
    BY <1>1 DEF WellPunctuated, Joined
<1>3. Holes(next) = 0
    BY <1>1 DEF WellPunctuated, Holes
<1>4. /\ built' = (built \o <<Rows[next]>>) \o [h \in 1..0 |-> Undefined]
      /\ next' = next + 1
      /\ UPSData' = UPSData
    BY <1>2, <1>3 DEF EvalElement, ElementEnd, ElementValue
<1>5. Rows[next] \in Elem
    BY <1>1 DEF Elem
<1>6. built \o <<Rows[next]>> = Append(built, Rows[next])
    BY <1>5, AppendIsConcat
<1>7. Append(built, Rows[next]) \in Seq(Elem)
    BY <1>5, AppendProperties
<1>. QED  BY <1>4, <1>6, <1>7, NoHoles, ConcatEmptySeq

\* With correct commas, each step of the evaluation preserves IInv.
LEMMA IInvStep ==
    ASSUME WellPunctuated PROVE IInv /\ [Next]_vars => IInv'
<1> SUFFICES ASSUME IInv, [Next]_vars PROVE IInv'
    OBVIOUS
<1>1. CASE Instantiate
    BY <1>1 DEF Instantiate, IInv, TypeOK
<1>2. CASE EvalElement
    <2>. USE DEF IInv, TypeOK
    <2>0. /\ UPSData = Undefined
          /\ next \in 1..Len(Rows)
        BY <1>2 DEF EvalElement
    <2>1. /\ built' = Append(built, Rows[next])
          /\ next' = next + 1
          /\ UPSData' = UPSData
        BY <1>2, EvalElementAppends
    <2>2. Rows[next] \in Elem
        BY <2>0
    <2>3. /\ built' \in Seq(Elem)
          /\ Len(built') = Len(built) + 1
          /\ \A i \in 1..Len(built) : built'[i] = built[i]
          /\ built'[Len(built) + 1] = Rows[next]
        BY <2>1, <2>2, AppendProperties
    <2>4. \A i \in 1..Len(built') : built'[i] = Rows[i]
        BY <2>0, <2>1, <2>3
    <2>. QED  BY <2>0, <2>1, <2>3, <2>4, ValuesAssumption
<1>3. CASE Assign
    <2>. USE DEF IInv, TypeOK
    <2>1. Len(built) = Len(Rows)
        BY <1>3 DEF Assign
    <2>2. built = Rows
        BY <2>1, SeqEqual
    <2>. QED  BY <1>3, <2>2 DEF Assign
<1>4. CASE UNCHANGED vars
    BY <1>4 DEF vars, IInv, TypeOK
<1>. QED  BY <1>1, <1>2, <1>3, <1>4 DEF Next

\* With correct commas, IInv holds in every reachable state.
LEMMA IInvCorrect ==
    ASSUME WellPunctuated PROVE Spec => []IInv
<1>1. Init => IInv
    BY EmptySeq DEF Init, IInv, TypeOK
<1>. QED  BY <1>1, IInvStep, PTL DEF Spec

\* A loaded UPSData is exactly the sequence of row literals.
LEMMA LoadedIsRows == IInv /\ Loaded => UPSData = Rows
BY DEF IInv, TypeOK, Loaded

(***************************************************************************)
(* The table a reader finds.                                              *)
(***************************************************************************)

\* With correct commas the loaded table has one element per authored row
\* (RowCount, spec section 8), whatever the rows are.
THEOREM RowCountHolds ==
    ASSUME WellPunctuated PROVE Spec => []RowCount
<1>1. IInv => RowCount
    BY LoadedIsRows DEF RowCount
<1>. QED  BY <1>1, IInvCorrect, PTL

\* Correct commas and well-formed row literals give a table whose every
\* element is a well-formed row, with no undefined element (RowsWellFormed).
THEOREM StoredRowsWellFormed ==
    ASSUME WellPunctuated, RowsWellFormedIn(Rows)
    PROVE  Spec => []RowsWellFormed
<1>1. IInv => RowsWellFormed
    BY LoadedIsRows DEF RowsWellFormed
<1>. QED  BY <1>1, IInvCorrect, PTL

\* Correct commas and row literals without repeats give a table without
\* repeated rows (NoDuplicateRows).
THEOREM StoredNoDuplicateRows ==
    ASSUME WellPunctuated, NoDuplicatesIn(Rows)
    PROVE  Spec => []NoDuplicateRows
<1>1. IInv => NoDuplicateRows
    BY LoadedIsRows DEF NoDuplicateRows
<1>. QED  BY <1>1, IInvCorrect, PTL

\* One tier per vendor among the row literals holds of the table
\* (LevelPerVendor).
THEOREM StoredLevelPerVendor ==
    ASSUME WellPunctuated, LevelPerVendorIn(Rows)
    PROVE  Spec => []LevelPerVendor
<1>1. IInv => LevelPerVendor
    BY LoadedIsRows DEF LevelPerVendor
<1>. QED  BY <1>1, IInvCorrect, PTL

\* Vendor blocks among the row literals stay blocks in the table
\* (VendorsContiguous).
THEOREM StoredVendorsContiguous ==
    ASSUME WellPunctuated, VendorsContiguousIn(Rows)
    PROVE  Spec => []VendorsContiguous
<1>1. IInv => VendorsContiguous
    BY LoadedIsRows DEF VendorsContiguous
<1>. QED  BY <1>1, IInvCorrect, PTL

=============================================================================
