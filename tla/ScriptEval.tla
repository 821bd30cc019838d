----------------------------- MODULE ScriptEval -----------------------------
(***************************************************************************)
(* Evaluation of the only statement of ups_data.js,                        *)
(*                                                                         *)
(*     var UPSData = [ row_1 c_1 row_2 c_2 ... row_n c_n ]                 *)
(*                                                                         *)
(* where each row_i is an array literal of five cells and c_i is the run  *)
(* of commas the author typed after it (one in a correct file).  What the *)
(* table a reader finds depends on those commas:                          *)
(*   - one comma separates two elements;                                   *)
(*   - k > 1 commas leave k - 1 holes (elisions), each read as undefined; *)
(*     after the last row the first comma is a permitted trailing comma;  *)
(*   - no comma makes `row_i [row_j]` a member access: the bracket is a   *)
(*     comma expression whose value is row_j's last cell (its driver), no *)
(*     array has a property of that name, so the element is undefined;   *)
(*     a third row joined on, `undefined [row_k]`, throws a TypeError,    *)
(*     which ends the script with the binding still undefined.            *)
(* Global declaration instantiation first creates the binding with value  *)
(* undefined; the initialiser then evaluates the elements left to right   *)
(* and the finished array is stored into the binding.                     *)
(***************************************************************************)
EXTENDS Naturals, Sequences

CONSTANTS
    Rows,       \* the values of the row literals, in source order
    Commas,     \* Commas[i]: the number of commas typed after row i
    Row,        \* the arrays the row literals may denote
    Absent,     \* no global binding named UPSData exists
    Undefined   \* the JavaScript value undefined (also what a hole reads as)

ASSUME RowsAssumption == Rows \in Seq(Row)

ASSUME CommasAssumption == Commas \in [1..Len(Rows) -> Nat]

ASSUME ValuesAssumption ==
    /\ Absent # Undefined
    /\ Absent \notin Row
    /\ Undefined \notin Row
    /\ Absent \notin Seq(Row \cup {Undefined})
    /\ Undefined \notin Seq(Row \cup {Undefined})

VARIABLES
    UPSData,  \* the global binding: Absent, Undefined or an array
    built,    \* the array the initialiser is building
    next      \* the index of the next row literal to evaluate

vars == <<UPSData, built, next>>

Init ==
    /\ UPSData = Absent
    /\ built = <<>>
    /\ next = 1

\* GlobalDeclarationInstantiation: `var UPSData` binds undefined (line 1).
Instantiate ==
    /\ UPSData = Absent
    /\ UPSData' = Undefined
    /\ UNCHANGED <<built, next>>

\* Row literal i is followed by another without a comma: `row_i [row_j]`.
Joined(i) == i < Len(Rows) /\ Commas[i] = 0

\* The last row literal of the element that starts at row literal i.
ElementEnd(i) == IF Joined(i) THEN i + 1 ELSE i

\* The value of that element: a member access on an array is undefined.
ElementValue(i) == IF Joined(i) THEN Undefined ELSE Rows[i]

\* The holes that the comma run after row literal i leaves.
Holes(i) == IF Commas[i] = 0 THEN 0 ELSE Commas[i] - 1

\* ArrayLiteral evaluation of the element that starts at row literal
\* `next` (lines 3-554), with the holes that the commas after it leave.
\* When a third row literal follows without a comma, `undefined [row_k]`
\* throws a TypeError: no step is possible any more.
EvalElement ==
    /\ UPSData = Undefined
    /\ next <= Len(Rows)
    /\ ~(Joined(next) /\ Joined(ElementEnd(next)))
    /\ built' = (built \o <<ElementValue(next)>>)
                  \o [h \in 1..Holes(ElementEnd(next)) |-> Undefined]
    /\ next' = ElementEnd(next) + 1
    /\ UNCHANGED UPSData

\* PutValue: at the closing bracket (line 555) the array is stored.
Assign ==
    /\ UPSData = Undefined
    /\ next = Len(Rows) + 1
    /\ UPSData' = built
    /\ UNCHANGED <<built, next>>

Next == Instantiate \/ EvalElement \/ Assign

\* A browser runs a classic script to completion once it has started it.
Spec == Init /\ [][Next]_vars /\ WF_vars(Next)

-----------------------------------------------------------------------------
(* Properties.                                                             *)

\* The binding holds an array once the statement has completed.
Loaded == UPSData \notin {Absent, Undefined}

\* One comma after every row but the last, at most one after the last.
WellPunctuated ==
    /\ \A i \in 1..(Len(Rows) - 1) : Commas[i] = 1
    /\ Len(Rows) > 0 => Commas[Len(Rows)] \in {0, 1}

\* The elements of a table that are rows rather than undefined.
RowIndices(t) == {i \in DOMAIN t : t[i] # Undefined}

WellFormedRow(r) ==
    /\ r # Undefined
    /\ Len(r) = 5
    /\ \A k \in 2..5 : r[k] \in STRING
    /\ r[2] # ""
    /\ r[5] # ""

(***************************************************************************)
(* What a table t must satisfy.  The properties below state these of the  *)
(* table a reader finds in UPSData.                                       *)
(***************************************************************************)
RowsWellFormedIn(t) == \A i \in DOMAIN t : WellFormedRow(t[i])

NoDuplicatesIn(t) == \A i, j \in RowIndices(t) : i < j => t[i] # t[j]

LevelPerVendorIn(t) ==
    \A i, j \in RowIndices(t) : t[i][2] = t[j][2] => t[i][1] = t[j][1]

VendorsContiguousIn(t) ==
    \A i, j \in RowIndices(t) :
        (i < j /\ t[i][2] = t[j][2])
            => \A k \in i..j : t[k] # Undefined /\ t[k][2] = t[i][2]

\* Every element of the loaded table is a row [tier, vendor, model, note,
\* driver] with string cells and a non-empty vendor and driver; a merged
\* row or a hole (an undefined element) violates it.
RowsWellFormed == Loaded => RowsWellFormedIn(UPSData)

\* The loaded table has one element per authored row (spec section 8): a
\* missing comma loses one, a doubled comma adds a hole.
RowCount == Loaded => Len(UPSData) = Len(Rows)

\* No row of the loaded table is a copy of another.
NoDuplicateRows == Loaded => NoDuplicatesIn(UPSData)

\* All rows of one vendor in the loaded table carry the same support tier.
LevelPerVendor == Loaded => LevelPerVendorIn(UPSData)

\* The rows of a vendor form one block of the loaded table.
VendorsContiguous == Loaded => VendorsContiguousIn(UPSData)

\* The statement completes and UPSData receives the table; three rows in
\* a row without commas throw a TypeError and leave it undefined for good.
TableEventuallyLoaded == <>Loaded

=============================================================================
