# Verification of `docs/website/scripts/ups_data.js`

## The system

The repository's source under `src/` is a single 555-line JavaScript file,
`docs/website/scripts/ups_data.js`. Its only statement is

    var UPSData = [ [tier, vendor, model, note, driver], ... ]

It holds 552 five-cell rows, one per UPS/PDU model supported by a driver
(lines 3-554, one row per line). A page of the project website reads the global `UPSData` and
renders it as the hardware compatibility list. That page is not in `src/`,
and the spec puts it out of scope.

### Inventory

| Component | State | Operations | Interaction |
|---|---|---|---|
| Compatibility table (`UPSData`) | The global binding `UPSData`. While the initialiser runs, it also has the array under construction. | Global declaration instantiation (`var` hoisting, line 1). Evaluation of each element literal (lines 3-554). The store of the finished array (line 555). | Shared state: a page-global variable that other scripts of the page read. |
| Hardware list page (renderer) | Not in this repository's source | Reads `UPSData` once, then sorts, filters and renders it | Reads the shared global |

There is no concurrency, persistence or messaging. What can go wrong lies in
how the hand-typed text evaluates. Each row sits on its own line and ends with
a comma, and the commas decide what a reader finds:

- one comma separates two elements;
- a missing comma is not a syntax error. `[..., "a"] [..., "d"]` is a member
  access whose key is a comma expression (the second row's driver string).
  No array has such a property, so the two rows become one `undefined`
  element and the table is one row short;
- a third row joined the same way evaluates `undefined [...]`. That is a
  TypeError at load time: the script aborts and `UPSData` stays `undefined`;
- a doubled comma is an elision: an extra `undefined` element (a hole) that
  counts in `length`.

What makes the table correct:

- one element per authored row (spec section 8);
- every element is a row of 5 cells with string cells and a non-empty vendor
  and driver;
- no row is duplicated;
- each vendor's rows form one block;
- each vendor's rows carry a single tier;
- the table is eventually stored.

The hazards are listed in `PROJECT.json` ("hazards"), each at the line where it bites.

## Modules

| Module | Models | Correspondence to the code |
|---|---|---|
| `UPSTable` | The data, lines 3-554 | `UPSDataA` to `UPSDataD` transcribe lines 3-150, 151-300, 301-450 and 451-554 (two rows to a TLA+ line). Each row is a 5-tuple of the values its literals evaluate to; the one escape `\/` on line 210 becomes `/`. `UPSDataLiteral` is the sequence of row literals. `UPSDataCommas[i]` is the number of commas after row `i`: one after each row, none after the last (line 554). The module also holds six variants, each an authoring slip used as a mutant. |
| `ScriptEval` | The evaluation of the statement | Variables: `UPSData` (the binding), `built` (the array the initialiser is building) and `next` (the index of the next row literal). `Instantiate` is GlobalDeclarationInstantiation: `var` creates the binding with value undefined. `EvalElement` is ArrayLiteral evaluation of one element: the row at `next`, or `undefined` when the next row is `Joined` to it, followed by the `Holes` its comma run leaves. Its guard rules out a third joined row: that throws, and no step follows. `Assign` is PutValue at the closing bracket. `CONSTANTS`: `Rows`, `Commas`, `Row` (the arrays rows may denote), and the model values `Absent` and `Undefined`. |
| `MC_UPSData` | The TLC instance | `Rows <- UPSDataLiteral` and `Commas <- UPSDataCommas` (the real file). `Row` is the set of its rows. |
| `ScriptEvalProofs` | The TLAPS proofs | Extends `ScriptEval`, `SequenceTheorems` and `TLAPS`. |

`ScriptEval` has three named assumptions, all checked by TLC in the run:

- `RowsAssumption`: the row literals are a sequence of rows.
- `CommasAssumption`: `Commas` gives a natural number for each row.
- `ValuesAssumption`: `Absent` and `Undefined` are distinct, and neither is a row or an array.

The tier is not checked against a fixed set. The file uses 1, 3, 4 and 5, and
the legend that defines the tiers is not in the repository, so any fixed set
would only restate the data.

## Runs

`load_table` (`MC_UPSData.cfg`, expected to pass) explores 555 distinct
states: one per step of the evaluation of the real file. It checks these
properties on the table a reader finds in `UPSData`:

- `RowsWellFormed`: every element is a well-formed row, so none is `undefined`.
- `RowCount`: the table has one element per authored row.
- `NoDuplicateRows`: no row is a copy of another.
- `LevelPerVendor`: all rows of a vendor carry the same tier.
- `VendorsContiguous`: the rows of a vendor form one block.
- `TableEventuallyLoaded`: the statement completes and `UPSData` holds an
  array. This fails when three rows are joined.

The bounds are not a choice. The run evaluates the actual file, so every row
and every comma is checked.

The cfg sets `CHECK_DEADLOCK FALSE` because the script really stops once
`UPSData` is stored (or once it throws).

Fairness: `WF_vars(Next)`. A browser runs a classic script to completion once
it has started it. This assumes the page loads the script at all.

Each property has a mutant, an authoring slip, that TLC catches:

- `CommasOneMissing` (the comma ending line 12 forgotten) breaks `RowsWellFormed`.
- `CommasOneDoubled` (that comma typed twice) breaks `RowCount`.
- `CommasTwoMissing` (the commas ending lines 12 and 13 forgotten) breaks
  `TableEventuallyLoaded`: the TypeError leaves `UPSData` undefined.
- `LiteralDuplicatedRow` (a row pasted twice) breaks `NoDuplicateRows`.
- `LiteralLevelConflict` (an APC row with tier 3) breaks `LevelPerVendor`.
- `LiteralRowOutOfBlock` (an APC row appended at the bottom) breaks
  `VendorsContiguous`.

Data observations that are not properties:

- The vendor order is case-insensitively alphabetical except at three places: lines 158, 476 and 492. The spec only promises the authored order, so this is not checked.
- The spec allows repeated (vendor, model, note) triples. None occurs in the data.

## Proofs (`ScriptEvalProofs`)

The theorems hold for every sequence of row literals whose commas are right
(`WellPunctuated`: one comma after every row but the last, at most one after
the last). The hypothesis cannot be dropped: the comma mutants above violate
each conclusion. `UPSDataCommas` satisfies it by its definition.

- `RowCountHolds`: `Spec => []RowCount`.
- `StoredRowsWellFormed`, `StoredNoDuplicateRows`, `StoredLevelPerVendor` and
  `StoredVendorsContiguous`. Each also assumes that the row literals satisfy
  one table predicate (`RowsWellFormedIn(Rows)` and so on). It concludes
  `Spec => []P` for the matching property `P`. The TLC run establishes that
  hypothesis for the actual 552 rows.

The argument is the inductive invariant `IInv` (lemma `IInvCorrect`):

- the type invariant `TypeOK`;
- `next = Len(built) + 1`;
- `built` agrees with `Rows` on its indices;
- an absent binding has nothing built;
- a loaded binding is exactly `Rows`.

It is needed because `Assign` can only be shown to store exactly the rows if
`built` is already known to be their prefix, and `EvalElement` can only be
shown to append the right row if `next` is tied to `Len(built)`. The lemma
`EvalElementAppends` shows that under `WellPunctuated` an element is never
joined and leaves no hole, so each step is an `Append`. `IInvStep` has one
step per action; `SeqEqual`, `AppendProperties`, `AppendIsConcat` and
`ConcatEmptySeq` from `SequenceTheorems` do the sequence reasoning.
`LoadedIsRows` (`IInv /\ Loaded => UPSData = Rows`) then gives each theorem.

What stays with TLC only:

- The liveness property `TableEventuallyLoaded`. TLAPS does not handle fairness or ENABLED.
- That the 552 rows of the file satisfy the four table predicates. This is a
  fact about one value, checked by evaluation.
- The properties for badly punctuated files, where they fail; the run's
  mutants show how.

## Not modelled

- **The page that renders the table.** It is not in `src/`, and the spec gives it no behaviour to model.
- **JavaScript tokenizing and parsing.** Two hazards would need it:
  - an unbalanced quote or bracket anywhere in the file is a syntax error
    that loses the whole table;
  - the statement has no terminating semicolon, which matters if the file is
    concatenated with another script.
- **Pre-ES5 engines.** The model gives a trailing comma after the last row
  the ES5 meaning (nothing); old JScript engines added an `undefined`
  element.

These are listed as hazards with no property.
