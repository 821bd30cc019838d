CONSTANTS
    Rows <- UPSDataLiteral
    Commas <- UPSDataCommas
    Row <- MCRow
    Absent = Absent
    Undefined = Undefined

SPECIFICATION Spec

INVARIANTS
    RowsWellFormed
    RowCount
    NoDuplicateRows
    LevelPerVendor
    VendorsContiguous

PROPERTIES
    TableEventuallyLoaded

\* The script stops for good once the table is stored.
CHECK_DEADLOCK FALSE
