SPECIFICATION Spec
CONSTANTS
    c1 = c1
    c2 = c2
    r1 = r1
    r2 = r2
    Clients = {c1, c2}
    Readers = {r1, r2}
    Entries <- MCEntries
    MaxBlocks = 3
    ArraySize = 1
    Bulks = {1, 2}
    Budgets <- MCBudgets
SYMMETRY MCSymmetry
CHECK_DEADLOCK FALSE
INVARIANT EntriesOK
INVARIANT BlocksOK
INVARIANT ReadersOK
