SPECIFICATION Spec
CONSTANTS
    Pages = {p1}
    Uses = {"edit", "row", "import", "export", "replace"}
    Ids = {i1, i2}
    Hosts = {"api", "web"}
    Zone = "local.test"
    Inputs <- MCInputs
    Imports <- MCImports
    MaxLoads = 2
    MaxRev = 2
SYMMETRY MCSymmetry
INVARIANT TypeOK
INVARIANT ClientInv
PROPERTY NoLostUpdate
PROPERTY ConfirmedIsApplied
