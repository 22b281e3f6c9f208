SPECIFICATION BuilderSpec
CONSTANTS
    Addresses = {a1, a2, a3, a4}
    Unset = Unset
    MaxDrafts = 2
INVARIANTS
    ClientInitializes
