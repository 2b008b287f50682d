SPECIFICATION MCSpec
CONSTANTS
    ClientKeys = {"a", "b,c"}
    Words = {"a", "b", "c", "b,c"}
    Pieces <- PiecesOf
    Instances = {i1}
    Faults = {"calls", "volume", "restart", "crash", "save"}
    MaxBegun = 6
INVARIANTS OneSetOpensAll DeletedKeysRefused
