CONSTANTS
    A = A  B = B  C = C  D = D  s1 = s1  s2 = s2
    Ids = {1, 2, 3, 4}
    Assets = {A, B, C, D}
    Entry <- MCEntry
    None = None
    MaxLedger = 2
    MaxBatch = 2
    Queries <- MCQueries
    Width = 6
    NoOne = NoOne
SPECIFICATION Spec
INVARIANTS IndexesAgree AsksAreBest ConversionFair PathsAreBest
PROPERTY BookSpec
