CONSTANTS
    BaseCount = 2
    IndexCount = 6
    SpecialIndices <- MCSpecialIndices
    Ids <- MCIds
    Objects = {o1, o2}
    Null = Null
SPECIFICATION Spec
INVARIANTS TypeOK BucketsWellFormed InsertsAgree FindsAgree
PROPERTIES ImplementsIDMap
