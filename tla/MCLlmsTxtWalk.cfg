CONSTANTS
    Entries = {d1, d2, d3}
    Weight <- MCWeight
    MaxStamp = 2
    SearchPageSize = 1
    PageBudget = 2
    SinglePageCap = 2
SYMMETRY Symmetry
SPECIFICATION LlmsSpec
INVARIANT WalkListsAll
