\* The client may stop.
CHECK_DEADLOCK FALSE
CONSTANTS
    Procs = {p1}
    Users = {}
    Clock = {0}
    None = None
    Results = {{g1, g2}}
    RowCap = 3
    PageSize = 1
SPECIFICATION PagesSpec
INVARIANT WalkComplete
