SPECIFICATION Spec
CONSTANTS
    Reporters = {r1, r2, r3}
    Comments = {c1}
    Submissions = {}
    Reasons = {spam}
    None = None
    Threshold = 2
    Procs = {p1}
SYMMETRY Symmetry
PROPERTIES RefilingLeavesTarget
