CONSTANTS
    Users = {u1}
    Keys = {k1, k2, k3}
    Rotators = {h1, h2}
    Grants = {free}
    Null = Null
    MaxTime = 1
    Drift = 0
SPECIFICATION KeySpec
INVARIANT RotateRotateNoop
