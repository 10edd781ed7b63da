\* Clients may stop, and the bounds let the others run out.
CHECK_DEADLOCK FALSE
CONSTANTS
    Users = {u1, u2}
    Keys = {t1, t2, t3}
    Rotators = {h1, h2}
    Grants = {g1, g2}
    Null = Null
    MaxTime = 1
    Drift = 1
    Accounts = {u1, u2}
    Emails = {e1}
    Passwords = {g1, g2}
    Tokens = {t1, t2, t3}
    Handlers = {h1, h2}
    Cap = 2
    Nil = Nil
    Reporters = {u1, u2}
    Comments = {c1}
    Submissions = {}
    Reasons = {spam}
    None = None
    Threshold = 2
    Procs = {h1, h2}
SYMMETRY Symmetry
SPECIFICATION TransactionsSpec
INVARIANTS
    UseTimeline
    RedeemedOnce
    RegistrationWhole
    CapRespected
    NoWaitCycle
    AutoHideNotLost
PROPERTIES
    RevocationFinal
    NeverStranded
    ChangedByLink
    NeverNullified
    DispositionFinal
    FreshlyHiddenExact
    ImplementsModeration
