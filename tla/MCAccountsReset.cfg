CONSTANTS
    Accounts = {a1}
    Emails = {e1}
    Passwords = {p1}
    Tokens = {t1, t2, t3}
    Handlers = {h1, h2}
    Cap = 2
    Nil = Nil
SYMMETRY Symmetry
SPECIFICATION AccountsSpec
INVARIANTS
    OneResetLink
CHECK_DEADLOCK FALSE
