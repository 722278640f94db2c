SPECIFICATION Spec
CONSTANTS
    N = 1019
    g = 2
    Names = {a}
    Titles = {t, u}
    Passwords = {7, 11}
    Secrets = {4, 5, 6}
    Null = Null
    Lossy = FALSE
SYMMETRY Symmetry
INVARIANT EditKeepsEntry
