SPECIFICATION Spec
CONSTANTS
    N = 3
    Laps = 2
    Length = 2
    Viewers = {c1, c2}
    Starters = {c1}
    AutoEnd = TRUE
INVARIANTS RankedUnlessPunished ClientsAgree OneResult
CHECK_DEADLOCK FALSE
