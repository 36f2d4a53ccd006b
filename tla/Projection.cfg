SPECIFICATION Spec
CONSTANTS
    a = a  b = b  k1 = k1  k2 = k2
    Parts = {a, b}
    Names <- Lookalikes
    PrefixNames <- NoneOrA
    Shown <- BIsShownAsA
    Keys = {k1, k2}
    Rules <- AllOrNot
    None = None
    MaxNodes = 2
    MaxChanges = 1
SYMMETRY Rotated
INVARIANTS NamesUnique LinesKeepWorking
CHECK_DEADLOCK FALSE
