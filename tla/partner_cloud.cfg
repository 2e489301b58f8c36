CONSTANTS
    p1 = p1  p2 = p2  a1 = a1  a2 = a2  o1 = o1  o2 = o2
    Partners = {p1, p2}
    OrderIds = {o1, o2}
    Documents <- Files
    Operators = {a1, a2}
    Latencies <- Speeds
    None = None
    FirstMonth <- December
    MonthLength = 1
    MaxNow = 1
    MaxProbes = 2
    MaxScores = 1
SPECIFICATION ShapedSpec
INVARIANTS StatementIsRight ProbesAreOwed
PROPERTIES OrderStands
SYMMETRY PartnerSymmetry
CHECK_DEADLOCK FALSE
