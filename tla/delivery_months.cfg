CONSTANTS
    r1 = r1  c1 = c1  d1 = d1  p1 = p1  p2 = p2
    incident1 = incident1  incident2 = incident2  other = other  vm = vm  otherVm = otherVm
    Requests = {r1}
    Scopes = {incident1, incident2, other}
    VmOf <- VmsOf
    Cases = {c1}
    ScopeOf <- OneVm
    Drills = {d1}
    Procs = {p1, p2}
    None = None
    FirstMonth <- December
    MonthLength = 1
    MaxNow = 1
    MaxWork = 1
SPECIFICATION Spec
INVARIANTS TypeOK RowsInService CountedOnce ReportIsRight
PROPERTIES ActivationStands
SYMMETRY ProcSymmetry
CHECK_DEADLOCK FALSE
