CONSTANTS
    r1 = r1  c1 = c1  d1 = d1  p1 = p1  p2 = p2
    incident1 = incident1  incident2 = incident2  other = other  vm = vm  otherVm = otherVm
    Requests = {r1}
    Scopes = {incident1}
    VmOf <- VmsOf
    Cases = {c1}
    ScopeOf <- OneVm
    Drills = {d1}
    Procs = {p1}
    None = None
    FirstMonth <- December
    MonthLength = 1
    MaxNow = 1
    MaxWork = 0
SPECIFICATION Spec
PROPERTIES AttachNeedsActivePilot
CHECK_DEADLOCK FALSE
