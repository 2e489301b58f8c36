CONSTANTS
    c1 = c1  c2 = c2  p1 = p1  p2 = p2
    incident1 = incident1  incident2 = incident2
    Cases = {c1, c2}
    Procs = {p1, p2}
    Scopes = {incident1, incident2}
    ScopeOf <- TwoScopes
    None = None
    MaxJobs = 3
SPECIFICATION ShapedSpec
INVARIANTS TypeOK OneWritePerCase RecordedMeansAttempted LedgerIsTrue DoneIsVerifiable
PROPERTIES ImplementsLifecycle
SYMMETRY ProcSymmetry
