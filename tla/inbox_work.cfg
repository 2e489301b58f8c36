CONSTANTS
    h1 = h1  h2 = h2  h3 = h3  w1 = w1  w2 = w2
    a1 = a1  a2 = a2  b1 = b1  b2 = b2  n1 = n1  n2 = n2  n3 = n3
    north = north  south = south  none = none
    Handlers = {h1}
    Workers = {w1, w2}
    Alerts = {a1, a2}
    Bodies = {b1, b2}
    Nonces = {n1, n2, n3}
    Configs = {north, south}
    NoConfig = none
    Requests <- MCWorkRequests
    ConfigOf <- MCConfigOf
    MaxSkew = 1
    NonceRetention = 2
    LeaseLen = 1
    MaxAttempts = 2
    MaxNow = 0
SPECIFICATION FairSpec
INVARIANTS TypeOK CaseNamesItsAlert SettledForCause
PROPERTIES ImplementsIntake EveryMessageSettles
