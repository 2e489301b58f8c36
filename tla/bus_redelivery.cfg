CONSTANTS
    r1 = r1  r2 = r2  a1 = a1  a2 = a2  b1 = b1  b2 = b2
    north = north  stranger = stranger  none = none
    Receivers = {r1, r2}
    Alerts = {a1}
    Bodies = {b1, b2}
    Senders = {north, stranger}
    ConfigOf <- MCConfigOf
    NoConfig = none
    MaxDelivery = 2
    MaxSends = 2
SPECIFICATION FairSpec
INVARIANTS SettledForCause
PROPERTIES ImplementsIntake EveryMessageSettles
