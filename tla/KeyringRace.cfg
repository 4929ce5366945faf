SPECIFICATION KeyringSpec
CONSTANTS
    Instance = {n1, n2}
    RingCall = {g1, g2}
    Key = {k1, k2}
    Bootstrap = Bootstrap
PROPERTIES
    RotationKeepsKeys
CHECK_DEADLOCK FALSE
