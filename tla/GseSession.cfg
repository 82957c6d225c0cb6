SPECIFICATION SessionSpec
CONSTANTS
    a1 = a1
    c1 = c1
    c2 = c2
    NoConn = NoConn
    Agents = {a1}
    Conns = {c1, c2}
    Dialer <- MCDialer
    ProbeThreshold = 2
    Faults = {"crash", "drop", "silence", "misprobe", "reauth", "admin",
              "restart"}
INVARIANTS
    SessionAuthenticated
PROPERTIES
    SessionEndsForCause
