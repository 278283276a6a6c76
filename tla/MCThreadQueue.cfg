CONSTANTS
    Senders = {s1, s2}
    Receivers = {r1, r2}
    Objects = {a, b}
    None = None
    MaxQueue = 3
SPECIFICATION Spec
INVARIANTS WakeupsMatch
PROPERTY ImplementsChannel
