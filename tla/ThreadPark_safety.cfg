\* One parker, three unparkers, three waits that end without a notification.
SPECIFICATION Spec
CONSTANTS
    u1 = u1
    u2 = u2
    u3 = u3
    Parker = parker
    NoThread = NoThread
    Unparkers <- ThreeUnparkers
    MaxTimeouts = 3
INVARIANTS
    TypeOK
    NoUnreachable
PROPERTY KeepsPermit
