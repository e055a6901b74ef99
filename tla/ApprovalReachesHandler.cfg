SPECIFICATION Spec
CONSTANTS
    c1 = c1
    c2 = c2
    t1 = t1
    t2 = t2
    t3 = t3
    Calls = {c1, c2}
    Tools <- MCSdkTools
    Tickets = {t1, t2}
    NoTicket = NoTicket
    Ttl = 1
    ClockLimit = 2
INVARIANT ApprovalReachesHandler
