SPECIFICATION FairSpec
CONSTANTS
    u1 = u1
    u2 = u2
    m1 = m1
    m2 = m2
    m3 = m3
    Users = {u1, u2}
    Messages = {m1, m2, m3}
    Sender <- MCSender
    Window = 1
    MaxTime = 2
    DeliveryLimit = 4
    StartLimit = 2
    ClockMayStepBack = FALSE
    ChildMayDie = TRUE
    HandlerMayRaise = TRUE
    PersistMayFail = TRUE
    Durable = TRUE
INVARIANTS NothingLostInBetween DeduplicatedWithinWindow StateReflectsHandling SessionsNotShared
PROPERTY EventsAreHandled
