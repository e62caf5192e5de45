CONSTANTS
    p1 = p1
    p2 = p2
    w1 = w1
    w2 = w2
    s1 = s1
    s2 = s2
    h1 = h1
    h2 = h2
    Hosts = {h1, h2}
    Threads = {p1, w1}
    Sids <- Both
    Calls <- OnePoller
    MaxKeep = 2
    Drop = 1
    MaxInt = 15
    MaxWrites = 4
    MaxHosts = 1
    MaxDelivered = 9
SPECIFICATION LiveSpec
INVARIANTS TypeOK NumbersIncrease StoreBound
PROPERTIES CursorForward MailboxSpec EventuallyReceived
