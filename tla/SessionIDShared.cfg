CONSTANTS
    p1 = p1
    p2 = p2
    w1 = w1
    w2 = w2
    s1 = s1
    s2 = s2
    h1 = h1
    h2 = h2
    Hosts = {h1, h2}
    Threads = {p1, p2, w1, w2}
    Sids <- One
    Calls <- SharedPollers
    MaxKeep = 1
    Drop = 1
    MaxInt = 15
    MaxWrites = 3
    MaxHosts = 1
    MaxDelivered = 3
SPECIFICATION Spec
INVARIANTS PollComplete HostsUnique
PROPERTIES IteratorsStayValid
