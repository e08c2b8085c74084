SPECIFICATION Spec
CONSTANTS
    a1 = a1
    a2 = a2
    a3 = a3
    h1 = h1
    h2 = h2
    n1 = n1
    n2 = n2
    Addresses = {a1, a2, a3}
    Hosts = {h1, h2}
    HostOf <- TwoOfOne
    NfsOf <- FileSystem
    NoNfs = NoNfs
    NoHost = NoHost
    Own = a1
    Replies = {"ok", "cookie"}
    Known <- TwoNames
    AutoOn = {a1, a2}
    KeyUsers = {a3}
    MaxRequests = 2
    MaxProviders = 2
    MaxCuts = 1
INVARIANTS TypeOK OneDomain OneLogin NodesShown SomebodyTries
PROPERTY ConnectAllEnds
CHECK_DEADLOCK FALSE
