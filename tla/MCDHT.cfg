SPECIFICATION Spec
CONSTANTS
    n1 = n1
    n2 = n2
    n3 = n3
    n4 = n4
    a1 = a1
    a2 = a2
    Addrs = {a1, a2}
    Senders <- SomeSenders
    BucketOf <- SomeBuckets
    Buckets = {0, 1}
    NodeIds = {n1, n2, n3, n4}
    K = 2
    Dubious = 1
    Bad = 2
    MaxTableTime = 3
    Contacts = {n1, n2, n3, n4}
    Target = n1
    Start = {n1, n2}
    Listings = {{}, {n3}, {n1, n3}, {n2, n4}, {n3, n4}}
    FirstAsked = 2
    SearchDepth = 2
    Refuses = TRUE
    MaxQueries = 4
    Clients = {c1}
    Hashes = {h1}
    Server = s
    Half = 2
    Keep = 3
    MaxTokenTime = 5
    Programs = {{"get_peers"}, {"ping", "find_node"}}
    Parts = {"table", "search", "token"}
CHECK_DEADLOCK FALSE
INVARIANTS
    TableTypeOK
    SearchTypeOK
    TokenTypeOK
    CallbackOnce
    
    WithinDepth
    
    TokenDies
PROPERTIES
    OnlyBadNodesGiveWay
    AddressesStay
    RestartIsSound
