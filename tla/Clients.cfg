SPECIFICATION Spec
CONSTANTS
    ForgePosts = {p1, p2}
    Posts = {p1, p2, p3}
    NoPost = NoPost
    BlankAt = {"bitbucket"}
    Conns = {c1, c2}
    NoConn = NoConn
    Explicit = {}
    Wildcard = {w}
    RefreshCycles = 1
    Reactions = {r1, b1}
    BotReactions = {b1}
    NoComment = NoComment
    Requests = {q1, q2}
    NoRequest = NoRequest
    Kids = {k1, k2}
    NoKid = NoKid
    MaxAge = 1
    HardMaxAge = 2
    MinRefresh = 1
    FetchTime = 1
    MaxTime = 4
    Sends = {s1, s2}
    NoSend = NoSend
    Convs = {v1, v2}
    NoId = NoId
    NoConv = NoConv
    MaxConvs = 1
    MaxTokens = 4
    MaxExpiry = 2
INVARIANTS
    ClientTypes
    OwnPostsDropped
    RepliesLandAtOrigin
    InternalNotesStayInternal
    DispatchedOnce
    
    KeysExpire
    RetryUsesFreshToken
PROPERTIES
    RequestsCoalesce
CHECK_DEADLOCK FALSE
