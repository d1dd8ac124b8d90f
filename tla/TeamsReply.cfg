SPECIFICATION Spec
CONSTANTS
    Sends = {s1, s2, s3, s4}
    NoSend = NoSend
    Convs = {v1, v2, v3}
    NoId = NoId
    NoConv = NoConv
    MaxConvs = 2
    MaxTokens = 1
    MaxExpiry = 0
INVARIANT ReplyFindsConversation
CHECK_DEADLOCK FALSE
