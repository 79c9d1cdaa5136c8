SPECIFICATION FairSpec
CONSTANTS
    peer = peer
    echo = echo
    chat = chat
    text = text
    Workers = {w1}
    Messages = {peer, echo}
    Conversations = {chat}
    ConversationOf <- MCConversationOf
    OwnMessages = {echo}
    Texts = {text}
    TextOf <- MCTextOf
    KeepCompleted = 1
    KeepFailed = 1
    MaxStalls = 1
    MaxDeliveries = 2
    MaxReplies = 1
    None = None
VIEW Observed
INVARIANTS
    AnnouncedOncePerRun
    AutoReplyHasSource
PROPERTY AnnouncedOrFailed
CHECK_DEADLOCK FALSE
