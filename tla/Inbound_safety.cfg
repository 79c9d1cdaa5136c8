SPECIFICATION Spec
CONSTANTS
    peer = peer
    echo = echo
    chat = chat
    text = text
    Workers = {w1, w2}
    Messages = {peer, echo}
    Conversations = {chat}
    ConversationOf <- MCConversationOf
    OwnMessages = {echo}
    Texts = {text}
    TextOf <- MCTextOf
    KeepCompleted = 1
    KeepFailed = 1
    MaxStalls = 1
    MaxDeliveries = 1
    MaxReplies = 1
    None = None
SYMMETRY Symmetry
INVARIANTS
    TypeOK
    StoredBeforeAnnounced
    UnreadAgrees
CHECK_DEADLOCK FALSE
