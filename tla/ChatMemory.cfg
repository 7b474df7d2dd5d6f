SPECIFICATION HistorySpec
CONSTANTS
    Convs = {c1}
    Docs = {}
    Requests = {r1}
    Sockets = {}
    Streams = {}
    HistoryLimit = 4
    PromptLimit = 6
    MaxMessages = 5
INVARIANTS
    LastMessagesRemembered
