SPECIFICATION HistorySpec
CONSTANTS
    Convs = {c1}
    Docs = {report, memo}
    Requests = {r1}
    Sockets = {}
    Streams = {}
    HistoryLimit = 3
    PromptLimit = 1
    MaxMessages = 3
PROPERTIES
    SelectionKept
