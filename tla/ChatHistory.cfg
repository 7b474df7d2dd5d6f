SPECIFICATION HistorySpec
CONSTANTS
    Convs = {c1}
    Docs = {}
    Requests = {r1}
    Sockets = {w1}
    Streams = {e1}
    HistoryLimit = 3
    PromptLimit = 1
    MaxMessages = 3
INVARIANTS
    HistoryTypeOK
    PromptIsWhatCameBefore
    AnswersFollowQuestions
    StoredTurnsAreWhole
PROPERTIES
    PinnedSurvives
