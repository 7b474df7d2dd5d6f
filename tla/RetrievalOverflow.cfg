SPECIFICATION RetrievalSpec
CONSTANTS
    Docs = {"memo", "plan", "report"}
    Tokens <- MCTokens
    Headed <- MCHeaded
    Chars <- MCChars
    Scores = {1, 2, 4}
    KeywordWeight = 1
    VectorWeight = 1
    Limit = 2
    Budgets = {3, 7}
    Questions = {1, 3, 4}
    Others <- MCOthers
INVARIANTS
    ContextFits
