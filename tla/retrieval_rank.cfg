SPECIFICATION Spec
CONSTANTS
    MaxWords = 3
    MaxTokens = 2
    CharsPerToken = 2
    Records = {1, 2, 3}
    StoreOf <- MCStoreOf
    InitialRows <- MCInitialRows
    ChangedRows <- MCChangedRows
    MaxChanges = 1
    Alphabet <- MCAlphabet
    MaxLines = 0
    Queries <- MCQueries
    Matches <- MCMatches
    Overfetch = 2
    NearestFactor = 1
    MaxNearest = 4
    MaxLimit = 3
    MaxBlockBytes = 4
    NoRow = NoRow
    NoVectors = NoVectors
    NoQuery = NoQuery
    Unset = Unset
INVARIANTS
    BetterMatchFirst
