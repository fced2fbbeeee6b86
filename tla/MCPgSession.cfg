CONSTANTS
    s1 = s1
    s2 = s2
    NoStmt = NoStmt
    Stmts <- MCStmts
    Styles <- MCSessions
    CatalogSize = 2
    MaxAsks = 2
    MaxToggles = 1
SPECIFICATION FairSpec
INVARIANTS
    TypeOK
    OpensAsAsked
    Transparent
    RowsOwnRules
PROPERTY
    Answered
