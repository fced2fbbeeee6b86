CONSTANTS
    s1 = s1
    s2 = s2
    NoStmt = NoStmt
    Stmts <- MCStmts
    Styles <- MCWaiting
    CatalogSize = 2
SPECIFICATION RelaySpec
INVARIANT
    BootstrapRetried
