CONSTANTS
    s1 = s1
    s2 = s2
    NoStmt = NoStmt
    Stmts <- MCStmts
    Styles <- MCPreparing
    CatalogSize = 1
SPECIFICATION RelaySpec
INVARIANT
    NeverWrongColumns
