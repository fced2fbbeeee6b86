CONSTANTS
    s1 = s1
    s2 = s2
    NoStmt = NoStmt
    Stmts <- MCStmts
    MultiResults = FALSE
    MaxColumns = 2
    Plugins = {"native", "sha2"}
    Terminating = {TRUE, FALSE}
    MaxRounds = 3
    MaxSwitches = 2
SPECIFICATION FairSpec
INVARIANTS
    TypeOK
    BothProveThemselves
    InSequence
    StumblesOnlyThere
    RowsOwnColumns
PROPERTIES
    SessionProgresses
