CONSTANTS
    s1 = s1
    s2 = s2
    NoStmt = NoStmt
    Stmts <- MCStmts
    MultiResults = TRUE
    MaxColumns = 2
    Plugins = {"native", "sha2"}
    Terminating = {FALSE}
    MaxRounds = 5
    MaxSwitches = 0
SPECIFICATION Spec
INVARIANT
    RowsOwnColumns
