CONSTANTS
    s1 = s1
    s2 = s2
    NoStmt = NoStmt
    Stmts <- MCStmts
    MultiResults = FALSE
    MaxColumns = 2
    Plugins = {"native", "sha2"}
    Terminating = {FALSE}
    MaxRounds = 5
    MaxSwitches = 1
SPECIFICATION Spec
INVARIANT
    PassthroughCompletes
