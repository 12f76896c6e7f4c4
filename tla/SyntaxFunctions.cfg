CONSTANT Source <- MCBadFunction
SPECIFICATION SyntaxSpec
INVARIANT LaterFunctionsKept
CHECK_DEADLOCK FALSE
