SPECIFICATION KLSpec
CONSTANTS
    NULL = null
    Node = {n1, n2, n3, n4}
    UINT = 256
    Nums <- KLNums
    Strings <- KLStrings
    MaxSize = 4
    MaxFmt = 4
    LOG_BUF = 10
INVARIANT StrncmpAtMostSize
