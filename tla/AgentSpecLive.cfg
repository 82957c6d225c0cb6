SPECIFICATION FairSpec
CONSTANTS
    p1 = p1  p2 = p2  q1 = q1  c1 = c1  c2 = c2
    oldToken = oldToken  newToken = newToken
    Params = {"file", "p1", "p2"}  FileParams = "file"
    Items = {"none", "i1", "i2"}   NoItems = "none"
    Tokens = {oldToken, newToken}  FileToken = oldToken  NoToken = NoToken
    NoSpec = NoSpec  NoAck = NoAck  Keep = Keep
    Puts = {p1}  PutInput <- MCPutInput
    Pushes = {}  Pull = Pull  Reload = Reload
    Conns = {c1, c2}  NoConn = NoConn
    MaxReports = 2
    Faults = {"drop", "restart", "rowerror"}
PROPERTIES ReconnectConverges ReportingEnds
