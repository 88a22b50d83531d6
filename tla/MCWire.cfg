\* A request and a response longer than a pipe; stderr longer than
\* what is kept of it; two calls of a foreign server.
SPECIFICATION AllSpec
CONSTANTS
    Request = 2
    Response = 2
    Pipe = 1
    ErrPipe = 1
    MaxOutput = 2
    StderrMax = 1
    MaxErr = 2
    MaxStray = 1
    Protocols = {"mcp", "lsp"}
    MessageMax = 3
    PageMax = 2
    SerialMax = 4
    MaxCalls = 2
    MaxWire = 2
    MaxChanges = 1
INVARIANTS
    OneShotJustified
    AnswersOwn
    OneVersion
PROPERTIES
    ConversationsEnd
