\* One request: any line of up to five texts, any path, operation, token and
\* body, written by another program or by the generated client.
SPECIFICATION ExchangeSpec
CONSTANTS
    Proxy = Proxy
    a1 = a1
    a2 = a2
    id = id
    word = word
    UUIDs <- MCUUIDs
    Addrs <- MCAddrs
    Trusted <- MCTrusted
    Comma = Comma
    Blank = Blank
    Junk = Junk
    Users = {u1, u2}
    Requests <- MCRequests
    Errors <- MCErrors
    Calls <- MCCalls
    Others <- MCOthers
    NoCall = NoCall
    None = None
    MaxLine = 5
INVARIANTS
    ExchangeTypeOK
    ClientKnown
    ServedAuthorized
    AnswerTellsOutcome
    CallArrives
    CallRefusedWithCause
    AnswerUnderstood
    RecordedTruly
PROPERTY EveryCallReturns
