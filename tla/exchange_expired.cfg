\* Calls whose use case fails with nothing but an expired challenge.
SPECIFICATION ExchangeSpec
CONSTANTS
    Proxy = Proxy
    a1 = a1
    a2 = a2
    id = id
    word = word
    UUIDs <- MCUUIDs
    Addrs <- MCAddrs
    Trusted <- MCTrusted
    Comma = Comma
    Blank = Blank
    Junk = Junk
    Users = {u1, u2}
    Requests <- MCRequests
    Errors <- MCExpired
    Calls <- MCCalls
    Others <- MCOthers
    NoCall = NoCall
    None = None
    MaxLine = 0
INVARIANT ChallengeExpiryTold
