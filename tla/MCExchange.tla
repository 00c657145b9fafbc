------------------------------ MODULE MCExchange -------------------------------
(* Requests for TLC.  Every X-Forwarded-For line of up to MaxLine texts on *)
(* a login that comes from a proxy; every path with every method; every    *)
(* operation with every token, peer, and kind of body; and every call of   *)
(* the generated client.                                                   *)
EXTENDS Exchange, TLC

CONSTANTS MaxLine, Proxy, a1, a2, id, word

MCAddrs   == {Proxy, a1, a2}
MCTrusted == {Proxy}
MCUUIDs   == {id}

Lines(n) == UNION {[1..m -> {Proxy, a1, a2, Comma, Blank, Junk}] : m \in 0..n}

AnyUser == CHOOSE u \in Users : TRUE
NoToken == [state |-> "missing", user |-> AnyUser, role |-> "member"]

(* The values of requests: every part a program would send, with and       *)
(* without what is optional, and some it would not.                        *)
Value(objects) == [objects |-> objects, enums |-> {}, big |-> FALSE]

Keys(objects) ==
    [objects : {objects}, enums : {{"main"}, {"main", "decoy"}, {word}}, big : BOOLEAN]

Complete_(optional) ==
    [RegistrationCompletePostReq |->
        {"challengeToken", "registrationResponse", "wrappedKeys"} \cup optional]
KeyObject == [WrappedKeyInput |-> {"scope", "wrappedDek", "wrapAlgorithm"}]

ValuesOf(op) ==
    CASE op = "LoginPost" ->
            {[Value([LoginPostReq |-> {"challengeToken", "authenticationResponse"} \cup d])
                EXCEPT !.big = b] : d \in {{}, {"deviceInfo"}}, b \in BOOLEAN}
      [] op = "RegistrationBeginPost" ->
            {Value([RegistrationBeginPostReq |-> {"inviteCode"}])}
      [] op = "RegistrationCompletePost" ->
            UNION {Keys(Complete_(d) @@ KeyObject) \cup {Value(Complete_(d))} :
                      d \in {{}, {"deviceInfo"}}}
      [] op = "TokenRefreshPost" ->
            {Value([TokenRefreshPostReq |-> {"refreshToken"}])}
      [] OTHER -> {Value(<< >>)}

MCCalls ==
    UNION {[op : {op}, id : {id, word}, value : ValuesOf(op),
            peer : {a1, Junk}, forwarded : {<<>>}, token : Token] : op \in Operations}

(* What other programs send: the same bodies labelled, cut off or put      *)
(* together in another way.                                                *)
Spoilt(body) ==
    {body, [body EXCEPT !.media = "other"], [body EXCEPT !.length = "none"],
     [body EXCEPT !.parses = FALSE],
     [body EXCEPT !.objects = [t \in DOMAIN body.objects |-> {}]]}

Bodies(op) == UNION {Spoilt(JSON(v)) : v \in ValuesOf(op)} \cup {NoBody}

Paths(route) ==
    {[k \in DOMAIN route.path |-> IF route.path[k] = Param THEN p ELSE route.path[k]] :
        p \in {id, word}}

Listing ==
    {[method |-> "POST", path |-> <<"login">>,
      body |-> JSON(Value([LoginPostReq |-> {"challengeToken", "authenticationResponse"}])),
      peer |-> Proxy, forwarded |-> line, token |-> NoToken] : line \in Lines(MaxLine)}

Asking ==
    UNION {[method : {r.method}, path : Paths(r), body : Bodies(r.op),
            peer : {Proxy, a1, Junk}, forwarded : {<<>>, <<a2>>}, token : Token] :
               r \in Routes}

Lost ==
    [method : {"GET", "POST", "DELETE", "OPTIONS"},
     path : UNION {Paths(r) : r \in Routes}
               \cup {<<word>>, <<"admin", "users", id>>, <<"login", word>>},
     body : {NoBody}, peer : {a1}, forwarded : {<<>>}, token : {NoToken}]

MCOthers == Listing \cup Asking \cup Lost

(* What becomes of these.                                                  *)
MCRequests ==
    [op : {"LoginPost"}, peer : {Proxy}, forwarded : Lines(MaxLine),
     token : {NoToken}, input : {"good", "bad"}]
    \cup [op : Operations \cup Unrouted, peer : {Proxy, a1, Junk},
          forwarded : {<<>>, <<a2>>}, token : Token, input : {"good", "bad", "oversize"}]

(* Every sentinel by itself, an error that wraps none, and some that wrap  *)
(* two of one registry.                                                    *)
MCErrors ==
    {{}} \cup {{e} : e \in Sentinels}
    \cup {{"ErrValidation", "ErrNotFound"}, {"ErrAlreadyUsed", "ErrExpired"},
          {"ErrCredentialRevoked", "ErrCredentialCloneSuspected"},
          {"ErrWrappedKeysRequired", "ErrInviteNotFound"}}

(* A challenge that has expired, and no other error.                       *)
MCExpired == {{"ErrChallengeExpired"}}
=============================================================================
