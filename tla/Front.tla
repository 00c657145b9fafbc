--------------------------------- MODULE Front ---------------------------------
(***************************************************************************)
(* The way of one HTTP request from the router to a use case and back: the *)
(* middleware that finds the address of the client, the check of the       *)
(* access token, the decoding of the input, the handler, and the registry  *)
(* that turns an error of the use case into an answer.                     *)
(*                                                                         *)
(* Requests share nothing here, so that one is enough.  What a use case    *)
(* does is left to Sessions, Invites and Logins: here it succeeds, fails   *)
(* with some error, or panics.                                             *)
(***************************************************************************)
EXTENDS Api

CONSTANTS
    Addrs,    \* texts that parse as an IP address
    Trusted,  \* the addresses within the networks of trusted proxies
    Comma,    \* the separator of X-Forwarded-For
    Blank,    \* white space
    Junk,     \* any other text
    Users,    \* ids of users
    Requests, \* the requests a client or a proxy may send
    Errors,   \* what a use case may fail with: the sentinels an error wraps
    None      \* no user, or no address

Sentinels == {"ErrValidation", "ErrNotFound", "ErrTooManyActive", "ErrAlreadyUsed",
              "ErrExpired", "ErrWrappedKeysRequired", "ErrInviteNotFound",
              "ErrCredentialNotFound", "ErrCredentialRevoked",
              "ErrCredentialCloneSuspected", "ErrRefreshTokenNotFound",
              "ErrRefreshTokenInvalid", "ErrRefreshTokenReuseDetected",
              "ErrSessionNotFound", "ErrSessionForbidden",
              "ErrUnauthenticated", "ErrClientIPUnavailable", "ErrChallengeExpired"}

Codes == {"none"} \cup ErrorResponseErrorCode

(* The types of an answer; an answer without a body of JSON has none.      *)
Types == {"none"} \cup UNION {DOMAIN encodeResponse[op] : op \in Operations}

Roles == {"admin", "member"}

WithBody   == {op \in Operations : "body" \in Checks[op]}
WithParams == {op \in Operations : "params" \in Checks[op]}

NeedsUser    == {"AuthVerifyGet", "InvitesPost", "SessionsSessionIdDelete"}
NeedsAddress == {"LoginPost", "RegistrationCompletePost"}

Token == [state : {"missing", "malformed", "expired", "valid"},
          user : Users, role : Roles]

(* A request: the operation it leads to, the other end of its connection,  *)
(* the first X-Forwarded-For line as a sequence of texts, its token and    *)
(* how its input decodes.                                                  *)
Request == [op : Operations \cup Unrouted, peer : Addrs \cup {Junk},
            forwarded : Seq(Addrs \cup {Comma, Blank, Junk}),
            token : Token, input : {"good", "bad", "oversize"}]

ASSUME ConstantsAssumption ==
    /\ Trusted \subseteq Addrs
    /\ Comma \notin Addrs /\ Blank \notin Addrs /\ Junk \notin Addrs
    /\ Comma # Blank /\ Comma # Junk /\ Blank # Junk
    /\ None \notin Addrs /\ None \notin Users
    /\ Requests \subseteq Request
    /\ Errors \subseteq SUBSET Sentinels

VARIABLES
    pc,      \* the stage the request has reached
    req,     \* the request
    i,       \* position in X-Forwarded-For of the scan from the right
    ctx,     \* the value nearest in the context
    acted,   \* history: did a handler act on the request?
    asUser,  \* history: for which user
    fromIP,  \* history: from which address
    outcome, \* history: what came of it
    answer   \* what the client is told

history == <<acted, asUser, fromIP, outcome>>
vars    == <<pc, req, i, ctx, history, answer>>

Stages == {"clientIP", "scan", "security", "decode", "handler", "done"}

(* The order in which the router has put its middlewares, and in which the *)
(* generated server checks the token and decodes the input.                *)
\* Mutant: the address is looked for once the token has been checked.
SecurityFirst ==
    [start |-> "security", security |-> "clientIP", clientIP |-> "decode",
     decode |-> "handler"]
Following ==
    [start |-> "clientIP", clientIP |-> "security", security |-> "decode",
     decode |-> "handler"]

Reply(status, type, code) == [status |-> status, type |-> type, code |-> code]
NoAnswer == Reply(0, "none", "none")

-----------------------------------------------------------------------------
(* The context.  The keys userIDContextKey and clientIPKey are both the    *)
(* value ctxKey{}, hence equal: whichever value was stored last is found   *)
(* under either key, and counts only if it has the type that is asked for. *)

NothingInContext == [kind |-> "none", value |-> None]

WithUserID(u)   == ctx' = [kind |-> "user", value |-> u]
WithClientIP(a) == ctx' = [kind |-> "ip", value |-> a]

HasUserID   == ctx.kind = "user"
HasClientIP == ctx.kind = "ip"

-----------------------------------------------------------------------------
(* The address of the client.                                              *)

text == req.forwarded

(* The last comma at or before position n, or 0: a set of one element.     *)
LastComma(n) ==
    {k \in 0..n : /\ k = 0 \/ text[k] = Comma
                  /\ \A m \in (k + 1)..n : text[m] # Comma}

(* Is the address at k all there is between first and last, but for white  *)
(* space?                                                                  *)
Alone(k, first, last) ==
    /\ text[k] \in Addrs
    /\ \A m \in first..last : m # k => text[m] = Blank

(* TrimSpace and ParseAddr of that part: the address, if it is one.        *)
AddressIn(first, last) ==
    {text[k] : k \in {k \in first..last : Alone(k, first, last)}}

(* Where the scan goes on from a part that begins after that comma.        *)
\* Mutants: on the comma, which is found again, or without a look at there
\* being one.
BeforeStuck(comma) == comma
BeforeUnlessNone(comma) == comma - 1
Before(comma) == IF comma = 0 THEN 0 ELSE comma - 1

Resolved(a) ==
    /\ WithClientIP(a)
    /\ pc' = Following.clientIP
    /\ UNCHANGED <<req, i, history, answer>>

\* Mutant: the line is believed whoever sends it.
ExtractFromAnyone ==
    /\ pc = "clientIP"
    /\ IF req.peer \in Addrs
       THEN pc' = "scan" /\ i' = Len(text)
       ELSE pc' = Following.clientIP /\ UNCHANGED i
    /\ UNCHANGED <<req, ctx, history, answer>>

(* extractClientIP.  A request whose peer has no address goes on, without  *)
(* an address in its context.                                              *)
ExtractClientIP ==
    /\ pc = "clientIP"
    /\ \/ /\ req.peer \notin Addrs
          /\ pc' = Following.clientIP
          /\ UNCHANGED <<req, i, ctx, history, answer>>
       \/ /\ req.peer \in Addrs \ Trusted
          /\ Resolved(req.peer)
       \/ /\ req.peer \in Trusted
          /\ pc' = "scan" /\ i' = Len(text)
          /\ UNCHANGED <<req, ctx, history, answer>>

(* firstUntrustedFromRight: one turn of its loop, and its end.             *)
ScanPart ==
    /\ pc = "scan" /\ i > 0
    /\ \E comma \in LastComma(i) :
          LET found == AddressIn(comma + 1, i) \ Trusted
          IN  \/ \E a \in found : Resolved(a)
              \/ /\ found = {}
                 /\ i' = Before(comma)
                 /\ UNCHANGED <<pc, req, ctx, history, answer>>

ScanEnds ==
    /\ pc = "scan" /\ i <= 0
    /\ Resolved(req.peer)

-----------------------------------------------------------------------------
(* The token, the input and the errors of either.                          *)

Refuse(a) ==
    /\ answer' = a
    /\ pc' = "done"
    /\ UNCHANGED <<req, i, ctx, history>>

Pass ==
    /\ pc' = Following[pc]
    /\ UNCHANGED <<req, i, history, answer>>

(* newErrorHandler and writeError: what they make of an error of the       *)
(* generated server.                                                       *)
writeError(status, code) == Reply(status, "ErrorResponse", code)

ErrorAnswer ==
    [security  |-> writeError(401, "UNAUTHORIZED"),
     forbidden |-> writeError(403, "FORBIDDEN"),
     oversize  |-> writeError(413, "VALIDATION_ERROR"),
     bad       |-> writeError(400, "VALIDATION_ERROR")]

(* What the generated server tells a request that leads to no operation.   *)
NotServed ==
    [notFound   |-> Reply(404, "none", "none"),
     notAllowed |-> Reply(405, "none", "none"),
     options    |-> Reply(204, "none", "none")]

TurnAway ==
    /\ pc = "security" /\ req.op \in Unrouted
    /\ Refuse(NotServed[req.op])

(* HandleBearerAuth, called by the generated server where an operation is  *)
(* secured.                                                                *)
\* Mutant: any role will do.
AnyRoleAllowed(role, required) == TRUE
RoleAllowed(role, required) == role \in required

HandleBearerAuth ==
    /\ pc = "security" /\ req.op \in Operations
    /\ \/ /\ "security" \notin Checks[req.op]
          /\ Pass /\ UNCHANGED ctx
       \/ /\ "security" \in Checks[req.op]
          /\ \/ /\ req.token.state # "valid"
                /\ Refuse(ErrorAnswer.security)
             \/ /\ req.token.state = "valid"
                /\ ~RoleAllowed(req.token.role, RolesFor[req.op])
                /\ Refuse(ErrorAnswer.forbidden)
             \/ /\ req.token.state = "valid"
                /\ RoleAllowed(req.token.role, RolesFor[req.op])
                /\ Pass /\ WithUserID(req.token.user)

Oversize == req.op \in WithBody /\ req.input = "oversize"
BadInput == req.op \in WithBody \cup WithParams /\ req.input = "bad"

(* The generated server decodes parameters and body.                       *)
DecodeInputs ==
    /\ pc = "decode"
    /\ \/ Oversize /\ Refuse(ErrorAnswer.oversize)
       \/ BadInput /\ Refuse(ErrorAnswer.bad)
       \/ ~Oversize /\ ~BadInput /\ Pass /\ UNCHANGED ctx

-----------------------------------------------------------------------------
(* The registries: an error is answered by the first rule whose target it  *)
(* wraps, and by the default, the same in all of them, if there is none.   *)

OnIs(target, type, code) == [target |-> target, type |-> type, code |-> code]

verifyErrors == <<OnIs("ErrUnauthenticated", "Unauthorized", "UNAUTHORIZED")>>

invitesErrors ==
    <<OnIs("ErrUnauthenticated", "Unauthorized", "UNAUTHORIZED"),
      OnIs("ErrTooManyActive", "Conflict", "INVITE_LIMIT_EXCEEDED"),
      OnIs("ErrValidation", "Conflict", "VALIDATION_ERROR")>>

registrationBeginErrors ==
    <<OnIs("ErrValidation", "BadRequest", "VALIDATION_ERROR"),
      OnIs("ErrNotFound", "NotFound", "INVITE_NOT_FOUND"),
      OnIs("ErrAlreadyUsed", "Conflict", "INVITE_ALREADY_USED"),
      OnIs("ErrExpired", "Conflict", "INVITE_EXPIRED")>>

registrationCompleteErrors ==
    <<OnIs("ErrWrappedKeysRequired", "BadRequest", "WRAPPED_KEYS_REQUIRED"),
      OnIs("ErrInviteNotFound", "NotFound", "INVITE_NOT_FOUND"),
      OnIs("ErrAlreadyUsed", "Conflict", "INVITE_ALREADY_USED"),
      OnIs("ErrExpired", "Conflict", "INVITE_EXPIRED"),
      OnIs("ErrClientIPUnavailable", "InternalServerError", "INTERNAL_ERROR")>>

loginErrors ==
    <<OnIs("ErrValidation", "BadRequest", "VALIDATION_ERROR"),
      OnIs("ErrCredentialNotFound", "Unauthorized", "CREDENTIAL_NOT_FOUND"),
      OnIs("ErrCredentialRevoked", "Unauthorized", "CREDENTIAL_REVOKED"),
      OnIs("ErrCredentialCloneSuspected", "Unauthorized", "CREDENTIAL_CLONE_SUSPECTED")>>

refreshErrors ==
    <<OnIs("ErrRefreshTokenNotFound", "Unauthorized", "REFRESH_TOKEN_NOT_FOUND"),
      OnIs("ErrRefreshTokenInvalid", "Unauthorized", "REFRESH_TOKEN_INVALID"),
      OnIs("ErrRefreshTokenReuseDetected", "Unauthorized", "REFRESH_TOKEN_REUSE_DETECTED")>>

revokeSessionErrors ==
    <<OnIs("ErrSessionNotFound", "NotFound", "SESSION_NOT_FOUND"),
      OnIs("ErrSessionForbidden", "Forbidden", "SESSION_FORBIDDEN")>>

loginBeginErrors  == << >>
revokeChainErrors == << >>

RegistryOf ==
    [AuthVerifyGet            |-> verifyErrors,
     InvitesPost              |-> invitesErrors,
     SessionsSessionIdDelete  |-> revokeSessionErrors,
     RevokeChainPost          |-> revokeChainErrors,
     LoginBeginPost           |-> loginBeginErrors,
     LoginPost                |-> loginErrors,
     RegistrationBeginPost    |-> registrationBeginErrors,
     RegistrationCompletePost |-> registrationCompleteErrors,
     TokenRefreshPost         |-> refreshErrors]

(* The default of a registry.                                              *)
Default(op) ==
    OnIs("none", IF op = "LoginBeginPost" THEN "ErrorResponse" ELSE "InternalServerError",
         "INTERNAL_ERROR")

Matching(rules, err) == {k \in DOMAIN rules : rules[k].target \in err}

\* Mutant: the loop runs to its end and the last rule is used for whatever
\* matches none.
ResolveLast(op, err) ==
    LET rules == RegistryOf[op]
        m == Matching(rules, err)
    IN  IF rules = << >> THEN Default(op)
        ELSE IF m = {} THEN rules[Len(rules)]
        ELSE rules[CHOOSE k \in m : \A l \in m : k <= l]
Resolve(op, err) ==
    LET rules == RegistryOf[op]
        m == Matching(rules, err)
    IN  IF m = {} THEN Default(op) ELSE rules[CHOOSE k \in m : \A l \in m : k <= l]

(* The generated server gives an answer of that type its status.           *)
Encoded(op, type, code) == Reply(encodeResponse[op][type], type, code)

Answered(op, rule) == Encoded(op, rule.type, rule.code)

-----------------------------------------------------------------------------
(* The handlers.                                                           *)

Succeeded == [kind |-> "ok", err |-> {}]
Panicked  == [kind |-> "panic", err |-> {}]
Unknown   == [kind |-> "none", err |-> {}]
Failed(e) == [kind |-> "error", err |-> e]

(* The handler has what it needs and acts, with one of those results; a    *)
(* panic ends in the Recoverer of the router.                              *)
Act(user, address, type, outcomes) ==
    \E o \in outcomes :
        /\ acted' = TRUE /\ asUser' = user /\ fromIP' = address
        /\ outcome' = o
        /\ answer' = CASE o.kind = "ok"    -> Encoded(req.op, type, "none")
                       [] o.kind = "error" -> Answered(req.op, Resolve(req.op, o.err))
                       [] o.kind = "panic" -> Reply(500, "none", "none")
        /\ pc' = "done"
        /\ UNCHANGED <<req, i, ctx>>

AnyOutcome == {Succeeded, Panicked} \cup {Failed(e) : e \in Errors}

At(op) == pc = "handler" /\ req.op = op

RefuseWith(sentinel) == Refuse(Answered(req.op, Resolve(req.op, {sentinel})))

AuthVerifyGet ==
    /\ At("AuthVerifyGet")
    /\ \/ ~HasUserID /\ RefuseWith("ErrUnauthenticated")
       \/ HasUserID /\ Act(ctx.value, None, "NoContent", {Succeeded})

(* The chain is that of the user in the path; who asks for it is not used. *)
RevokeChainPost ==
    /\ At("RevokeChainPost")
    /\ Act(None, None, "NoContent", AnyOutcome)

InvitesPost ==
    /\ At("InvitesPost")
    /\ \/ ~HasUserID /\ RefuseWith("ErrUnauthenticated")
       \/ HasUserID /\ Act(ctx.value, None, "Invite", AnyOutcome)

LoginBeginPost ==
    /\ At("LoginBeginPost")
    /\ Act(None, None, "LoginBeginPostOK", AnyOutcome)

LoginPost ==
    /\ At("LoginPost")
    /\ \/ ~HasClientIP /\ RefuseWith("ErrClientIPUnavailable")
       \/ HasClientIP /\ Act(None, ctx.value, "LoginPostOK", AnyOutcome)

RegistrationBeginPost ==
    /\ At("RegistrationBeginPost")
    /\ Act(None, None, "RegistrationBeginPostOK", AnyOutcome)

RegistrationCompletePost ==
    /\ At("RegistrationCompletePost")
    /\ \/ ~HasClientIP /\ RefuseWith("ErrClientIPUnavailable")
       \/ HasClientIP /\ Act(None, ctx.value, "TokenPair", AnyOutcome)

SessionsSessionIdDelete ==
    /\ At("SessionsSessionIdDelete")
    /\ \/ ~HasUserID /\ RefuseWith("ErrUnauthenticated")
       \/ HasUserID /\ Act(ctx.value, None, "NoContent", AnyOutcome)

TokenRefreshPost ==
    /\ At("TokenRefreshPost")
    /\ Act(None, None, "TokenPair", AnyOutcome)

Handle ==
    \/ AuthVerifyGet \/ RevokeChainPost \/ InvitesPost
    \/ LoginBeginPost \/ LoginPost
    \/ RegistrationBeginPost \/ RegistrationCompletePost
    \/ SessionsSessionIdDelete \/ TokenRefreshPost

-----------------------------------------------------------------------------
Init ==
    /\ req \in Requests
    /\ pc = Following.start
    /\ i = 0
    /\ ctx = NothingInContext
    /\ acted = FALSE /\ asUser = None /\ fromIP = None /\ outcome = Unknown
    /\ answer = NoAnswer

Step ==
    \/ ExtractClientIP \/ ScanPart \/ ScanEnds
    \/ TurnAway \/ HandleBearerAuth \/ DecodeInputs \/ Handle

Finished == pc = "done" /\ UNCHANGED vars

Next == Step \/ Finished

(* The goroutine of a request is never left waiting in this part.          *)
Spec == Init /\ [][Next]_vars /\ WF_vars(Step)

-----------------------------------------------------------------------------
(* Types.                                                                  *)
TypeOK ==
    /\ pc \in Stages
    /\ req \in Requests
    /\ i \in 0..Len(text)
    /\ ctx \in [kind : {"none"}, value : {None}]
               \cup [kind : {"user"}, value : Users] \cup [kind : {"ip"}, value : Addrs]
    /\ acted \in BOOLEAN
    /\ asUser \in Users \cup {None}
    /\ fromIP \in Addrs \cup {None}
    /\ outcome \in [kind : {"none", "ok", "error", "panic"}, err : SUBSET Sentinels]
    /\ answer \in [status : Nat, type : Types, code : Codes]

(* The text at k is an address that has its place between two commas, or   *)
(* between a comma and an end of the line, to itself.                      *)
Sole(k) ==
    /\ k \in 1..Len(text) /\ text[k] \in Addrs
    /\ \A m \in 1..Len(text) :
          m # k /\ text[m] # Blank =>
              \E c \in 1..Len(text) :
                  text[c] = Comma /\ ((m <= c /\ c < k) \/ (k < c /\ c <= m))

(* The address of the client, by the list of the proxies: a request that   *)
(* comes from none of ours comes from its peer; one of ours has added what *)
(* it saw on the right, so that the client is the last of the listed that  *)
(* is none of ours; where none is listed it is the proxy.                  *)
Listed(k) == Sole(k) /\ text[k] \notin Trusted

IsClient(a) ==
    IF req.peer \in Trusted /\ \E k \in 1..Len(text) : Listed(k)
    THEN \E k \in 1..Len(text) :
            /\ a = text[k]
            /\ Listed(k)
            /\ \A m \in (k + 1)..Len(text) : ~Listed(m)
    ELSE a = req.peer

Authorized ==
    /\ req.token.state = "valid"
    /\ req.token.role \in RolesFor[req.op]

(* The address that a login or a registration is given, and stores with    *)
(* its session, is that of the client by the definition above, whatever    *)
(* empty, blank or unreadable parts the line has (firstUntrustedFromRight).*)
ClientKnown ==
    acted /\ req.op \in NeedsAddress => fromIP \in Addrs /\ IsClient(fromIP)

(* No operation that asks for a role is acted on without a valid token of  *)
(* such a role, nor for another user than the token's, although the        *)
(* context holds user and address under one key.                           *)
ServedAuthorized ==
    acted /\ req.op \in Operations /\ RolesFor[req.op] # {} =>
        /\ Authorized
        /\ req.op \in NeedsUser => asUser = req.token.user

(* A request is turned away before its use case only for a reason of its   *)
(* own: its path, its token, its input, or a peer without an address.      *)
(* That a value was hidden in the context is none.                         *)
RefusedWithCause ==
    pc = "done" /\ ~acted =>
        \/ req.op \in Unrouted
        \/ req.op \in Operations /\ RolesFor[req.op] # {} /\ ~Authorized
        \/ Oversize \/ BadInput
        \/ req.op \in NeedsAddress /\ req.peer \notin Addrs

(* A client is told of a success just if the use case succeeded, or if it  *)
(* only asked for the methods of a path, and what it is blamed for (4xx)   *)
(* is among the causes of the error: of an error that wraps nothing its    *)
(* registry names it learns nothing.                                       *)
AnswerTellsOutcome ==
    pc = "done" =>
        /\ answer.status < 400 <=> outcome.kind = "ok" \/ req.op = "options"
        /\ acted /\ answer.status < 500 /\ outcome.kind # "ok" =>
              \E k \in DOMAIN RegistryOf[req.op] :
                 /\ RegistryOf[req.op][k].target \in outcome.err
                 /\ Answered(req.op, RegistryOf[req.op][k]) = answer

(* Every request is answered: the scan of the line comes to an end.        *)
EveryRequestAnswered == <>(pc = "done")

-----------------------------------------------------------------------------
(* The inductive invariant: what a request has at each of its stages.      *)

NotYet == ~acted /\ outcome = Unknown /\ answer = NoAnswer

(* While the line is scanned, what lies to the right of i has been split   *)
(* off at a comma and has no untrusted address.                            *)
Scanning ==
    /\ req.peer \in Trusted
    /\ i = Len(text) \/ i = 0 \/ text[i + 1] = Comma
    /\ \A k \in 1..Len(text) : k > i => ~Listed(k)

Addressed ==
    \/ ctx = NothingInContext /\ req.peer \notin Addrs
    \/ ctx.kind = "ip" /\ ctx.value \in Addrs /\ IsClient(ctx.value)

Identified ==
    IF RolesFor[req.op] = {} THEN Addressed
    ELSE Authorized /\ ctx = [kind |-> "user", value |-> req.token.user]

IInv ==
    /\ pc # "done" => NotYet
    /\ pc \in {"clientIP", "scan"} => ctx = NothingInContext
    /\ pc = "scan" => Scanning
    /\ pc = "security" => Addressed
    /\ pc \in {"decode", "handler"} => Identified
    /\ pc \in {"decode", "handler"} => req.op \in Operations
    /\ pc = "handler" => ~Oversize /\ ~BadInput
    /\ ClientKnown
    /\ ServedAuthorized
    /\ RefusedWithCause

=============================================================================
