---------------------------------- MODULE Api ----------------------------------
(***************************************************************************)
(* The HTTP interface as it is generated from api.yaml, both ends of it:   *)
(* which request leads to which operation, what the server checks before   *)
(* it calls the handler, what a body must hold, which status an answer is  *)
(* given, and what the generated client makes of it.  These are operators  *)
(* only; Front and Exchange put them in motion.                            *)
(*                                                                         *)
(* A path is the sequence of texts between its slashes.  Of a body is kept *)
(* how it is labelled, how long it is, whether it parses, the names of the *)
(* fields of each kind of object in it, and the texts in it that belong to *)
(* an enumeration.                                                         *)
(***************************************************************************)
EXTENDS Integers, Sequences, FiniteSets

CONSTANT UUIDs   \* the texts that parse as an id

(* The roles that an operation asks for; an operation without any is open. *)
RolesFor ==
    [AuthVerifyGet            |-> {"admin", "member"},
     InvitesPost              |-> {"admin", "member"},
     SessionsSessionIdDelete  |-> {"admin", "member"},
     RevokeChainPost          |-> {"admin"},
     LoginBeginPost           |-> {},
     LoginPost                |-> {},
     RegistrationBeginPost    |-> {},
     RegistrationCompletePost |-> {},
     TokenRefreshPost         |-> {}]

Operations == DOMAIN RolesFor

-----------------------------------------------------------------------------
(* The router: a route is a method and a path, in which a parameter stands *)
(* for any text.                                                           *)

Param == "{}"

To(op, method, path) == [op |-> op, method |-> method, path |-> path]

RevokeChainRoute ==
    To("RevokeChainPost", "POST", <<"admin", "users", Param, "revoke-chain">>)
AuthVerifyRoute   == To("AuthVerifyGet", "GET", <<"auth", "verify">>)
InvitesRoute      == To("InvitesPost", "POST", <<"invites">>)
LoginRoute        == To("LoginPost", "POST", <<"login">>)
LoginBeginRoute   == To("LoginBeginPost", "POST", <<"login", "begin">>)
RegistrationBeginRoute ==
    To("RegistrationBeginPost", "POST", <<"registration", "begin">>)
RegistrationCompleteRoute ==
    To("RegistrationCompletePost", "POST", <<"registration", "complete">>)
SessionRoute      == To("SessionsSessionIdDelete", "DELETE", <<"sessions", Param>>)
TokenRefreshRoute == To("TokenRefreshPost", "POST", <<"token", "refresh">>)

Routes == {RevokeChainRoute, AuthVerifyRoute, InvitesRoute, LoginRoute, LoginBeginRoute,
           RegistrationBeginRoute, RegistrationCompleteRoute, SessionRoute,
           TokenRefreshRoute}

Leads(route, path) ==
    /\ Len(route.path) = Len(path)
    /\ \A k \in DOMAIN path : route.path[k] \in {Param, path[k]}

(* What becomes of a request that leads to no operation: 404; 405; or, if  *)
(* it asks which methods there are, 204.                                   *)
Unrouted == {"notFound", "notAllowed", "options"}

notAllowed(method) == IF method = "OPTIONS" THEN "options" ELSE "notAllowed"

ServeHTTP(method, path) ==
    LET there == {r \in Routes : Leads(r, path)}
        fit   == {r \in there : r.method = method}
    IN  IF there = {} THEN "notFound"
        ELSE IF fit = {} THEN notAllowed(method)
        ELSE (CHOOSE r \in fit : TRUE).op

-----------------------------------------------------------------------------
(* What the server does of these, in this order, before it calls the       *)
(* handler of an operation.                                                *)

handleRevokeChainPostRequest          == {"security", "params"}
handleAuthVerifyGetRequest            == {"security"}
handleInvitesPostRequest              == {"security"}
handleLoginBeginPostRequest           == {}
handleLoginPostRequest                == {"body"}
handleRegistrationBeginPostRequest    == {"body"}
handleRegistrationCompletePostRequest == {"body"}
handleSessionsSessionIdDeleteRequest  == {"security", "params"}
handleTokenRefreshPostRequest         == {"body"}

Checks ==
    [AuthVerifyGet            |-> handleAuthVerifyGetRequest,
     InvitesPost              |-> handleInvitesPostRequest,
     SessionsSessionIdDelete  |-> handleSessionsSessionIdDeleteRequest,
     RevokeChainPost          |-> handleRevokeChainPostRequest,
     LoginBeginPost           |-> handleLoginBeginPostRequest,
     LoginPost                |-> handleLoginPostRequest,
     RegistrationBeginPost    |-> handleRegistrationBeginPostRequest,
     RegistrationCompletePost |-> handleRegistrationCompletePostRequest,
     TokenRefreshPost         |-> handleTokenRefreshPostRequest]

-----------------------------------------------------------------------------
(* The values there are, by their fields: those that every value of a type *)
(* has and those that may be unset.                                        *)

Struct(fields, optional) == [fields |-> fields, optional |-> optional]

LoginPostReqStruct ==
    Struct({"challengeToken", "authenticationResponse"}, {"deviceInfo"})
RegistrationBeginPostReqStruct == Struct({"inviteCode"}, {})
RegistrationCompletePostReqStruct ==
    Struct({"challengeToken", "registrationResponse", "wrappedKeys"}, {"deviceInfo"})
WrappedKeyInputStruct == Struct({"scope", "wrappedDek", "wrapAlgorithm"}, {})
TokenRefreshPostReqStruct == Struct({"refreshToken"}, {})
InviteStruct == Struct({"code", "expiresAt"}, {})
LoginBeginPostOKStruct == Struct({"challengeToken", "requestOptions"}, {})
LoginPostOKStruct == Struct({"tokenPair", "wrappedKeys"}, {})
WrappedKeyOutputStruct == Struct({"scope", "wrappedDek", "wrapAlgorithm"}, {})
RegistrationBeginPostOKStruct ==
    Struct({"challengeToken", "creationOptions"}, {})
TokenPairStruct == Struct({"accessToken", "refreshToken"}, {})
ErrorResponseStruct == Struct({"error"}, {})
ErrorResponseErrorStruct == Struct({"code", "message"}, {})

Structs ==
    [LoginPostReq                |-> LoginPostReqStruct,
     RegistrationBeginPostReq    |-> RegistrationBeginPostReqStruct,
     RegistrationCompletePostReq |-> RegistrationCompletePostReqStruct,
     WrappedKeyInput             |-> WrappedKeyInputStruct,
     TokenRefreshPostReq         |-> TokenRefreshPostReqStruct,
     Invite                      |-> InviteStruct,
     LoginBeginPostOK            |-> LoginBeginPostOKStruct,
     LoginPostOK                 |-> LoginPostOKStruct,
     WrappedKeyOutput            |-> WrappedKeyOutputStruct,
     RegistrationBeginPostOK     |-> RegistrationBeginPostOKStruct,
     TokenPair                   |-> TokenPairStruct,
     ErrorResponse               |-> ErrorResponseStruct,
     ErrorResponseError          |-> ErrorResponseErrorStruct]

Kinds == DOMAIN Structs

(* What is written of a value: for each type of object in it, the fields   *)
(* that are set.                                                           *)
WellFormed(objects) ==
    /\ objects = [t \in DOMAIN objects |-> objects[t]]
    /\ \A t \in DOMAIN objects :
          /\ t \in Kinds
          /\ Structs[t].fields \subseteq objects[t]
          /\ objects[t] \subseteq Structs[t].fields \cup Structs[t].optional

-----------------------------------------------------------------------------
(* Objects in JSON: the fields that are always written and those that are  *)
(* written if set, the fields without which reading fails and those it     *)
(* knows besides.                                                          *)

Writes(always, ifSet)     == [always |-> always, ifSet |-> ifSet]
Reads(required, optional) == [required |-> required, optional |-> optional]

LoginPostReqEncode ==
    Writes({"challengeToken", "authenticationResponse"}, {"deviceInfo"})
\* Mutant: what the description leaves out at will is asked for.
DecodeWithDevice ==
    Reads({"challengeToken", "authenticationResponse", "deviceInfo"}, {})
LoginPostReqDecode ==
    Reads({"challengeToken", "authenticationResponse"}, {"deviceInfo"})

RegistrationBeginPostReqEncode == Writes({"inviteCode"}, {})
RegistrationBeginPostReqDecode == Reads({"inviteCode"}, {})

\* Mutant: what was made optional in the description is not sent at all.
EncodeWithoutDevice ==
    Writes({"challengeToken", "registrationResponse", "wrappedKeys"}, {})
RegistrationCompletePostReqEncode ==
    Writes({"challengeToken", "registrationResponse", "wrappedKeys"}, {"deviceInfo"})
RegistrationCompletePostReqDecode ==
    Reads({"challengeToken", "registrationResponse", "wrappedKeys"}, {"deviceInfo"})

WrappedKeyInputEncode == Writes({"scope", "wrappedDek", "wrapAlgorithm"}, {})
WrappedKeyInputDecode == Reads({"scope", "wrappedDek", "wrapAlgorithm"}, {})

TokenRefreshPostReqEncode == Writes({"refreshToken"}, {})
TokenRefreshPostReqDecode == Reads({"refreshToken"}, {})

InviteEncode == Writes({"code", "expiresAt"}, {})
InviteDecode == Reads({"code", "expiresAt"}, {})

LoginBeginPostOKEncode == Writes({"challengeToken", "requestOptions"}, {})
LoginBeginPostOKDecode == Reads({"challengeToken", "requestOptions"}, {})

LoginPostOKEncode == Writes({"tokenPair", "wrappedKeys"}, {})
LoginPostOKDecode == Reads({"tokenPair", "wrappedKeys"}, {})

WrappedKeyOutputEncode == Writes({"scope", "wrappedDek", "wrapAlgorithm"}, {})
WrappedKeyOutputDecode == Reads({"scope", "wrappedDek", "wrapAlgorithm"}, {})

RegistrationBeginPostOKEncode == Writes({"challengeToken", "creationOptions"}, {})
RegistrationBeginPostOKDecode == Reads({"challengeToken", "creationOptions"}, {})

TokenPairEncode == Writes({"accessToken", "refreshToken"}, {})
TokenPairDecode == Reads({"accessToken", "refreshToken"}, {})

ErrorResponseEncode == Writes({"error"}, {})
ErrorResponseDecode == Reads({"error"}, {})

ErrorResponseErrorEncode == Writes({"code", "message"}, {})
ErrorResponseErrorDecode == Reads({"code", "message"}, {})

encodeFields ==
    [LoginPostReq                |-> LoginPostReqEncode,
     RegistrationBeginPostReq    |-> RegistrationBeginPostReqEncode,
     RegistrationCompletePostReq |-> RegistrationCompletePostReqEncode,
     WrappedKeyInput             |-> WrappedKeyInputEncode,
     TokenRefreshPostReq         |-> TokenRefreshPostReqEncode,
     Invite                      |-> InviteEncode,
     LoginBeginPostOK            |-> LoginBeginPostOKEncode,
     LoginPostOK                 |-> LoginPostOKEncode,
     WrappedKeyOutput            |-> WrappedKeyOutputEncode,
     RegistrationBeginPostOK     |-> RegistrationBeginPostOKEncode,
     TokenPair                   |-> TokenPairEncode,
     ErrorResponse               |-> ErrorResponseEncode,
     ErrorResponseError          |-> ErrorResponseErrorEncode]

decodeFields ==
    [LoginPostReq                |-> LoginPostReqDecode,
     RegistrationBeginPostReq    |-> RegistrationBeginPostReqDecode,
     RegistrationCompletePostReq |-> RegistrationCompletePostReqDecode,
     WrappedKeyInput             |-> WrappedKeyInputDecode,
     TokenRefreshPostReq         |-> TokenRefreshPostReqDecode,
     Invite                      |-> InviteDecode,
     LoginBeginPostOK            |-> LoginBeginPostOKDecode,
     LoginPostOK                 |-> LoginPostOKDecode,
     WrappedKeyOutput            |-> WrappedKeyOutputDecode,
     RegistrationBeginPostOK     |-> RegistrationBeginPostOKDecode,
     TokenPair                   |-> TokenPairDecode,
     ErrorResponse               |-> ErrorResponseDecode,
     ErrorResponseError          |-> ErrorResponseErrorDecode]

(* The objects of a value as they are written, and as they are read.       *)
Encode(objects) ==
    [t \in DOMAIN objects |->
        encodeFields[t].always \cup (encodeFields[t].ifSet \cap objects[t])]

Complete(objects) == \A t \in DOMAIN objects : decodeFields[t].required \subseteq objects[t]

Decode(objects) ==
    [t \in DOMAIN objects |->
        objects[t] \cap (decodeFields[t].required \cup decodeFields[t].optional)]

WrappedKeyScope == {"main", "decoy"}

ErrorResponseErrorCode ==
    {"VALIDATION_ERROR", "UNAUTHORIZED", "FORBIDDEN", "NOT_FOUND", "INVITE_NOT_FOUND",
     "INVITE_EXPIRED", "INVITE_ALREADY_USED", "INVITE_LIMIT_EXCEEDED",
     "WRAPPED_KEYS_REQUIRED", "CHALLENGE_EXPIRED", "CREDENTIAL_NOT_FOUND",
     "CREDENTIAL_REVOKED", "CREDENTIAL_CLONE_SUSPECTED", "REFRESH_TOKEN_NOT_FOUND",
     "REFRESH_TOKEN_INVALID", "REFRESH_TOKEN_REUSE_DETECTED", "SESSION_NOT_FOUND",
     "SESSION_FORBIDDEN", "INTERNAL_ERROR"}

(* What is asked of a value once it has been read.                         *)
ValidKeys(body) ==
    "WrappedKeyInput" \in DOMAIN body.objects /\ body.enums \subseteq WrappedKeyScope
ValidLogin(body) == body.enums \subseteq WrappedKeyScope
ValidError(body) == body.enums \subseteq ErrorResponseErrorCode

Validate(kind, body) ==
    CASE kind = "RegistrationCompletePostReq" -> ValidKeys(body)
      [] kind = "LoginPostOK"                 -> ValidLogin(body)
      [] kind = "ErrorResponse"               -> ValidError(body)
      [] OTHER                                -> TRUE

(* A body that reads as a value of that kind.                              *)
Readable(kind, body) ==
    /\ body.media = "json" /\ body.parses
    /\ kind \in DOMAIN body.objects
    /\ Complete(body.objects)
    /\ Validate(kind, body)

-----------------------------------------------------------------------------
(* The server reads a request.  A body that is longer than the limit of    *)
(* the router fails when it is read, which is not tried of one that is not *)
(* labelled as JSON or says that it is empty.                              *)

NoBody == [media |-> "none", length |-> "none", parses |-> TRUE,
           objects |-> << >>, enums |-> {}]

DecodeRequest(kind, body) ==
    IF body.media # "json" \/ body.length = "none" THEN "bad"
    ELSE IF body.length = "over" THEN "oversize"
    ELSE IF Readable(kind, body) THEN "good" ELSE "bad"

decodeLoginPostRequest(body) == DecodeRequest("LoginPostReq", body)
decodeRegistrationBeginPostRequest(body) ==
    DecodeRequest("RegistrationBeginPostReq", body)
decodeRegistrationCompletePostRequest(body) ==
    DecodeRequest("RegistrationCompletePostReq", body)
decodeTokenRefreshPostRequest(body) == DecodeRequest("TokenRefreshPostReq", body)

(* A parameter is there and is an id.                                      *)
decodeRevokeChainPostParams(path) == IF path[3] \in UUIDs THEN "good" ELSE "bad"
decodeSessionsSessionIdDeleteParams(path) ==
    IF path[2] \in UUIDs THEN "good" ELSE "bad"

(* What reading the input of an operation comes to.                        *)
DecodeInput(op, path, body) ==
    CASE op = "RevokeChainPost"          -> decodeRevokeChainPostParams(path)
      [] op = "SessionsSessionIdDelete"  -> decodeSessionsSessionIdDeleteParams(path)
      [] op = "LoginPost"                -> decodeLoginPostRequest(body)
      [] op = "RegistrationBeginPost"    -> decodeRegistrationBeginPostRequest(body)
      [] op = "RegistrationCompletePost" -> decodeRegistrationCompletePostRequest(body)
      [] op = "TokenRefreshPost"         -> decodeTokenRefreshPostRequest(body)
      [] OTHER                           -> "good"

-----------------------------------------------------------------------------
(* The server writes an answer: the status of each type of answer, and     *)
(* which types are an ErrorResponse by another name.                       *)

encodeRevokeChainPostResponse ==
    [NoContent |-> 204, BadRequest |-> 400, Unauthorized |-> 401, Forbidden |-> 403,
     NotFound |-> 404, InternalServerError |-> 500]
encodeAuthVerifyGetResponse ==
    [NoContent |-> 204, Unauthorized |-> 401, InternalServerError |-> 500]
encodeInvitesPostResponse ==
    [Invite |-> 201, BadRequest |-> 400, Unauthorized |-> 401, Conflict |-> 409,
     InternalServerError |-> 500]
encodeLoginBeginPostResponse == [LoginBeginPostOK |-> 200, ErrorResponse |-> 500]
encodeLoginPostResponse ==
    [LoginPostOK |-> 200, BadRequest |-> 400, Unauthorized |-> 401,
     InternalServerError |-> 500]
encodeRegistrationBeginPostResponse ==
    [RegistrationBeginPostOK |-> 200, BadRequest |-> 400, NotFound |-> 404,
     Conflict |-> 409, InternalServerError |-> 500]
encodeRegistrationCompletePostResponse ==
    [TokenPair |-> 201, BadRequest |-> 400, Unauthorized |-> 401, NotFound |-> 404,
     Conflict |-> 409, InternalServerError |-> 500]
encodeSessionsSessionIdDeleteResponse ==
    [NoContent |-> 204, BadRequest |-> 400, Unauthorized |-> 401, Forbidden |-> 403,
     NotFound |-> 404, InternalServerError |-> 500]
encodeTokenRefreshPostResponse ==
    [TokenPair |-> 200, BadRequest |-> 400, Unauthorized |-> 401,
     InternalServerError |-> 500]

encodeResponse ==
    [AuthVerifyGet            |-> encodeAuthVerifyGetResponse,
     InvitesPost              |-> encodeInvitesPostResponse,
     SessionsSessionIdDelete  |-> encodeSessionsSessionIdDeleteResponse,
     RevokeChainPost          |-> encodeRevokeChainPostResponse,
     LoginBeginPost           |-> encodeLoginBeginPostResponse,
     LoginPost                |-> encodeLoginPostResponse,
     RegistrationBeginPost    |-> encodeRegistrationBeginPostResponse,
     RegistrationCompletePost |-> encodeRegistrationCompletePostResponse,
     TokenRefreshPost         |-> encodeTokenRefreshPostResponse]

AuthVerifyGetAliases == {"InternalServerError", "Unauthorized"}
InvitesPostAliases == {"BadRequest", "Conflict", "InternalServerError", "Unauthorized"}
SessionsSessionIdDeleteAliases ==
    {"BadRequest", "Forbidden", "InternalServerError", "NotFound", "Unauthorized"}
RevokeChainPostAliases ==
    {"BadRequest", "Forbidden", "InternalServerError", "NotFound", "Unauthorized"}
LoginPostAliases == {"BadRequest", "InternalServerError", "Unauthorized"}
RegistrationBeginPostAliases ==
    {"BadRequest", "Conflict", "InternalServerError", "NotFound"}
RegistrationCompletePostAliases ==
    {"BadRequest", "Conflict", "InternalServerError", "NotFound", "Unauthorized"}
TokenRefreshPostAliases == {"BadRequest", "InternalServerError", "Unauthorized"}

Aliases ==
    [AuthVerifyGet            |-> AuthVerifyGetAliases,
     InvitesPost              |-> InvitesPostAliases,
     SessionsSessionIdDelete  |-> SessionsSessionIdDeleteAliases,
     RevokeChainPost          |-> RevokeChainPostAliases,
     LoginBeginPost           |-> {},
     LoginPost                |-> LoginPostAliases,
     RegistrationBeginPost    |-> RegistrationBeginPostAliases,
     RegistrationCompletePost |-> RegistrationCompletePostAliases,
     TokenRefreshPost         |-> TokenRefreshPostAliases]

(* The kind of object in the body of an answer of that type.               *)
KindOf(op, type) == IF type \in Aliases[op] THEN "ErrorResponse" ELSE type

-----------------------------------------------------------------------------
(* The client reads an answer: the type it takes each status for.  A       *)
(* status that is not listed is an error of the client, as is a body that  *)
(* does not read.                                                          *)

decodeRevokeChainPostResponse ==
    {<<204, "NoContent">>, <<400, "BadRequest">>, <<401, "Unauthorized">>,
     <<403, "Forbidden">>, <<404, "NotFound">>, <<500, "InternalServerError">>}
decodeAuthVerifyGetResponse ==
    {<<204, "NoContent">>, <<401, "Unauthorized">>, <<500, "InternalServerError">>}
\* Mutant: the description the client was generated from has no 409.
decodeInvitesWithoutConflict ==
    {<<201, "Invite">>, <<400, "BadRequest">>, <<401, "Unauthorized">>,
     <<500, "InternalServerError">>}
decodeInvitesPostResponse ==
    {<<201, "Invite">>, <<400, "BadRequest">>, <<401, "Unauthorized">>,
     <<409, "Conflict">>, <<500, "InternalServerError">>}
decodeLoginBeginPostResponse == {<<200, "LoginBeginPostOK">>, <<500, "ErrorResponse">>}
decodeLoginPostResponse ==
    {<<200, "LoginPostOK">>, <<400, "BadRequest">>, <<401, "Unauthorized">>,
     <<500, "InternalServerError">>}
decodeRegistrationBeginPostResponse ==
    {<<200, "RegistrationBeginPostOK">>, <<400, "BadRequest">>, <<404, "NotFound">>,
     <<409, "Conflict">>, <<500, "InternalServerError">>}
decodeRegistrationCompletePostResponse ==
    {<<201, "TokenPair">>, <<400, "BadRequest">>, <<401, "Unauthorized">>,
     <<404, "NotFound">>, <<409, "Conflict">>, <<500, "InternalServerError">>}
decodeSessionsSessionIdDeleteResponse ==
    {<<204, "NoContent">>, <<400, "BadRequest">>, <<401, "Unauthorized">>,
     <<403, "Forbidden">>, <<404, "NotFound">>, <<500, "InternalServerError">>}
decodeTokenRefreshPostResponse ==
    {<<200, "TokenPair">>, <<400, "BadRequest">>, <<401, "Unauthorized">>,
     <<500, "InternalServerError">>}

decodeResponse ==
    [AuthVerifyGet            |-> decodeAuthVerifyGetResponse,
     InvitesPost              |-> decodeInvitesPostResponse,
     SessionsSessionIdDelete  |-> decodeSessionsSessionIdDeleteResponse,
     RevokeChainPost          |-> decodeRevokeChainPostResponse,
     LoginBeginPost           |-> decodeLoginBeginPostResponse,
     LoginPost                |-> decodeLoginPostResponse,
     RegistrationBeginPost    |-> decodeRegistrationBeginPostResponse,
     RegistrationCompletePost |-> decodeRegistrationCompletePostResponse,
     TokenRefreshPost         |-> decodeTokenRefreshPostResponse]

(* The objects in the body of an answer, none of whose fields is optional. *)
Parts(kind) ==
    CASE kind = "ErrorResponse" -> {"ErrorResponse", "ErrorResponseError"}
      [] kind = "LoginPostOK"   -> {"LoginPostOK", "TokenPair", "WrappedKeyOutput"}
      [] OTHER                  -> {kind}

AnswerBody(op, type, code) ==
    LET kind == KindOf(op, type)
    IN  IF type # "none" /\ kind \in Kinds
        THEN [media |-> "json", length |-> "fits", parses |-> TRUE,
              objects |-> Encode([t \in Parts(kind) |-> Structs[t].fields]),
              enums |-> CASE kind = "ErrorResponse" -> {code}
                          [] kind = "LoginPostOK"   -> WrappedKeyScope
                          [] OTHER                  -> {}]
        ELSE NoBody

(* The types an answer is taken for: one of them, or none if the client    *)
(* cannot make sense of it.                                                *)
TakenFor(op, status, body) ==
    {t \in {"NoContent"} \cup Aliases[op] \cup Kinds :
        /\ <<status, t>> \in decodeResponse[op]
        /\ t # "NoContent" => Readable(KindOf(op, t), body)}

-----------------------------------------------------------------------------
(* The client writes a request, of an id or of a value: the objects of it, *)
(* the texts of an enumeration and whether it exceeds the limit.           *)

JSON(value) ==
    [media |-> "json", length |-> IF value.big THEN "over" ELSE "fits",
     parses |-> TRUE, objects |-> Encode(value.objects), enums |-> value.enums]

encodeLoginPostRequest(value)                == JSON(value)
encodeRegistrationBeginPostRequest(value)    == JSON(value)
encodeRegistrationCompletePostRequest(value) == JSON(value)
encodeTokenRefreshPostRequest(value)         == JSON(value)

Posting(method, path, secured, body) ==
    [method |-> method, path |-> path, secured |-> secured, body |-> body]

sendRevokeChainPost(id) ==
    Posting("POST", <<"admin", "users", id, "revoke-chain">>, TRUE, NoBody)
sendAuthVerifyGet  == Posting("GET", <<"auth", "verify">>, TRUE, NoBody)
sendInvitesPost    == Posting("POST", <<"invites">>, TRUE, NoBody)
sendLoginBeginPost == Posting("POST", <<"login", "begin">>, FALSE, NoBody)
sendLoginPost(value) ==
    Posting("POST", <<"login">>, FALSE, encodeLoginPostRequest(value))
sendRegistrationBeginPost(value) ==
    Posting("POST", <<"registration", "begin">>, FALSE,
            encodeRegistrationBeginPostRequest(value))
sendRegistrationCompletePost(value) ==
    Posting("POST", <<"registration", "complete">>, FALSE,
            encodeRegistrationCompletePostRequest(value))
sendSessionsSessionIdDelete(id) ==
    Posting("DELETE", <<"sessions", id>>, TRUE, NoBody)
sendTokenRefreshPost(value) ==
    Posting("POST", <<"token", "refresh">>, FALSE, encodeTokenRefreshPostRequest(value))

Send(op, id, value) ==
    CASE op = "RevokeChainPost"          -> sendRevokeChainPost(id)
      [] op = "AuthVerifyGet"            -> sendAuthVerifyGet
      [] op = "InvitesPost"              -> sendInvitesPost
      [] op = "LoginBeginPost"           -> sendLoginBeginPost
      [] op = "LoginPost"                -> sendLoginPost(value)
      [] op = "RegistrationBeginPost"    -> sendRegistrationBeginPost(value)
      [] op = "RegistrationCompletePost" -> sendRegistrationCompletePost(value)
      [] op = "SessionsSessionIdDelete"  -> sendSessionsSessionIdDelete(id)
      [] op = "TokenRefreshPost"         -> sendTokenRefreshPost(value)
=============================================================================
