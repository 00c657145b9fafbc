---------------------------- MODULE ExchangeProofs -----------------------------
(***************************************************************************)
(* Every exchange serves its request as Front does, so that what Front     *)
(* promises of a request holds from end to end; and a call reaches the     *)
(* operation it was made of, with all that its caller gave, for values     *)
(* and paths of every kind.                                                *)
(***************************************************************************)
EXTENDS Exchange, FrontProofs

-----------------------------------------------------------------------------
(* An exchange is an exchange around one request of Front.                 *)

(* An exchange begins with a request that begins.                          *)
LEMMA ExchangeBegins == ExchangeInit => Init
  BY DEF ExchangeInit

(* Its steps serve the request, or leave it as it is.                      *)
LEMMA ExchangeServes == [ExchangeNext]_allVars => [Next]_vars
  BY DEF ExchangeNext, ExchangeStep, Serve, WriteAnswer, ReadAnswer, Break, Over,
         Next, allVars

(* Seen from the request alone, every behaviour of an exchange is one that *)
(* the router, the generated server and the handlers have (ServeHTTP).     *)
THEOREM ExchangeImplementsFront == ExchangeSpec => Init /\ [][Next]_vars
  BY ExchangeBegins, ExchangeServes, PTL DEF ExchangeSpec

(* What a request has at each of its stages it has in an exchange.         *)
LEMMA ExchangeCore == ExchangeSpec => []Core
  BY ExchangeImplementsFront, CoreInit, CoreNext, PTL

(* Requests are answered as in Front.                                      *)
LEMMA ExchangeAnswers == ExchangeSpec => [](TypeOK /\ AnswerTellsOutcome)
<1>1. Init => AnswerTellsOutcome
  BY DEF Init, AnswerTellsOutcome, Following
<1>. QED
  BY <1>1, ExchangeImplementsFront, ExchangeCore, TypeInit, AnswerNext, PTL

(* Whatever was written on the wire, by the generated client or by another *)
(* program, only an authorized request is acted on (HandleBearerAuth).     *)
THEOREM ExchangeAuthorized == ExchangeSpec => []ServedAuthorized
<1>1. Core => ServedAuthorized
  BY DEF Core, IInv
<1>. QED
  BY <1>1, ExchangeCore, PTL

(* Whatever was written on the wire, a login or a registration is given    *)
(* the address of its client (extractClientIP).                            *)
THEOREM ExchangeAddress == ExchangeSpec => []ClientKnown
<1>1. Core => ClientKnown
  BY DEF Core, IInv
<1>. QED
  BY <1>1, ExchangeCore, PTL

(* Nothing but its own path, token, input or peer turns a request away     *)
(* (newErrorHandler).                                                      *)
THEOREM ExchangeTurnsNoneAway == ExchangeSpec => []RefusedWithCause
<1>1. Core => RefusedWithCause
  BY DEF Core, IInv
<1>. QED
  BY <1>1, ExchangeCore, PTL

(* What is told over the wire is what the registries make of the outcome.  *)
THEOREM ExchangeTellsOutcome == ExchangeSpec => []AnswerTellsOutcome
<1>1. TypeOK /\ AnswerTellsOutcome => AnswerTellsOutcome
  OBVIOUS
<1>. QED
  BY <1>1, ExchangeAnswers, PTL

-----------------------------------------------------------------------------
(* The two ends fit.                                                       *)

(* The fields that are written and read of a value are those it has.       *)
LEMMA FieldsAgree ==
    ASSUME NEW t \in Kinds
    PROVE  /\ encodeFields[t].always = Structs[t].fields
           /\ encodeFields[t].ifSet = Structs[t].optional
           /\ decodeFields[t].required = Structs[t].fields
           /\ decodeFields[t].optional = Structs[t].optional
<1>. DEFINE Agree(w, r, f) == /\ w.always = f.fields   /\ w.ifSet = f.optional
                              /\ r.required = f.fields /\ r.optional = f.optional
<1>1. CASE t = "LoginPostReq"
  <2>1. Agree(LoginPostReqEncode, LoginPostReqDecode, LoginPostReqStruct)
    BY DEF LoginPostReqEncode, LoginPostReqDecode, LoginPostReqStruct,
           Struct, Writes, Reads
  <2>2. /\ encodeFields[t] = LoginPostReqEncode
        /\ decodeFields[t] = LoginPostReqDecode
        /\ Structs[t] = LoginPostReqStruct
    BY <1>1 DEF encodeFields, decodeFields, Structs
  <2>. QED
    BY <2>1, <2>2
<1>2. CASE t = "RegistrationBeginPostReq"
  <2>1. Agree(RegistrationBeginPostReqEncode, RegistrationBeginPostReqDecode, RegistrationBeginPostReqStruct)
    BY DEF RegistrationBeginPostReqEncode, RegistrationBeginPostReqDecode, RegistrationBeginPostReqStruct,
           Struct, Writes, Reads
  <2>2. /\ encodeFields[t] = RegistrationBeginPostReqEncode
        /\ decodeFields[t] = RegistrationBeginPostReqDecode
        /\ Structs[t] = RegistrationBeginPostReqStruct
    BY <1>2 DEF encodeFields, decodeFields, Structs
  <2>. QED
    BY <2>1, <2>2
<1>3. CASE t = "RegistrationCompletePostReq"
  <2>1. Agree(RegistrationCompletePostReqEncode, RegistrationCompletePostReqDecode, RegistrationCompletePostReqStruct)
    BY DEF RegistrationCompletePostReqEncode, RegistrationCompletePostReqDecode, RegistrationCompletePostReqStruct,
           Struct, Writes, Reads
  <2>2. /\ encodeFields[t] = RegistrationCompletePostReqEncode
        /\ decodeFields[t] = RegistrationCompletePostReqDecode
        /\ Structs[t] = RegistrationCompletePostReqStruct
    BY <1>3 DEF encodeFields, decodeFields, Structs
  <2>. QED
    BY <2>1, <2>2
<1>4. CASE t = "WrappedKeyInput"
  <2>1. Agree(WrappedKeyInputEncode, WrappedKeyInputDecode, WrappedKeyInputStruct)
    BY DEF WrappedKeyInputEncode, WrappedKeyInputDecode, WrappedKeyInputStruct,
           Struct, Writes, Reads
  <2>2. /\ encodeFields[t] = WrappedKeyInputEncode
        /\ decodeFields[t] = WrappedKeyInputDecode
        /\ Structs[t] = WrappedKeyInputStruct
    BY <1>4 DEF encodeFields, decodeFields, Structs
  <2>. QED
    BY <2>1, <2>2
<1>5. CASE t = "TokenRefreshPostReq"
  <2>1. Agree(TokenRefreshPostReqEncode, TokenRefreshPostReqDecode, TokenRefreshPostReqStruct)
    BY DEF TokenRefreshPostReqEncode, TokenRefreshPostReqDecode, TokenRefreshPostReqStruct,
           Struct, Writes, Reads
  <2>2. /\ encodeFields[t] = TokenRefreshPostReqEncode
        /\ decodeFields[t] = TokenRefreshPostReqDecode
        /\ Structs[t] = TokenRefreshPostReqStruct
    BY <1>5 DEF encodeFields, decodeFields, Structs
  <2>. QED
    BY <2>1, <2>2
<1>6. CASE t = "Invite"
  <2>1. Agree(InviteEncode, InviteDecode, InviteStruct)
    BY DEF InviteEncode, InviteDecode, InviteStruct,
           Struct, Writes, Reads
  <2>2. /\ encodeFields[t] = InviteEncode
        /\ decodeFields[t] = InviteDecode
        /\ Structs[t] = InviteStruct
    BY <1>6 DEF encodeFields, decodeFields, Structs
  <2>. QED
    BY <2>1, <2>2
<1>7. CASE t = "LoginBeginPostOK"
  <2>1. Agree(LoginBeginPostOKEncode, LoginBeginPostOKDecode, LoginBeginPostOKStruct)
    BY DEF LoginBeginPostOKEncode, LoginBeginPostOKDecode, LoginBeginPostOKStruct,
           Struct, Writes, Reads
  <2>2. /\ encodeFields[t] = LoginBeginPostOKEncode
        /\ decodeFields[t] = LoginBeginPostOKDecode
        /\ Structs[t] = LoginBeginPostOKStruct
    BY <1>7 DEF encodeFields, decodeFields, Structs
  <2>. QED
    BY <2>1, <2>2
<1>8. CASE t = "LoginPostOK"
  <2>1. Agree(LoginPostOKEncode, LoginPostOKDecode, LoginPostOKStruct)
    BY DEF LoginPostOKEncode, LoginPostOKDecode, LoginPostOKStruct,
           Struct, Writes, Reads
  <2>2. /\ encodeFields[t] = LoginPostOKEncode
        /\ decodeFields[t] = LoginPostOKDecode
        /\ Structs[t] = LoginPostOKStruct
    BY <1>8 DEF encodeFields, decodeFields, Structs
  <2>. QED
    BY <2>1, <2>2
<1>9. CASE t = "WrappedKeyOutput"
  <2>1. Agree(WrappedKeyOutputEncode, WrappedKeyOutputDecode, WrappedKeyOutputStruct)
    BY DEF WrappedKeyOutputEncode, WrappedKeyOutputDecode, WrappedKeyOutputStruct,
           Struct, Writes, Reads
  <2>2. /\ encodeFields[t] = WrappedKeyOutputEncode
        /\ decodeFields[t] = WrappedKeyOutputDecode
        /\ Structs[t] = WrappedKeyOutputStruct
    BY <1>9 DEF encodeFields, decodeFields, Structs
  <2>. QED
    BY <2>1, <2>2
<1>10. CASE t = "RegistrationBeginPostOK"
  <2>1. Agree(RegistrationBeginPostOKEncode, RegistrationBeginPostOKDecode, RegistrationBeginPostOKStruct)
    BY DEF RegistrationBeginPostOKEncode, RegistrationBeginPostOKDecode, RegistrationBeginPostOKStruct,
           Struct, Writes, Reads
  <2>2. /\ encodeFields[t] = RegistrationBeginPostOKEncode
        /\ decodeFields[t] = RegistrationBeginPostOKDecode
        /\ Structs[t] = RegistrationBeginPostOKStruct
    BY <1>10 DEF encodeFields, decodeFields, Structs
  <2>. QED
    BY <2>1, <2>2
<1>11. CASE t = "TokenPair"
  <2>1. Agree(TokenPairEncode, TokenPairDecode, TokenPairStruct)
    BY DEF TokenPairEncode, TokenPairDecode, TokenPairStruct,
           Struct, Writes, Reads
  <2>2. /\ encodeFields[t] = TokenPairEncode
        /\ decodeFields[t] = TokenPairDecode
        /\ Structs[t] = TokenPairStruct
    BY <1>11 DEF encodeFields, decodeFields, Structs
  <2>. QED
    BY <2>1, <2>2
<1>12. CASE t = "ErrorResponse"
  <2>1. Agree(ErrorResponseEncode, ErrorResponseDecode, ErrorResponseStruct)
    BY DEF ErrorResponseEncode, ErrorResponseDecode, ErrorResponseStruct,
           Struct, Writes, Reads
  <2>2. /\ encodeFields[t] = ErrorResponseEncode
        /\ decodeFields[t] = ErrorResponseDecode
        /\ Structs[t] = ErrorResponseStruct
    BY <1>12 DEF encodeFields, decodeFields, Structs
  <2>. QED
    BY <2>1, <2>2
<1>13. CASE t = "ErrorResponseError"
  <2>1. Agree(ErrorResponseErrorEncode, ErrorResponseErrorDecode, ErrorResponseErrorStruct)
    BY DEF ErrorResponseErrorEncode, ErrorResponseErrorDecode, ErrorResponseErrorStruct,
           Struct, Writes, Reads
  <2>2. /\ encodeFields[t] = ErrorResponseErrorEncode
        /\ decodeFields[t] = ErrorResponseErrorDecode
        /\ Structs[t] = ErrorResponseErrorStruct
    BY <1>13 DEF encodeFields, decodeFields, Structs
  <2>. QED
    BY <2>1, <2>2
<1>. QED
  BY <1>1, <1>2, <1>3, <1>4, <1>5, <1>6, <1>7,
     <1>8, <1>9, <1>10, <1>11, <1>12, <1>13
     DEF Kinds, Structs

(* What is written of a value reads as that value, and as a whole one.     *)
LEMMA RoundTrip ==
    ASSUME NEW objects, WellFormed(objects)
    PROVE  /\ Decode(Encode(objects)) = objects
           /\ Complete(Encode(objects))
<1>1. ASSUME NEW t \in DOMAIN objects
      PROVE  /\ Encode(objects)[t] = objects[t]
             /\ objects[t] \cap (decodeFields[t].required \cup decodeFields[t].optional)
                  = objects[t]
             /\ decodeFields[t].required \subseteq objects[t]
  <2>1. /\ t \in Kinds
        /\ Structs[t].fields \subseteq objects[t]
        /\ objects[t] \subseteq Structs[t].fields \cup Structs[t].optional
    BY DEF WellFormed
  <2>2. Structs[t].fields \cup (Structs[t].optional \cap objects[t]) = objects[t]
    BY <2>1
  <2>3. Encode(objects)[t] = objects[t]
    BY <2>1, <2>2, FieldsAgree DEF Encode
  <2>. QED
    BY <2>1, <2>3, FieldsAgree
<1>2. DOMAIN Encode(objects) = DOMAIN objects
  BY DEF Encode
<1>3. Decode(Encode(objects)) = [t \in DOMAIN objects |-> objects[t]]
  BY <1>1, <1>2 DEF Decode
<1>4. Complete(Encode(objects))
  BY <1>1, <1>2 DEF Complete
<1>. QED
  BY <1>3, <1>4 DEF WellFormed

(* A path of one text leads along a route of one.                          *)
LEMMA LeadsByOne ==
    ASSUME NEW route, NEW a
    PROVE  Leads(route, <<a>>) <=> Len(route.path) = 1 /\ route.path[1] \in {Param, a}
<1>1. DOMAIN <<a>> = {1} /\ Len(<<a>>) = 1
  OBVIOUS
<1>. QED
  BY <1>1 DEF Leads

(* A path of two texts leads along a route of two.                         *)
LEMMA LeadsByTwo ==
    ASSUME NEW route, NEW a, NEW b
    PROVE  Leads(route, <<a, b>>) <=>
              /\ Len(route.path) = 2
              /\ route.path[1] \in {Param, a} /\ route.path[2] \in {Param, b}
<1>1. DOMAIN <<a, b>> = {1, 2} /\ Len(<<a, b>>) = 2
  OBVIOUS
<1>. QED
  BY <1>1 DEF Leads

(* A path of four texts leads along a route of four.                       *)
LEMMA LeadsByFour ==
    ASSUME NEW route, NEW a, NEW b, NEW c, NEW d
    PROVE  Leads(route, <<a, b, c, d>>) <=>
              /\ Len(route.path) = 4
              /\ route.path[1] \in {Param, a} /\ route.path[2] \in {Param, b}
              /\ route.path[3] \in {Param, c} /\ route.path[4] \in {Param, d}
<1>1. DOMAIN <<a, b, c, d>> = {1, 2, 3, 4} /\ Len(<<a, b, c, d>>) = 4
  OBVIOUS
<1>. QED
  BY <1>1 DEF Leads

(* What the method and the operation of each route are.                    *)
LEMMA RouteOperations ==
    /\ RevokeChainRoute.method = "POST" /\ RevokeChainRoute.op = "RevokeChainPost"
    /\ AuthVerifyRoute.method = "GET" /\ AuthVerifyRoute.op = "AuthVerifyGet"
    /\ InvitesRoute.method = "POST" /\ InvitesRoute.op = "InvitesPost"
    /\ LoginRoute.method = "POST" /\ LoginRoute.op = "LoginPost"
    /\ LoginBeginRoute.method = "POST" /\ LoginBeginRoute.op = "LoginBeginPost"
    /\ RegistrationBeginRoute.method = "POST" /\ RegistrationBeginRoute.op = "RegistrationBeginPost"
    /\ RegistrationCompleteRoute.method = "POST" /\ RegistrationCompleteRoute.op = "RegistrationCompletePost"
    /\ SessionRoute.method = "DELETE" /\ SessionRoute.op = "SessionsSessionIdDelete"
    /\ TokenRefreshRoute.method = "POST" /\ TokenRefreshRoute.op = "TokenRefreshPost"
  BY DEF To, RevokeChainRoute, AuthVerifyRoute, InvitesRoute,
         LoginRoute, LoginBeginRoute, RegistrationBeginRoute,
         RegistrationCompleteRoute, SessionRoute, TokenRefreshRoute

(* The routes that a path of one text leads along.                         *)
LEMMA RoutesOfOne ==
    ASSUME NEW r \in Routes, NEW a
    PROVE  Leads(r, <<a>>) <=>
              \/ r = InvitesRoute /\ a = "invites"
              \/ r = LoginRoute /\ a = "login"
<1>1. CASE r = RevokeChainRoute
  <2>1. /\ Len(r.path) = 4
        /\ r.path[1] = "admin"
        /\ r.path[2] = "users"
        /\ r.path[3] = Param
        /\ r.path[4] = "revoke-chain"
        /\ r.op = "RevokeChainPost"
    BY <1>1 DEF RevokeChainRoute, To
  <2>2. ~Leads(r, <<a>>)
    BY <2>1, LeadsByOne
  <2>. QED
    BY <1>1, <2>1, <2>2, RouteOperations
<1>2. CASE r = AuthVerifyRoute
  <2>1. /\ Len(r.path) = 2
        /\ r.path[1] = "auth"
        /\ r.path[2] = "verify"
        /\ r.op = "AuthVerifyGet"
    BY <1>2 DEF AuthVerifyRoute, To
  <2>2. ~Leads(r, <<a>>)
    BY <2>1, LeadsByOne
  <2>. QED
    BY <1>2, <2>1, <2>2, RouteOperations
<1>3. CASE r = InvitesRoute
  <2>1. /\ Len(r.path) = 1
        /\ r.path[1] = "invites"
        /\ r.op = "InvitesPost"
    BY <1>3 DEF InvitesRoute, To
  <2>2. Leads(r, <<a>>) <=> a = "invites"
    BY <2>1, LeadsByOne DEF Param
  <2>. QED
    BY <1>3, <2>1, <2>2, RouteOperations
<1>4. CASE r = LoginRoute
  <2>1. /\ Len(r.path) = 1
        /\ r.path[1] = "login"
        /\ r.op = "LoginPost"
    BY <1>4 DEF LoginRoute, To
  <2>2. Leads(r, <<a>>) <=> a = "login"
    BY <2>1, LeadsByOne DEF Param
  <2>. QED
    BY <1>4, <2>1, <2>2, RouteOperations
<1>5. CASE r = LoginBeginRoute
  <2>1. /\ Len(r.path) = 2
        /\ r.path[1] = "login"
        /\ r.path[2] = "begin"
        /\ r.op = "LoginBeginPost"
    BY <1>5 DEF LoginBeginRoute, To
  <2>2. ~Leads(r, <<a>>)
    BY <2>1, LeadsByOne
  <2>. QED
    BY <1>5, <2>1, <2>2, RouteOperations
<1>6. CASE r = RegistrationBeginRoute
  <2>1. /\ Len(r.path) = 2
        /\ r.path[1] = "registration"
        /\ r.path[2] = "begin"
        /\ r.op = "RegistrationBeginPost"
    BY <1>6 DEF RegistrationBeginRoute, To
  <2>2. ~Leads(r, <<a>>)
    BY <2>1, LeadsByOne
  <2>. QED
    BY <1>6, <2>1, <2>2, RouteOperations
<1>7. CASE r = RegistrationCompleteRoute
  <2>1. /\ Len(r.path) = 2
        /\ r.path[1] = "registration"
        /\ r.path[2] = "complete"
        /\ r.op = "RegistrationCompletePost"
    BY <1>7 DEF RegistrationCompleteRoute, To
  <2>2. ~Leads(r, <<a>>)
    BY <2>1, LeadsByOne
  <2>. QED
    BY <1>7, <2>1, <2>2, RouteOperations
<1>8. CASE r = SessionRoute
  <2>1. /\ Len(r.path) = 2
        /\ r.path[1] = "sessions"
        /\ r.path[2] = Param
        /\ r.op = "SessionsSessionIdDelete"
    BY <1>8 DEF SessionRoute, To
  <2>2. ~Leads(r, <<a>>)
    BY <2>1, LeadsByOne
  <2>. QED
    BY <1>8, <2>1, <2>2, RouteOperations
<1>9. CASE r = TokenRefreshRoute
  <2>1. /\ Len(r.path) = 2
        /\ r.path[1] = "token"
        /\ r.path[2] = "refresh"
        /\ r.op = "TokenRefreshPost"
    BY <1>9 DEF TokenRefreshRoute, To
  <2>2. ~Leads(r, <<a>>)
    BY <2>1, LeadsByOne
  <2>. QED
    BY <1>9, <2>1, <2>2, RouteOperations
<1>. QED
  BY <1>1, <1>2, <1>3, <1>4, <1>5, <1>6, <1>7, <1>8, <1>9 DEF Routes

(* The routes that a path of two texts leads along.                        *)
LEMMA RoutesOfTwo ==
    ASSUME NEW r \in Routes, NEW a, NEW b
    PROVE  Leads(r, <<a, b>>) <=>
              \/ r = AuthVerifyRoute /\ a = "auth" /\ b = "verify"
              \/ r = LoginBeginRoute /\ a = "login" /\ b = "begin"
              \/ r = RegistrationBeginRoute /\ a = "registration" /\ b = "begin"
              \/ r = RegistrationCompleteRoute /\ a = "registration" /\ b = "complete"
              \/ r = SessionRoute /\ a = "sessions"
              \/ r = TokenRefreshRoute /\ a = "token" /\ b = "refresh"
<1>1. CASE r = RevokeChainRoute
  <2>1. /\ Len(r.path) = 4
        /\ r.path[1] = "admin"
        /\ r.path[2] = "users"
        /\ r.path[3] = Param
        /\ r.path[4] = "revoke-chain"
        /\ r.op = "RevokeChainPost"
    BY <1>1 DEF RevokeChainRoute, To
  <2>2. ~Leads(r, <<a, b>>)
    BY <2>1, LeadsByTwo
  <2>. QED
    BY <1>1, <2>1, <2>2, RouteOperations
<1>2. CASE r = AuthVerifyRoute
  <2>1. /\ Len(r.path) = 2
        /\ r.path[1] = "auth"
        /\ r.path[2] = "verify"
        /\ r.op = "AuthVerifyGet"
    BY <1>2 DEF AuthVerifyRoute, To
  <2>2. Leads(r, <<a, b>>) <=> a = "auth" /\ b = "verify"
    BY <2>1, LeadsByTwo DEF Param
  <2>. QED
    BY <1>2, <2>1, <2>2, RouteOperations
<1>3. CASE r = InvitesRoute
  <2>1. /\ Len(r.path) = 1
        /\ r.path[1] = "invites"
        /\ r.op = "InvitesPost"
    BY <1>3 DEF InvitesRoute, To
  <2>2. ~Leads(r, <<a, b>>)
    BY <2>1, LeadsByTwo
  <2>. QED
    BY <1>3, <2>1, <2>2, RouteOperations
<1>4. CASE r = LoginRoute
  <2>1. /\ Len(r.path) = 1
        /\ r.path[1] = "login"
        /\ r.op = "LoginPost"
    BY <1>4 DEF LoginRoute, To
  <2>2. ~Leads(r, <<a, b>>)
    BY <2>1, LeadsByTwo
  <2>. QED
    BY <1>4, <2>1, <2>2, RouteOperations
<1>5. CASE r = LoginBeginRoute
  <2>1. /\ Len(r.path) = 2
        /\ r.path[1] = "login"
        /\ r.path[2] = "begin"
        /\ r.op = "LoginBeginPost"
    BY <1>5 DEF LoginBeginRoute, To
  <2>2. Leads(r, <<a, b>>) <=> a = "login" /\ b = "begin"
    BY <2>1, LeadsByTwo DEF Param
  <2>. QED
    BY <1>5, <2>1, <2>2, RouteOperations
<1>6. CASE r = RegistrationBeginRoute
  <2>1. /\ Len(r.path) = 2
        /\ r.path[1] = "registration"
        /\ r.path[2] = "begin"
        /\ r.op = "RegistrationBeginPost"
    BY <1>6 DEF RegistrationBeginRoute, To
  <2>2. Leads(r, <<a, b>>) <=> a = "registration" /\ b = "begin"
    BY <2>1, LeadsByTwo DEF Param
  <2>. QED
    BY <1>6, <2>1, <2>2, RouteOperations
<1>7. CASE r = RegistrationCompleteRoute
  <2>1. /\ Len(r.path) = 2
        /\ r.path[1] = "registration"
        /\ r.path[2] = "complete"
        /\ r.op = "RegistrationCompletePost"
    BY <1>7 DEF RegistrationCompleteRoute, To
  <2>2. Leads(r, <<a, b>>) <=> a = "registration" /\ b = "complete"
    BY <2>1, LeadsByTwo DEF Param
  <2>. QED
    BY <1>7, <2>1, <2>2, RouteOperations
<1>8. CASE r = SessionRoute
  <2>1. /\ Len(r.path) = 2
        /\ r.path[1] = "sessions"
        /\ r.path[2] = Param
        /\ r.op = "SessionsSessionIdDelete"
    BY <1>8 DEF SessionRoute, To
  <2>2. Leads(r, <<a, b>>) <=> a = "sessions"
    BY <2>1, LeadsByTwo DEF Param
  <2>. QED
    BY <1>8, <2>1, <2>2, RouteOperations
<1>9. CASE r = TokenRefreshRoute
  <2>1. /\ Len(r.path) = 2
        /\ r.path[1] = "token"
        /\ r.path[2] = "refresh"
        /\ r.op = "TokenRefreshPost"
    BY <1>9 DEF TokenRefreshRoute, To
  <2>2. Leads(r, <<a, b>>) <=> a = "token" /\ b = "refresh"
    BY <2>1, LeadsByTwo DEF Param
  <2>. QED
    BY <1>9, <2>1, <2>2, RouteOperations
<1>. QED
  BY <1>1, <1>2, <1>3, <1>4, <1>5, <1>6, <1>7, <1>8, <1>9 DEF Routes

(* The routes that a path of four texts leads along.                       *)
LEMMA RoutesOfFour ==
    ASSUME NEW r \in Routes, NEW a, NEW b, NEW c, NEW d
    PROVE  Leads(r, <<a, b, c, d>>) <=>
              \/ r = RevokeChainRoute /\ a = "admin" /\ b = "users" /\ d = "revoke-chain"
<1>1. CASE r = RevokeChainRoute
  <2>1. /\ Len(r.path) = 4
        /\ r.path[1] = "admin"
        /\ r.path[2] = "users"
        /\ r.path[3] = Param
        /\ r.path[4] = "revoke-chain"
        /\ r.op = "RevokeChainPost"
    BY <1>1 DEF RevokeChainRoute, To
  <2>2. Leads(r, <<a, b, c, d>>) <=> a = "admin" /\ b = "users" /\ d = "revoke-chain"
    <3>1. Leads(r, <<a, b, c, d>>) <=>
             /\ "admin" \in {Param, a} /\ "users" \in {Param, b}
             /\ Param \in {Param, c} /\ "revoke-chain" \in {Param, d}
      BY <2>1, LeadsByFour
    <3>2. Param # "admin" /\ Param # "users" /\ Param # "revoke-chain"
      BY DEF Param
    <3>. QED
      BY <3>1, <3>2
  <2>. QED
    BY <1>1, <2>1, <2>2, RouteOperations
<1>2. CASE r = AuthVerifyRoute
  <2>1. /\ Len(r.path) = 2
        /\ r.path[1] = "auth"
        /\ r.path[2] = "verify"
        /\ r.op = "AuthVerifyGet"
    BY <1>2 DEF AuthVerifyRoute, To
  <2>2. ~Leads(r, <<a, b, c, d>>)
    BY <2>1, LeadsByFour
  <2>. QED
    BY <1>2, <2>1, <2>2, RouteOperations
<1>3. CASE r = InvitesRoute
  <2>1. /\ Len(r.path) = 1
        /\ r.path[1] = "invites"
        /\ r.op = "InvitesPost"
    BY <1>3 DEF InvitesRoute, To
  <2>2. ~Leads(r, <<a, b, c, d>>)
    BY <2>1, LeadsByFour
  <2>. QED
    BY <1>3, <2>1, <2>2, RouteOperations
<1>4. CASE r = LoginRoute
  <2>1. /\ Len(r.path) = 1
        /\ r.path[1] = "login"
        /\ r.op = "LoginPost"
    BY <1>4 DEF LoginRoute, To
  <2>2. ~Leads(r, <<a, b, c, d>>)
    BY <2>1, LeadsByFour
  <2>. QED
    BY <1>4, <2>1, <2>2, RouteOperations
<1>5. CASE r = LoginBeginRoute
  <2>1. /\ Len(r.path) = 2
        /\ r.path[1] = "login"
        /\ r.path[2] = "begin"
        /\ r.op = "LoginBeginPost"
    BY <1>5 DEF LoginBeginRoute, To
  <2>2. ~Leads(r, <<a, b, c, d>>)
    BY <2>1, LeadsByFour
  <2>. QED
    BY <1>5, <2>1, <2>2, RouteOperations
<1>6. CASE r = RegistrationBeginRoute
  <2>1. /\ Len(r.path) = 2
        /\ r.path[1] = "registration"
        /\ r.path[2] = "begin"
        /\ r.op = "RegistrationBeginPost"
    BY <1>6 DEF RegistrationBeginRoute, To
  <2>2. ~Leads(r, <<a, b, c, d>>)
    BY <2>1, LeadsByFour
  <2>. QED
    BY <1>6, <2>1, <2>2, RouteOperations
<1>7. CASE r = RegistrationCompleteRoute
  <2>1. /\ Len(r.path) = 2
        /\ r.path[1] = "registration"
        /\ r.path[2] = "complete"
        /\ r.op = "RegistrationCompletePost"
    BY <1>7 DEF RegistrationCompleteRoute, To
  <2>2. ~Leads(r, <<a, b, c, d>>)
    BY <2>1, LeadsByFour
  <2>. QED
    BY <1>7, <2>1, <2>2, RouteOperations
<1>8. CASE r = SessionRoute
  <2>1. /\ Len(r.path) = 2
        /\ r.path[1] = "sessions"
        /\ r.path[2] = Param
        /\ r.op = "SessionsSessionIdDelete"
    BY <1>8 DEF SessionRoute, To
  <2>2. ~Leads(r, <<a, b, c, d>>)
    BY <2>1, LeadsByFour
  <2>. QED
    BY <1>8, <2>1, <2>2, RouteOperations
<1>9. CASE r = TokenRefreshRoute
  <2>1. /\ Len(r.path) = 2
        /\ r.path[1] = "token"
        /\ r.path[2] = "refresh"
        /\ r.op = "TokenRefreshPost"
    BY <1>9 DEF TokenRefreshRoute, To
  <2>2. ~Leads(r, <<a, b, c, d>>)
    BY <2>1, LeadsByFour
  <2>. QED
    BY <1>9, <2>1, <2>2, RouteOperations
<1>. QED
  BY <1>1, <1>2, <1>3, <1>4, <1>5, <1>6, <1>7, <1>8, <1>9 DEF Routes

(* Where one route is all that a path leads along, its method decides.     *)
LEMMA OneRoute ==
    ASSUME NEW path, NEW route \in Routes, \A r \in Routes : Leads(r, path) <=> r = route
    PROVE  ServeHTTP(route.method, path) = route.op
<1>1. {r \in Routes : Leads(r, path)} = {route}
  OBVIOUS
<1>2. {r \in {route} : r.method = route.method} = {route}
  OBVIOUS
<1>. QED
  BY <1>1, <1>2 DEF ServeHTTP

(* The router leads what the client writes for an operation to it, for     *)
(* every id.                                                               *)
LEMMA RouterFindsOperation ==
    ASSUME NEW op \in Operations, NEW id, NEW value
    PROVE  ServeHTTP(Send(op, id, value).method, Send(op, id, value).path) = op
<1>. DEFINE m == Send(op, id, value)
<1>. USE DEF Posting
<1>1. CASE op = "RevokeChainPost"
  <2>1. m.method = "POST" /\ m.path = <<"admin", "users", id, "revoke-chain">>
    BY <1>1 DEF Send, sendRevokeChainPost
  <2>2. \A r \in Routes : Leads(r, <<"admin", "users", id, "revoke-chain">>) <=> r = RevokeChainRoute
    BY RoutesOfFour, RouteOperations
  <2>3. RevokeChainRoute \in Routes
    BY DEF Routes
  <2>. QED
    BY <1>1, <2>1, <2>2, <2>3, OneRoute, RouteOperations
<1>2. CASE op = "AuthVerifyGet"
  <2>1. m.method = "GET" /\ m.path = <<"auth", "verify">>
    BY <1>2 DEF Send, sendAuthVerifyGet
  <2>2. \A r \in Routes : Leads(r, <<"auth", "verify">>) <=> r = AuthVerifyRoute
    BY RoutesOfTwo, RouteOperations
  <2>3. AuthVerifyRoute \in Routes
    BY DEF Routes
  <2>. QED
    BY <1>2, <2>1, <2>2, <2>3, OneRoute, RouteOperations
<1>3. CASE op = "InvitesPost"
  <2>1. m.method = "POST" /\ m.path = <<"invites">>
    BY <1>3 DEF Send, sendInvitesPost
  <2>2. \A r \in Routes : Leads(r, <<"invites">>) <=> r = InvitesRoute
    BY RoutesOfOne, RouteOperations
  <2>3. InvitesRoute \in Routes
    BY DEF Routes
  <2>. QED
    BY <1>3, <2>1, <2>2, <2>3, OneRoute, RouteOperations
<1>4. CASE op = "LoginPost"
  <2>1. m.method = "POST" /\ m.path = <<"login">>
    BY <1>4 DEF Send, sendLoginPost
  <2>2. \A r \in Routes : Leads(r, <<"login">>) <=> r = LoginRoute
    BY RoutesOfOne, RouteOperations
  <2>3. LoginRoute \in Routes
    BY DEF Routes
  <2>. QED
    BY <1>4, <2>1, <2>2, <2>3, OneRoute, RouteOperations
<1>5. CASE op = "LoginBeginPost"
  <2>1. m.method = "POST" /\ m.path = <<"login", "begin">>
    BY <1>5 DEF Send, sendLoginBeginPost
  <2>2. \A r \in Routes : Leads(r, <<"login", "begin">>) <=> r = LoginBeginRoute
    BY RoutesOfTwo, RouteOperations
  <2>3. LoginBeginRoute \in Routes
    BY DEF Routes
  <2>. QED
    BY <1>5, <2>1, <2>2, <2>3, OneRoute, RouteOperations
<1>6. CASE op = "RegistrationBeginPost"
  <2>1. m.method = "POST" /\ m.path = <<"registration", "begin">>
    BY <1>6 DEF Send, sendRegistrationBeginPost
  <2>2. \A r \in Routes : Leads(r, <<"registration", "begin">>) <=> r = RegistrationBeginRoute
    BY RoutesOfTwo, RouteOperations
  <2>3. RegistrationBeginRoute \in Routes
    BY DEF Routes
  <2>. QED
    BY <1>6, <2>1, <2>2, <2>3, OneRoute, RouteOperations
<1>7. CASE op = "RegistrationCompletePost"
  <2>1. m.method = "POST" /\ m.path = <<"registration", "complete">>
    BY <1>7 DEF Send, sendRegistrationCompletePost
  <2>2. \A r \in Routes : Leads(r, <<"registration", "complete">>) <=> r = RegistrationCompleteRoute
    BY RoutesOfTwo, RouteOperations
  <2>3. RegistrationCompleteRoute \in Routes
    BY DEF Routes
  <2>. QED
    BY <1>7, <2>1, <2>2, <2>3, OneRoute, RouteOperations
<1>8. CASE op = "SessionsSessionIdDelete"
  <2>1. m.method = "DELETE" /\ m.path = <<"sessions", id>>
    BY <1>8 DEF Send, sendSessionsSessionIdDelete
  <2>2. \A r \in Routes : Leads(r, <<"sessions", id>>) <=> r = SessionRoute
    BY RoutesOfTwo, RouteOperations
  <2>3. SessionRoute \in Routes
    BY DEF Routes
  <2>. QED
    BY <1>8, <2>1, <2>2, <2>3, OneRoute, RouteOperations
<1>9. CASE op = "TokenRefreshPost"
  <2>1. m.method = "POST" /\ m.path = <<"token", "refresh">>
    BY <1>9 DEF Send, sendTokenRefreshPost
  <2>2. \A r \in Routes : Leads(r, <<"token", "refresh">>) <=> r = TokenRefreshRoute
    BY RoutesOfTwo, RouteOperations
  <2>3. TokenRefreshRoute \in Routes
    BY DEF Routes
  <2>. QED
    BY <1>9, <2>1, <2>2, <2>3, OneRoute, RouteOperations
<1>. QED
  BY <1>1, <1>2, <1>3, <1>4, <1>5, <1>6, <1>7, <1>8, <1>9
     DEF Operations, RolesFor

-----------------------------------------------------------------------------
(* What is called is what is served.                                       *)

(* A request is the one its call was written as.                           *)
Carried ==
    /\ call \in Calls \cup {NoCall}
    /\ call # NoCall => wire = Posted(call)
    /\ req = Seen(wire)

(* No step changes a call, nor what was written of it.                     *)
LEMMA ExchangeCarries == ExchangeSpec => []Carried
<1>1. ExchangeInit => Carried
  BY ExchangeAssumption DEF ExchangeInit, Carried
<1>2. ASSUME [Next]_vars PROVE req' = req
  BY <1>2 DEF Next, Step, Finished, vars, ExtractClientIP, ScanPart, ScanEnds, Resolved,
         TurnAway, HandleBearerAuth, DecodeInputs, Handle, Refuse, Pass, Act, RefuseWith,
         AuthVerifyGet, RevokeChainPost, InvitesPost, LoginBeginPost, LoginPost,
         RegistrationBeginPost, RegistrationCompletePost, SessionsSessionIdDelete,
         TokenRefreshPost
<1>3. ASSUME Carried, [ExchangeNext]_allVars PROVE Carried'
  <2>1. req' = req
    BY <1>2, <1>3, ExchangeServes
  <2>2. call' = call /\ wire' = wire
    BY <1>3 DEF ExchangeNext, ExchangeStep, Serve, WriteAnswer, ReadAnswer, Break, Over,
                allVars, exchange
  <2>. QED
    BY <1>3, <2>1, <2>2 DEF Carried
<1>. QED
  BY <1>1, <1>3, PTL DEF ExchangeSpec

(* The operations that read a body, and those that read an id.             *)
LEMMA InputsOf ==
    /\ WithBody = {"LoginPost", "RegistrationBeginPost", "RegistrationCompletePost",
                   "TokenRefreshPost"}
    /\ WithParams = {"RevokeChainPost", "SessionsSessionIdDelete"}
  BY DEF WithBody, WithParams, Operations, RolesFor, Checks, handleAuthVerifyGetRequest,
         handleInvitesPostRequest, handleSessionsSessionIdDeleteRequest,
         handleRevokeChainPostRequest, handleLoginBeginPostRequest,
         handleLoginPostRequest, handleRegistrationBeginPostRequest,
         handleRegistrationCompletePostRequest, handleTokenRefreshPostRequest

(* What the server makes of a call: its operation, its id and its value.   *)
LEMMA CallSeen ==
    ASSUME NEW c \in Calls
    PROVE  LET w == Posted(c)
           IN  /\ Seen(w).op = c.op
               /\ Seen(w).peer = c.peer
               /\ c.op = "RevokeChainPost" => w.path[3] = c.id
               /\ c.op = "SessionsSessionIdDelete" => w.path[2] = c.id
               /\ c.op \in WithBody => w.body = JSON(c.value)
<1>1. c.op \in Operations
  BY ExchangeAssumption
<1>. DEFINE m == Send(c.op, c.id, c.value)
            w == Posted(c)
<1>2. w.method = m.method /\ w.path = m.path /\ w.body = m.body /\ w.peer = c.peer
  BY DEF Posted
<1>3. Seen(w).op = c.op /\ Seen(w).peer = c.peer
  BY <1>1, <1>2, RouterFindsOperation DEF Seen
<1>4. c.op = "RevokeChainPost" => m.path = <<"admin", "users", c.id, "revoke-chain">>
  BY DEF Send, sendRevokeChainPost, Posting
<1>5. c.op = "SessionsSessionIdDelete" => m.path = <<"sessions", c.id>>
  BY DEF Send, sendSessionsSessionIdDelete, Posting
<1>6. c.op \in WithBody => m.body = JSON(c.value)
  <2>1. c.op = "LoginPost" => m.body = JSON(c.value)
    BY DEF Send, sendLoginPost, encodeLoginPostRequest, Posting
  <2>2. c.op = "RegistrationBeginPost" => m.body = JSON(c.value)
    BY DEF Send, sendRegistrationBeginPost, encodeRegistrationBeginPostRequest, Posting
  <2>3. c.op = "RegistrationCompletePost" => m.body = JSON(c.value)
    BY DEF Send, sendRegistrationCompletePost, encodeRegistrationCompletePostRequest,
           Posting
  <2>4. c.op = "TokenRefreshPost" => m.body = JSON(c.value)
    BY DEF Send, sendTokenRefreshPost, encodeTokenRefreshPostRequest, Posting
  <2>. QED
    BY <2>1, <2>2, <2>3, <2>4, InputsOf
<1>. QED
  BY <1>2, <1>3, <1>4, <1>5, <1>6

(* What is acted on is what was called, of every call and every value: no  *)
(* field is lost between the two ends (encodeFields, decodeFields, the     *)
(* router and the client's paths).                                         *)
THEOREM ExchangeArrives == ExchangeSpec => []CallArrives
<1>1. ASSUME Carried PROVE CallArrives
  <2>. SUFFICES ASSUME Called PROVE CallArrives
    BY DEF CallArrives
  <2>1. call \in Calls /\ wire = Posted(call) /\ req = Seen(wire)
    BY <1>1 DEF Carried, Called
  <2>2. req.op = call.op
    BY <2>1, CallSeen
  <2>3. req.op \in WithParams => IdIn(wire.path) = call.id
    BY <2>1, <2>2, CallSeen, InputsOf DEF IdIn
  <2>4. ASSUME req.op \in WithBody
        PROVE  /\ Decode(wire.body.objects) = call.value.objects
               /\ wire.body.enums = call.value.enums
    <3>1. wire.body = JSON(call.value)
      BY <2>1, <2>2, <2>4, CallSeen
    <3>2. WellFormed(call.value.objects)
      BY <2>1, ExchangeAssumption
    <3>. QED
      BY <3>1, <3>2, RoundTrip DEF JSON
  <2>. QED
    BY <2>2, <2>3, <2>4 DEF CallArrives
<1>. QED
  BY <1>1, ExchangeCarries, PTL

(* A value that is within the limit and valid is read, whatever optional   *)
(* fields it has.                                                          *)
LEMMA CallReads ==
    ASSUME NEW c \in Calls, c.op \in WithBody
    PROVE  /\ Seen(Posted(c)).input = "oversize" => c.value.big
           /\ Seen(Posted(c)).input = "bad" =>
                 c.op = "RegistrationCompletePost" /\ ~ValidKeys(c.value)
<1>. DEFINE w == Posted(c)
            body == JSON(c.value)
            kind == Given[c.op]
<1>1. Seen(w).op = c.op /\ w.body = body
  BY CallSeen
<1>2. kind \in DOMAIN c.value.objects /\ WellFormed(c.value.objects)
      /\ c.value.big \in BOOLEAN
  BY ExchangeAssumption
<1>3. /\ body.media = "json" /\ body.parses /\ body.enums = c.value.enums
      /\ body.objects = Encode(c.value.objects)
      /\ body.length = IF c.value.big THEN "over" ELSE "fits"
  BY DEF JSON
<1>4. Complete(body.objects) /\ DOMAIN body.objects = DOMAIN c.value.objects
  BY <1>2, <1>3, RoundTrip DEF Encode
<1>5. Seen(w).input = DecodeRequest(kind, body)
  <2>1. Seen(w).input = DecodeInput(ServeHTTP(w.method, w.path), w.path, w.body)
        /\ Seen(w).op = ServeHTTP(w.method, w.path)
    BY DEF Seen
  <2>2. Seen(w).input = DecodeInput(c.op, w.path, body)
    BY <1>1, <2>1
  <2>. QED
    BY <2>2, InputsOf DEF DecodeInput, Given, decodeLoginPostRequest,
       decodeRegistrationBeginPostRequest, decodeRegistrationCompletePostRequest,
       decodeTokenRefreshPostRequest
<1>6. ValidKeys(body) <=> ValidKeys(c.value)
  BY <1>3, <1>4 DEF ValidKeys
<1>7. ~Readable(kind, body) => c.op = "RegistrationCompletePost" /\ ~ValidKeys(c.value)
  <2>1. ~Readable(kind, body) => ~Validate(kind, body)
    BY <1>2, <1>3, <1>4 DEF Readable
  <2>2. kind \in {"LoginPostReq", "RegistrationBeginPostReq", "TokenRefreshPostReq"} =>
            Validate(kind, body)
    BY DEF Validate
  <2>3. kind = "RegistrationCompletePostReq" => (Validate(kind, body) <=> ValidKeys(body))
    BY DEF Validate
  <2>4. \/ kind \in {"LoginPostReq", "RegistrationBeginPostReq", "TokenRefreshPostReq"}
        \/ kind = "RegistrationCompletePostReq" /\ c.op = "RegistrationCompletePost"
    BY InputsOf DEF Given
  <2>. QED
    BY <1>6, <2>1, <2>2, <2>3, <2>4
<1>. QED
  BY <1>2, <1>3, <1>5, <1>7 DEF DecodeRequest

(* A call is refused for what its caller did, and not for how the client   *)
(* has written it (oas_request_encoders_gen.go, oas_json_gen.go).          *)
THEOREM ExchangeRefuses == ExchangeSpec => []CallRefusedWithCause
<1>1. ASSUME Carried, Core PROVE CallRefusedWithCause
  <2>. SUFFICES ASSUME pc = "done", ~acted, Called PROVE CallRefusedWithCause
    BY DEF CallRefusedWithCause
  <2>1. call \in Calls /\ wire = Posted(call) /\ req = Seen(wire)
    BY <1>1 DEF Carried, Called
  <2>2. req.op = call.op /\ req.peer = call.peer /\ call.op \in Operations
    BY <2>1, CallSeen, ExchangeAssumption
  <2>3. req.op \notin Unrouted
    BY <2>2 DEF Operations, RolesFor, Unrouted
  <2>4. \/ RolesFor[req.op] # {} /\ ~Authorized
        \/ Oversize \/ BadInput
        \/ req.op \in NeedsAddress /\ req.peer \notin Addrs
    BY <1>1, <2>2, <2>3 DEF Core, IInv, RefusedWithCause
  <2>5. Oversize => call.op \in WithBody /\ call.value.big
    BY <2>1, <2>2, CallReads DEF Oversize
  <2>6. BadInput /\ call.op \in WithBody =>
            call.op = "RegistrationCompletePost" /\ ~ValidKeys(call.value)
    BY <2>1, <2>2, CallReads DEF BadInput
  <2>7. BadInput /\ call.op \notin WithBody =>
            call.op \in WithParams /\ call.id \notin UUIDs
    <3>. SUFFICES ASSUME BadInput, call.op \notin WithBody
                  PROVE  call.op \in WithParams /\ call.id \notin UUIDs
      OBVIOUS
    <3>1. call.op \in WithParams /\ req.input = "bad"
      BY <2>2 DEF BadInput
    <3>2. req.input = DecodeInput(call.op, wire.path, wire.body)
      BY <2>1, <2>2 DEF Seen
    <3>3. CASE call.op = "RevokeChainPost"
      BY <2>1, <3>1, <3>2, <3>3, CallSeen DEF DecodeInput, decodeRevokeChainPostParams
    <3>4. CASE call.op = "SessionsSessionIdDelete"
      BY <2>1, <3>1, <3>2, <3>4, CallSeen
         DEF DecodeInput, decodeSessionsSessionIdDeleteParams
    <3>. QED
      BY <3>1, <3>3, <3>4, InputsOf
  <2>. QED
    BY <2>2, <2>4, <2>5, <2>6, <2>7 DEF CallRefusedWithCause
<1>. QED
  BY <1>1, ExchangeCarries, ExchangeCore, PTL

-----------------------------------------------------------------------------
(* What is recorded is what was told.                                      *)

(* A request that has its answer keeps it.                                 *)
LEMMA AnswerStays ==
    ASSUME pc = "done", [Next]_vars
    PROVE  UNCHANGED vars
  BY DEF Next, Step, Finished, vars, history, ExtractClientIP, ScanPart, ScanEnds,
         TurnAway, HandleBearerAuth, DecodeInputs, Handle, At, AuthVerifyGet,
         RevokeChainPost, InvitesPost, LoginBeginPost, LoginPost, RegistrationBeginPost,
         RegistrationCompletePost, SessionsSessionIdDelete, TokenRefreshPost

(* A use case that panics leaves the answer of the Recoverer, which has no *)
(* body.                                                                   *)
PanicAnswered ==
    outcome.kind = "panic" => pc = "done" /\ answer = Reply(500, "none", "none")

(* It does so in every exchange.                                           *)
LEMMA PanicIsAnswered == ExchangeSpec => []PanicAnswered
<1>1. Init => PanicAnswered
  BY DEF Init, PanicAnswered, Unknown
<1>2. ASSUME PanicAnswered, [Next]_vars PROVE PanicAnswered'
  <2>1. CASE UNCHANGED outcome /\ (pc = "done" => UNCHANGED vars)
    BY <1>2, <2>1 DEF PanicAnswered, vars
  <2>2. ASSUME NEW u, NEW a, NEW type, NEW outcomes, Act(u, a, type, outcomes)
        PROVE  PanicAnswered'
    BY <2>2 DEF Act, PanicAnswered
  <2>3. CASE Handle
    BY <1>2, <2>1, <2>2, <2>3, AnswerStays
       DEF Handle, RefuseWith, Refuse, history, AuthVerifyGet, RevokeChainPost,
           InvitesPost, LoginBeginPost, LoginPost, RegistrationBeginPost,
           RegistrationCompletePost, SessionsSessionIdDelete, TokenRefreshPost
  <2>4. CASE ~Handle
    <3>1. UNCHANGED outcome
      BY <1>2, <2>4 DEF Next, Step, Finished, vars, history, ExtractClientIP, ScanPart,
             ScanEnds, Resolved, TurnAway, HandleBearerAuth, DecodeInputs, Refuse, Pass
    <3>. QED
      BY <1>2, <2>1, <3>1, AnswerStays
  <2>. QED
    BY <2>3, <2>4
<1>. QED
  BY <1>1, <1>2, ExchangeImplementsFront, PTL

(* No status of a failure is taken for a success without a body.           *)
LEMMA NoContentIsSuccess ==
    ASSUME NEW op \in Operations
    PROVE  <<500, "NoContent">> \notin decodeResponse[op]
<1>1. op \in {"AuthVerifyGet", "InvitesPost", "SessionsSessionIdDelete",
              "RevokeChainPost", "LoginBeginPost", "LoginPost",
              "RegistrationBeginPost", "RegistrationCompletePost", "TokenRefreshPost"}
  BY DEF Operations, RolesFor
<1>2. \A s, t, type : <<s, t>> = <<500, type>> <=> s = 500 /\ t = type
  OBVIOUS
<1>. QED
  BY <1>1, <1>2
     DEF decodeResponse, decodeAuthVerifyGetResponse, decodeInvitesPostResponse,
         decodeSessionsSessionIdDeleteResponse, decodeRevokeChainPostResponse,
         decodeLoginBeginPostResponse, decodeLoginPostResponse,
         decodeRegistrationBeginPostResponse, decodeRegistrationCompletePostResponse,
         decodeTokenRefreshPostResponse

(* The client makes nothing of the answer of the Recoverer.                *)
LEMMA PanicNotTaken ==
    ASSUME NEW op \in Operations
    PROVE  TakenFor(op, 500, NoBody) = {}
<1>1. \A kind : ~Readable(kind, NoBody)
  BY DEF Readable, NoBody
<1>. QED
  BY <1>1, NoContentIsSuccess DEF TakenFor

(* The invariant: what has been sent is the answer, which is recorded as   *)
(* it is while the connection stands; what was read was sent.              *)
Told ==
    /\ link = "down" => result.kind = "error"
    /\ call = NoCall => result.kind = "none"
    /\ sent # Nothing =>
          /\ pc = "done"
          /\ sent = [status |-> answer.status,
                     body |-> AnswerBody(req.op, answer.type, answer.code)]
          /\ link = "up" => recorded = Recorded
    /\ result.kind = "answer" =>
          /\ sent # Nothing /\ link = "up"
          /\ result.status = sent.status /\ outcome.kind # "panic"

(* It holds of every exchange.                                             *)
LEMMA ToldHolds == ExchangeSpec => []Told
<1>0. /\ \A kind, status, type, code : /\ Result(kind, status, type, code).kind = kind
                                       /\ Result(kind, status, type, code).status = status
      /\ Waiting.kind = "waiting" /\ Erred.kind = "error"
  BY DEF Result, Waiting, Erred
<1>1. ExchangeInit => Told
  BY <1>0, ExchangeAssumption DEF ExchangeInit, Told
<1>2. ASSUME Told, Carried, PanicAnswered, [ExchangeNext]_allVars PROVE Told'
  <2>1. CASE Serve
    <3>1. [Next]_vars
      BY <2>1 DEF Serve, Next
    <3>2. UNCHANGED exchange /\ (sent # Nothing => UNCHANGED vars)
      BY <1>2, <2>1, <3>1, AnswerStays DEF Serve, Told
    <3>3. CASE sent # Nothing
      BY <1>2, <3>2, <3>3 DEF Told, exchange, vars, history, Recorded, Routed
    <3>4. CASE sent = Nothing
      BY <1>2, <3>2, <3>4 DEF Told, exchange
    <3>. QED
      BY <3>3, <3>4
  <2>2. CASE WriteAnswer
    <3>1. UNCHANGED <<vars, call, wire, link, result>> /\ pc = "done" /\ sent = Nothing
      BY <2>2 DEF WriteAnswer
    <3>2. link = "up" => recorded' = Recorded'
      BY <2>2, <3>1 DEF WriteAnswer, Recorded, Routed, vars, history
    <3>3. sent' = [status |-> answer.status,
                   body |-> AnswerBody(req.op, answer.type, answer.code)]'
      BY <2>2, <3>1 DEF WriteAnswer, vars
    <3>. QED
      BY <1>2, <3>1, <3>2, <3>3 DEF Told, vars
  <2>3. CASE ReadAnswer
    <3>1. /\ UNCHANGED <<vars, call, wire, link, recorded, sent>>
          /\ result = Waiting /\ link = "up" /\ sent # Nothing
      BY <2>3 DEF ReadAnswer
    <3>2. call # NoCall
      BY <1>0, <1>2, <3>1 DEF Told
    <3>3. req.op = call.op /\ call.op \in Operations
      BY <1>2, <3>2, CallSeen, ExchangeAssumption DEF Carried
    <3>4. CASE result' = Erred
      BY <1>0, <1>2, <3>1, <3>2, <3>4 DEF Told, vars, history, Recorded, Routed
    <3>5. CASE \E type \in TakenFor(call.op, sent.status, sent.body) :
                 \E code : result' = Result("answer", sent.status, type, code)
      <4>1. outcome.kind # "panic"
        <5>. SUFFICES ASSUME outcome.kind = "panic" PROVE FALSE
          OBVIOUS
        <5>1. answer.status = 500 /\ answer.type = "none"
          BY <1>2 DEF PanicAnswered, Reply
        <5>2. sent.status = 500 /\ sent.body = NoBody
          BY <1>2, <3>1, <5>1 DEF Told, AnswerBody
        <5>. QED
          BY <3>3, <3>5, <5>2, PanicNotTaken
      <4>. QED
        BY <1>0, <1>2, <3>1, <3>2, <3>5, <4>1 DEF Told, vars, history, Recorded, Routed
    <3>. QED
      BY <2>3, <3>4, <3>5 DEF ReadAnswer
  <2>4. CASE Break
    BY <1>0, <1>2, <2>4 DEF Break, Told, vars, history
  <2>5. CASE UNCHANGED allVars
    BY <1>2, <2>5 DEF allVars, exchange, vars, history, Told, Recorded, Routed
  <2>. QED
    BY <1>2, <2>1, <2>2, <2>3, <2>4, <2>5 DEF ExchangeNext, ExchangeStep, Over
<1>. QED
  BY <1>1, <1>2, ExchangeCarries, PanicIsAnswered, PTL DEF ExchangeSpec

(* The status the server has recorded of a call is the one its caller was  *)
(* told (codeRecorder, newErrorHandler).                                   *)
THEOREM ExchangeRecordsTruly == ExchangeSpec => []RecordedTruly
<1>1. ASSUME Told, Carried PROVE RecordedTruly
  <2>. SUFFICES ASSUME result.kind = "answer" PROVE recorded = result.status
    BY DEF RecordedTruly
  <2>1. call # NoCall
    BY <1>1 DEF Told
  <2>2. Routed
    BY <1>1, <2>1, CallSeen, ExchangeAssumption DEF Carried, Routed
  <2>. QED
    BY <1>1, <2>2 DEF Told, Recorded
<1>. QED
  BY <1>1, ToldHolds, ExchangeCarries, PTL

-----------------------------------------------------------------------------
(* What is told is understood.                                             *)

(* The operations there are, one by one.                                   *)
LEMMA EachOperation ==
    Operations = {"AuthVerifyGet", "InvitesPost", "SessionsSessionIdDelete",
                  "RevokeChainPost", "LoginBeginPost", "LoginPost",
                  "RegistrationBeginPost", "RegistrationCompletePost",
                  "TokenRefreshPost"}
  BY DEF Operations, RolesFor

(* The client takes just the statuses from 400 on for an error.            *)
LEMMA StatusTellsKind ==
    ASSUME NEW op \in Operations, NEW s, NEW t, <<s, t>> \in decodeResponse[op]
    PROVE  /\ s \in {200, 201, 204, 400, 401, 403, 404, 409, 500}
           /\ KindOf(op, t) = "ErrorResponse" <=> s >= 400
<1>. USE DEF KindOf, Aliases, decodeResponse
<1>1. CASE op \in {"AuthVerifyGet", "InvitesPost", "TokenRefreshPost"}
  BY <1>1 DEF decodeAuthVerifyGetResponse, decodeInvitesPostResponse,
              decodeTokenRefreshPostResponse, AuthVerifyGetAliases, InvitesPostAliases,
              TokenRefreshPostAliases
<1>2. CASE op \in {"SessionsSessionIdDelete", "RevokeChainPost"}
  BY <1>2 DEF decodeSessionsSessionIdDeleteResponse, decodeRevokeChainPostResponse,
              SessionsSessionIdDeleteAliases, RevokeChainPostAliases
<1>3. CASE op \in {"LoginBeginPost", "LoginPost"}
  BY <1>3 DEF decodeLoginBeginPostResponse, decodeLoginPostResponse, LoginPostAliases
<1>4. CASE op \in {"RegistrationBeginPost", "RegistrationCompletePost"}
  BY <1>4 DEF decodeRegistrationBeginPostResponse, decodeRegistrationCompletePostResponse,
              RegistrationBeginPostAliases, RegistrationCompletePostAliases
<1>. QED
  BY <1>1, <1>2, <1>3, <1>4, EachOperation

(* Each answer that the server has a type for is one the client expects.   *)
LEMMA AnswersListed ==
    ASSUME NEW op \in Operations, NEW type \in DOMAIN encodeResponse[op]
    PROVE  /\ <<encodeResponse[op][type], type>> \in decodeResponse[op]
           /\ type \in {"NoContent"} \cup Aliases[op] \cup Kinds
           /\ type \notin {"none", "RegistrationCompletePostReq"}
<1>. USE DEF Aliases, decodeResponse, encodeResponse, Kinds, Structs
<1>1. CASE op \in {"AuthVerifyGet", "InvitesPost", "TokenRefreshPost"}
  BY <1>1 DEF decodeAuthVerifyGetResponse, decodeInvitesPostResponse,
              decodeTokenRefreshPostResponse, AuthVerifyGetAliases, InvitesPostAliases,
              TokenRefreshPostAliases, encodeAuthVerifyGetResponse,
              encodeInvitesPostResponse, encodeTokenRefreshPostResponse
<1>2. CASE op \in {"SessionsSessionIdDelete", "RevokeChainPost"}
  BY <1>2 DEF decodeSessionsSessionIdDeleteResponse, decodeRevokeChainPostResponse,
              SessionsSessionIdDeleteAliases, RevokeChainPostAliases,
              encodeSessionsSessionIdDeleteResponse, encodeRevokeChainPostResponse
<1>3. CASE op \in {"LoginBeginPost", "LoginPost"}
  BY <1>3 DEF decodeLoginBeginPostResponse, decodeLoginPostResponse, LoginPostAliases,
              encodeLoginBeginPostResponse, encodeLoginPostResponse
<1>4. CASE op \in {"RegistrationBeginPost", "RegistrationCompletePost"}
  BY <1>4 DEF decodeRegistrationBeginPostResponse, decodeRegistrationCompletePostResponse,
              RegistrationBeginPostAliases, RegistrationCompletePostAliases,
              encodeRegistrationBeginPostResponse, encodeRegistrationCompletePostResponse
<1>. QED
  BY <1>1, <1>2, <1>3, <1>4, EachOperation

(* What the error handler may tell of an operation, the client expects of  *)
(* it too: 401 where there is a token, 403 where a role may be missing,    *)
(* 400 where there is something to decode.                                 *)
Expected(op, status) ==
    \E t \in Aliases[op] \cup {"ErrorResponse"} : <<status, t>> \in decodeResponse[op]

(* The statuses the error handler uses are in the tables of the client     *)
(* (decodeResponse), for each operation that can meet the refusal.         *)
LEMMA RefusalsExpected ==
    ASSUME NEW op \in Operations
    PROVE  /\ "security" \in Checks[op] => Expected(op, 401)
           /\ op = "RevokeChainPost" => Expected(op, 403)
           /\ op \in WithBody \cup WithParams => Expected(op, 400)
<1>1. "security" \in Checks[op] =>
          op \in {"AuthVerifyGet", "InvitesPost", "SessionsSessionIdDelete",
                  "RevokeChainPost"}
  BY EachOperation
     DEF Checks, handleAuthVerifyGetRequest,
         handleInvitesPostRequest, handleSessionsSessionIdDeleteRequest,
         handleRevokeChainPostRequest, handleLoginBeginPostRequest,
         handleLoginPostRequest, handleRegistrationBeginPostRequest,
         handleRegistrationCompletePostRequest, handleTokenRefreshPostRequest
<1>2. op \in {"AuthVerifyGet", "InvitesPost", "SessionsSessionIdDelete",
              "RevokeChainPost"} => Expected(op, 401)
  BY DEF Expected, Aliases, decodeResponse, decodeAuthVerifyGetResponse,
         decodeInvitesPostResponse, decodeSessionsSessionIdDeleteResponse,
         decodeRevokeChainPostResponse, AuthVerifyGetAliases, InvitesPostAliases,
         SessionsSessionIdDeleteAliases, RevokeChainPostAliases
<1>3. Expected("RevokeChainPost", 403)
  BY DEF Expected, Aliases, decodeResponse, decodeRevokeChainPostResponse,
         RevokeChainPostAliases
<1>4. op \in {"SessionsSessionIdDelete", "RevokeChainPost", "LoginPost",
              "TokenRefreshPost"} => Expected(op, 400)
  BY DEF Expected, Aliases, decodeResponse, decodeSessionsSessionIdDeleteResponse,
         decodeRevokeChainPostResponse, decodeLoginPostResponse,
         decodeTokenRefreshPostResponse, SessionsSessionIdDeleteAliases,
         RevokeChainPostAliases, LoginPostAliases, TokenRefreshPostAliases
<1>5. op \in {"RegistrationBeginPost", "RegistrationCompletePost"} => Expected(op, 400)
  BY DEF Expected, Aliases, decodeResponse, decodeRegistrationBeginPostResponse,
         decodeRegistrationCompletePostResponse, RegistrationBeginPostAliases,
         RegistrationCompletePostAliases
<1>. QED
  BY <1>1, <1>2, <1>3, <1>4, <1>5, InputsOf

(* The body of an answer reads as what it is the body of.                  *)
LEMMA AnswerReads ==
    ASSUME NEW op, NEW type, NEW code, type # "none",
           KindOf(op, type) \in Kinds \ {"RegistrationCompletePostReq"},
           KindOf(op, type) = "ErrorResponse" => code \in ErrorResponseErrorCode
    PROVE  /\ Readable(KindOf(op, type), AnswerBody(op, type, code))
           /\ KindOf(op, type) = "ErrorResponse" => AnswerBody(op, type, code).enums = {code}
<1>. DEFINE kind    == KindOf(op, type)
            objects == [t \in Parts(kind) |-> Structs[t].fields]
            body    == AnswerBody(op, type, code)
<1>1. kind \in Parts(kind) /\ Parts(kind) \subseteq Kinds
  BY DEF Parts, Kinds, Structs
<1>2. WellFormed(objects)
  BY <1>1 DEF WellFormed
<1>3. Complete(Encode(objects)) /\ DOMAIN Encode(objects) = Parts(kind)
  BY <1>2, RoundTrip DEF Encode
<1>4. /\ body.media = "json" /\ body.parses /\ body.objects = Encode(objects)
      /\ kind = "ErrorResponse" => body.enums = {code}
      /\ kind = "LoginPostOK" => body.enums = WrappedKeyScope
  BY DEF AnswerBody
<1>5. Validate(kind, body)
  BY <1>4 DEF Validate, ValidLogin, ValidError
<1>. QED
  BY <1>1, <1>3, <1>4, <1>5 DEF Readable

(* The answer of a use case that succeeded is taken for one.               *)
LEMMA SuccessTaken ==
    ASSUME NEW op \in Operations, NEW type \in DOMAIN encodeResponse[op],
           encodeResponse[op][type] \in 200..204
    PROVE  LET types == TakenFor(op, encodeResponse[op][type], AnswerBody(op, type, "none"))
           IN  /\ types # {}
               /\ \A t \in types : KindOf(op, t) # "ErrorResponse"
<1>. DEFINE status == encodeResponse[op][type]
            body   == AnswerBody(op, type, "none")
<1>1. /\ <<status, type>> \in decodeResponse[op]
      /\ type \in {"NoContent"} \cup Aliases[op] \cup Kinds
      /\ type \notin {"none", "RegistrationCompletePostReq"}
  BY AnswersListed
<1>2. KindOf(op, type) # "ErrorResponse"
  BY <1>1, StatusTellsKind
<1>3. KindOf(op, type) = type
  BY <1>2 DEF KindOf
<1>4. type # "NoContent" => Readable(KindOf(op, type), body)
  <2>1. type \notin Aliases[op]
    BY <1>2 DEF KindOf
  <2>. QED
    BY <1>1, <1>2, <1>3, <2>1, AnswerReads
<1>5. type \in TakenFor(op, status, body)
  BY <1>1, <1>4 DEF TakenFor
<1>6. \A t \in TakenFor(op, status, body) : KindOf(op, t) # "ErrorResponse"
  BY StatusTellsKind DEF TakenFor
<1>. QED
  BY <1>5, <1>6

(* Nothing but an error is made of the answer to an error, of any status,  *)
(* and one is made of each status that is expected.                        *)
LEMMA ErrorTaken ==
    ASSUME NEW op \in Operations, NEW type, type # "none",
           KindOf(op, type) = "ErrorResponse", NEW code \in ErrorResponseErrorCode,
           NEW status \in Int, status >= 400
    PROVE  LET body  == AnswerBody(op, type, code)
               types == TakenFor(op, status, body)
           IN  /\ body.enums = {code}
               /\ \A t \in types : KindOf(op, t) = "ErrorResponse"
               /\ Expected(op, status) => types # {}
<1>. DEFINE body  == AnswerBody(op, type, code)
            types == TakenFor(op, status, body)
<1>1. "ErrorResponse" \in Kinds /\ "ErrorResponse" # "RegistrationCompletePostReq"
  BY DEF Kinds, Structs
<1>2. Readable("ErrorResponse", body) /\ body.enums = {code}
  BY <1>1, AnswerReads
<1>3. \A t \in types : KindOf(op, t) = "ErrorResponse"
  BY StatusTellsKind DEF TakenFor
<1>4. ASSUME Expected(op, status) PROVE types # {}
  <2>1. PICK t \in Aliases[op] \cup {"ErrorResponse"} : <<status, t>> \in decodeResponse[op]
    BY <1>4 DEF Expected
  <2>2. KindOf(op, t) = "ErrorResponse"
    BY <2>1, StatusTellsKind
  <2>3. t \in types
    BY <1>1, <1>2, <2>1, <2>2 DEF TakenFor
  <2>. QED
    BY <2>3
<1>. QED
  BY <1>2, <1>3, <1>4

(* Each error of a registry is expected.                                   *)
LEMMA ExplainedExpected ==
    ASSUME NEW op \in Operations, NEW type \in ErrorTypes(op)
    PROVE  /\ KindOf(op, type) = "ErrorResponse" /\ type # "none"
           /\ encodeResponse[op][type] \in 400..500
           /\ Expected(op, encodeResponse[op][type])
<1>1. /\ type \in DOMAIN encodeResponse[op] /\ type # "none"
      /\ encodeResponse[op][type] \in 400..500
      /\ <<encodeResponse[op][type], type>> \in decodeResponse[op]
  BY AnswersListed DEF ErrorTypes
<1>2. KindOf(op, type) = "ErrorResponse"
  BY <1>1, StatusTellsKind
<1>3. type \in Aliases[op] \cup {"ErrorResponse"}
  BY <1>2 DEF KindOf
<1>. QED
  BY <1>1, <1>2, <1>3 DEF Expected

(* Of an operation, the answer is that of a panic, of a success, of an     *)
(* error that a registry explains, or of one that the error handler        *)
(* explains to a client that expects it, 413 alone excepted.               *)
FromHandler(a) ==
    \E status \in 400..500, code \in ErrorResponseErrorCode :
        /\ a = writeError(status, code)
        /\ Expected(req.op, status) \/ (Oversize /\ status = 413)

AnswerFits ==
    pc = "done" /\ Routed =>
        \/ outcome.kind = "panic"
        \/ outcome.kind = "ok" /\ \E type \in Successes : answer = Encoded(req.op, type, "none")
        \/ outcome.kind # "ok" /\ (Explained(req.op, answer) \/ FromHandler(answer))

(* Who is turned away by the generated server is given one of those.       *)
LEMMA RefusalFits ==
    ASSUME NotYet, NEW a, Refuse(a), Explained(req.op, a) \/ FromHandler(a)
    PROVE  AnswerFits'
<1>1. /\ answer' = a /\ req' = req /\ outcome' = Unknown
      /\ FromHandler(a) => FromHandler(a)'
  BY DEF Refuse, NotYet, history, FromHandler, Oversize
<1>2. outcome'.kind # "ok"
  BY <1>1 DEF Unknown
<1>3. FromHandler(a) => FromHandler(answer)'
  BY <1>1 DEF FromHandler
<1>. QED
  BY <1>1, <1>2, <1>3 DEF AnswerFits

(* The answers of the error handler are expected where they are given.     *)
LEMMA SecurityFits ==
    ASSUME Core, HandleBearerAuth
    PROVE  AnswerFits'
<1>1. /\ req.op \in Operations /\ pc = "security" /\ NotYet
      /\ req.token.role \in Roles
  BY RequestType DEF HandleBearerAuth, Core, IInv, Request, Token
<1>2. ErrorAnswer.security = writeError(401, "UNAUTHORIZED")
      /\ ErrorAnswer.forbidden = writeError(403, "FORBIDDEN")
      /\ {"UNAUTHORIZED", "FORBIDDEN"} \subseteq ErrorResponseErrorCode
  BY DEF ErrorAnswer, ErrorResponseErrorCode
<1>3. CASE Pass
  BY <1>1, <1>3 DEF Pass, Following, AnswerFits
<1>4. CASE "security" \in Checks[req.op] /\ Refuse(ErrorAnswer.security)
  <2>1. FromHandler(ErrorAnswer.security)
    BY <1>1, <1>2, <1>4, RefusalsExpected DEF FromHandler
  <2>. QED
    BY <1>1, <1>4, <2>1, RefusalFits
<1>5. CASE /\ "security" \in Checks[req.op] /\ Refuse(ErrorAnswer.forbidden)
           /\ ~RoleAllowed(req.token.role, RolesFor[req.op])
  <2>1. req.op = "RevokeChainPost"
    BY <1>1, <1>5, SecuredAsksRoles DEF RoleAllowed, Roles, RolesFor, Operations
  <2>2. FromHandler(ErrorAnswer.forbidden)
    BY <1>1, <1>2, <2>1, RefusalsExpected DEF FromHandler
  <2>. QED
    BY <1>1, <1>5, <2>2, RefusalFits
<1>. QED
  BY <1>3, <1>4, <1>5 DEF HandleBearerAuth

(* Decode refuses a body that is too long with 413 and any other it cannot *)
(* read with 400; what the client makes of either fits the error.          *)
LEMMA DecodeFits ==
    ASSUME Core, DecodeInputs
    PROVE  AnswerFits'
<1>1. req.op \in Operations /\ pc = "decode" /\ NotYet
  BY DEF DecodeInputs, Core, IInv
<1>2. ErrorAnswer.oversize = writeError(413, "VALIDATION_ERROR")
      /\ ErrorAnswer.bad = writeError(400, "VALIDATION_ERROR")
      /\ "VALIDATION_ERROR" \in ErrorResponseErrorCode
  BY DEF ErrorAnswer, ErrorResponseErrorCode
<1>3. CASE Pass
  BY <1>1, <1>3 DEF Pass, Following, AnswerFits
<1>4. CASE Oversize /\ Refuse(ErrorAnswer.oversize)
  <2>1. FromHandler(ErrorAnswer.oversize)
    BY <1>2, <1>4 DEF FromHandler
  <2>. QED
    BY <1>1, <1>4, <2>1, RefusalFits
<1>5. CASE BadInput /\ Refuse(ErrorAnswer.bad)
  <2>1. FromHandler(ErrorAnswer.bad)
    BY <1>1, <1>2, <1>5, RefusalsExpected DEF FromHandler, BadInput
  <2>. QED
    BY <1>1, <1>5, <2>1, RefusalFits
<1>. QED
  BY <1>3, <1>4, <1>5 DEF DecodeInputs

(* A handler that acts answers with the success of its operation, with     *)
(* what its registry has for the error, or with nothing of a panic.        *)
LEMMA HandleFits ==
    ASSUME Core, TypeOK, Handle
    PROVE  AnswerFits'
<1>1. req.op \in Operations /\ NotYet
  BY DEF Core, IInv, Handle, At, AuthVerifyGet, RevokeChainPost, InvitesPost,
         LoginBeginPost, LoginPost, RegistrationBeginPost,
         RegistrationCompletePost, SessionsSessionIdDelete, TokenRefreshPost
<1>2. ASSUME NEW u, NEW a, NEW type \in Successes, NEW outcomes \in SUBSET Outcome,
             Act(u, a, type, outcomes)
      PROVE  AnswerFits'
  <2>1. PICK o \in outcomes :
          /\ outcome' = o /\ req' = req
          /\ answer' = CASE o.kind = "ok"    -> Encoded(req.op, type, "none")
                         [] o.kind = "error" -> Answered(req.op, Resolve(req.op, o.err))
                         [] o.kind = "panic" -> Reply(500, "none", "none")
    BY <1>2 DEF Act
  <2>2. o.kind \in {"ok", "error", "panic"}
    BY DEF Outcome
  <2>3. CASE o.kind = "ok"
    <3>1. answer' = Encoded(req.op, type, "none")
      BY <2>1, <2>3
    <3>2. type \in Successes'
      BY <2>1 DEF Successes
    <3>. QED
      BY <2>1, <2>3, <3>1, <3>2 DEF AnswerFits
  <2>4. CASE o.kind = "error"
    <3>1. answer' = Answered(req.op, Resolve(req.op, o.err))
      BY <2>1, <2>4
    <3>2. Explained(req.op, answer')
      BY <1>1, <3>1, ResolveAnswers
    <3>3. Explained(req.op, answer)'
      BY <2>1, <3>2
    <3>. QED
      BY <2>1, <2>4, <3>3 DEF AnswerFits
  <2>5. CASE o.kind = "panic"
    BY <2>1, <2>5 DEF AnswerFits
  <2>. QED
    BY <2>2, <2>3, <2>4, <2>5
<1>. QED
  BY <1>1, <1>2, HandleActs, RefusalFits

(* Every request of an operation is answered so.                           *)
LEMMA AnswersFit == ExchangeSpec => []AnswerFits
<1>1. Init => AnswerFits
  BY DEF Init, Following, AnswerFits
<1>2. ASSUME Core, TypeOK, AnswerFits, [Next]_vars PROVE AnswerFits'
  <2>1. CASE ExtractClientIP \/ ScanPart \/ ScanEnds
    <3>1. pc' # "done"
      BY <2>1 DEF ExtractClientIP, ScanPart, ScanEnds, Resolved, Following
    <3>. QED
      BY <3>1 DEF AnswerFits
  <2>2. CASE TurnAway
    <3>1. req' = req /\ req.op \notin Operations
      BY <2>2 DEF TurnAway, Refuse, Operations, RolesFor, Unrouted
    <3>. QED
      BY <3>1 DEF AnswerFits, Routed
  <2>3. CASE UNCHANGED vars
    BY <1>2, <2>3 DEF vars, history, AnswerFits, Routed, Successes, FromHandler, Oversize
  <2>. QED
    BY <1>2, <2>1, <2>2, <2>3, SecurityFits, DecodeFits, HandleFits DEF Next, Step, Finished
<1>. QED
  BY <1>1, <1>2, ExchangeImplementsFront, ExchangeCore, ExchangeAnswers, PTL

(* What the client makes of such an answer.                                *)
LEMMA AnswerTaken ==
    ASSUME pc = "done", Routed, AnswerFits, PanicAnswered
    PROVE  LET body  == AnswerBody(req.op, answer.type, answer.code)
               types == TakenFor(req.op, answer.status, body)
           IN  /\ types = {} => outcome.kind = "panic" \/ (Oversize /\ answer.status = 413)
               /\ \A t \in types :
                     IF KindOf(req.op, t) = "ErrorResponse"
                     THEN body.enums = {answer.code} /\ answer.status \in 400..500
                          /\ outcome.kind # "ok"
                     ELSE answer.code = "none" /\ answer.status < 400
                          /\ outcome.kind = "ok"
<1>. DEFINE body  == AnswerBody(req.op, answer.type, answer.code)
            types == TakenFor(req.op, answer.status, body)
<1>. SUFFICES /\ types = {} => outcome.kind = "panic" \/ (Oversize /\ answer.status = 413)
              /\ \A t \in types :
                    IF KindOf(req.op, t) = "ErrorResponse"
                    THEN body.enums = {answer.code} /\ answer.status \in 400..500
                         /\ outcome.kind # "ok"
                    ELSE answer.code = "none" /\ answer.status < 400
                         /\ outcome.kind = "ok"
  OBVIOUS
<1>1. req.op \in Operations
  BY DEF Routed
<1>2. CASE outcome.kind = "panic"
  <2>1. answer.status = 500 /\ body = NoBody
    BY <1>2 DEF PanicAnswered, Reply, AnswerBody
  <2>. QED
    BY <1>1, <1>2, <2>1, PanicNotTaken
<1>3. ASSUME outcome.kind = "ok", NEW type \in Successes,
             answer = Encoded(req.op, type, "none")
      PROVE  /\ types # {}
             /\ \A t \in types : KindOf(req.op, t) # "ErrorResponse"
             /\ answer.code = "none" /\ answer.status < 400
  <2>1. /\ answer.status = encodeResponse[req.op][type] /\ answer.type = type
        /\ answer.code = "none"
    BY <1>3 DEF Encoded, Reply
  <2>2. type \in DOMAIN encodeResponse[req.op] /\ encodeResponse[req.op][type] \in 200..204
    BY DEF Successes
  <2>3. answer.status < 400
    BY <2>1, <2>2
  <2>. QED
    BY <1>1, <2>1, <2>2, <2>3, SuccessTaken
<1>4. ASSUME outcome.kind # "ok", Explained(req.op, answer) \/ FromHandler(answer)
      PROVE  /\ types = {} => Oversize /\ answer.status = 413
             /\ \A t \in types : KindOf(req.op, t) = "ErrorResponse"
             /\ body.enums = {answer.code} /\ answer.status \in 400..500
  <2>1. /\ answer.status \in 400..500 /\ answer.code \in ErrorResponseErrorCode
        /\ answer.type # "none" /\ KindOf(req.op, answer.type) = "ErrorResponse"
        /\ Expected(req.op, answer.status) \/ (Oversize /\ answer.status = 413)
    <3>1. CASE Explained(req.op, answer)
      BY <1>1, <3>1, ExplainedExpected DEF Explained, Encoded, Reply
    <3>2. CASE FromHandler(answer)
      BY <3>2 DEF FromHandler, writeError, Reply, KindOf
    <3>. QED
      BY <1>4, <3>1, <3>2
  <2>. QED
    BY <1>1, <2>1, ErrorTaken
<1>. HIDE DEF body, types
<1>5. CASE outcome.kind = "ok"
  BY <1>3, <1>5 DEF AnswerFits
<1>6. CASE outcome.kind \notin {"ok", "panic"}
  BY <1>4, <1>6 DEF AnswerFits
<1>. QED
  BY <1>2, <1>5, <1>6

(* The invariant: besides what the caller was told, where it was left with *)
(* an error of the client while the connection stands, the answer was      *)
(* there.                                                                  *)
Understood ==
    /\ AnswerUnderstood
    /\ result.kind = "error" => link = "down" \/ sent # Nothing

(* A caller is told of the success or of the cause that the server meant,  *)
(* and of one of these whenever the answer has come, but for a panic and   *)
(* for a value beyond the limit (oas_response_decoders_gen.go, the         *)
(* registries, newErrorHandler).                                           *)
THEOREM ExchangeUnderstood == ExchangeSpec => []AnswerUnderstood
<1>0. /\ \A kind, status, type, code :
            /\ Result(kind, status, type, code).kind = kind
            /\ Result(kind, status, type, code).status = status
            /\ Result(kind, status, type, code).code = code
      /\ Waiting.kind = "waiting" /\ Erred.kind = "error"
  BY DEF Result, Waiting, Erred
<1>1. ExchangeInit => Understood
  BY <1>0 DEF ExchangeInit, Understood, AnswerUnderstood
<1>2. ASSUME Understood, Told, Carried, PanicAnswered, AnswerFits, [ExchangeNext]_allVars
      PROVE  Understood'
  <2>1. CASE Serve
    <3>1. [Next]_vars /\ UNCHANGED exchange
      BY <2>1 DEF Serve, Next
    <3>2. CASE sent # Nothing
      <4>1. UNCHANGED vars
        BY <1>2, <3>1, <3>2, AnswerStays DEF Told
      <4>. QED
        BY <1>2, <3>1, <4>1
           DEF Understood, AnswerUnderstood, Oversize, exchange, vars, history
    <3>3. CASE sent = Nothing
      BY <1>2, <3>1, <3>3 DEF Understood, AnswerUnderstood, Told, exchange
    <3>. QED
      BY <3>2, <3>3
  <2>2. CASE WriteAnswer
    <3>1. /\ UNCHANGED <<vars, call, wire, link, result>> /\ sent = Nothing
          /\ result.kind = "error" => link = "down"
      BY <1>2, <2>2 DEF WriteAnswer, Understood
    <3>2. result.kind # "answer"
      BY <1>2, <3>1 DEF Told
    <3>. QED
      BY <3>1, <3>2 DEF Understood, AnswerUnderstood
  <2>3. CASE ReadAnswer
    <3>1. /\ UNCHANGED <<vars, call, wire, link, recorded, sent>>
          /\ result = Waiting /\ link = "up" /\ sent # Nothing
      BY <2>3 DEF ReadAnswer
    <3>2. call # NoCall
      BY <1>0, <1>2, <3>1 DEF Told
    <3>3. req.op = call.op /\ call.op \in Operations
      BY <1>2, <3>2, CallSeen, ExchangeAssumption DEF Carried
    <3>4. /\ pc = "done" /\ Routed
          /\ sent.status = answer.status
          /\ sent.body = AnswerBody(req.op, answer.type, answer.code)
      BY <1>2, <3>1, <3>3 DEF Told, Routed
    <3>5. CASE TakenFor(call.op, sent.status, sent.body) = {} /\ result' = Erred
      <4>1. outcome.kind = "panic" \/ (Oversize /\ answer.status = 413)
        BY <1>2, <3>3, <3>4, <3>5, AnswerTaken
      <4>2. (outcome.kind = "panic" \/ (Oversize /\ answer.status = 413))'
        BY <3>1, <4>1 DEF vars, history, Oversize
      <4>. QED
        BY <1>0, <3>1, <3>5, <4>2 DEF Understood, AnswerUnderstood
    <3>6. ASSUME NEW type \in TakenFor(call.op, sent.status, sent.body),
                 result' = Result("answer", sent.status, type,
                                  IF KindOf(call.op, type) = "ErrorResponse"
                                  THEN CHOOSE code \in sent.body.enums : TRUE
                                  ELSE "none")
          PROVE  Understood'
      <4>1. result'.kind = "answer" /\ result'.status = answer.status
        BY <1>0, <3>4, <3>6
      <4>2. result'.code = answer.code /\ (answer.status < 400 <=> outcome.kind = "ok")
        <5>1. CASE KindOf(call.op, type) = "ErrorResponse"
          <6>1. /\ sent.body.enums = {answer.code}
                /\ answer.status \in 400..500 /\ outcome.kind # "ok"
            BY <1>2, <3>3, <3>4, <5>1, AnswerTaken
          <6>2. result'.code = CHOOSE code \in {answer.code} : TRUE
            BY <1>0, <3>6, <5>1, <6>1
          <6>. QED
            BY <6>1, <6>2
        <5>2. CASE KindOf(call.op, type) # "ErrorResponse"
          <6>1. /\ answer.code = "none"
                /\ answer.status < 400 /\ outcome.kind = "ok"
            BY <1>2, <3>3, <3>4, <5>2, AnswerTaken
          <6>. QED
            BY <1>0, <3>6, <5>2, <6>1
        <5>. QED
          BY <5>1, <5>2
      <4>. QED
        BY <3>1, <4>1, <4>2 DEF Understood, AnswerUnderstood, vars, history
    <3>. QED
      BY <2>3, <3>5, <3>6 DEF ReadAnswer
  <2>4. CASE Break
    BY <1>0, <2>4 DEF Break, Understood, AnswerUnderstood
  <2>5. CASE UNCHANGED allVars
    BY <1>2, <2>5 DEF allVars, exchange, vars, history, Understood, AnswerUnderstood, Oversize
  <2>. QED
    BY <1>2, <2>1, <2>2, <2>3, <2>4, <2>5 DEF ExchangeNext, ExchangeStep, Over
<1>3. Understood => AnswerUnderstood
  BY DEF Understood
<1>. QED
  BY <1>1, <1>2, <1>3, ToldHolds, ExchangeCarries, PanicIsAnswered, AnswersFit, PTL
     DEF ExchangeSpec

(* The types of the two ends: what is recorded and sent is a status, and a *)
(* caller either waits, or has an answer or an error.                      *)
Ends ==
    /\ call = NoCall => wire \in Others
    /\ link \in {"up", "down"}
    /\ recorded \in Nat
    /\ sent.status \in Nat
    /\ result.kind \in {"none", "waiting", "error", "answer"}

(* Every variable keeps its type, that of the request and those of the     *)
(* two ends.                                                               *)
THEOREM ExchangeTypeCorrect == ExchangeSpec => []ExchangeTypeOK
<1>0. /\ \A kind, status, type, code : Result(kind, status, type, code).kind = kind
      /\ Waiting.kind = "waiting" /\ Erred.kind = "error" /\ Nothing.status = 0
  BY DEF Result, Waiting, Erred, Nothing
<1>1. ExchangeInit => Ends
  BY <1>0, ExchangeAssumption DEF ExchangeInit, Ends
<1>2. ASSUME Ends, TypeOK, [ExchangeNext]_allVars PROVE Ends'
  <2>1. answer.status \in Nat
    BY <1>2 DEF TypeOK
  <2>2. CASE Serve
    BY <1>2, <2>2 DEF Serve, exchange, Ends
  <2>3. CASE WriteAnswer
    BY <1>2, <2>1, <2>3 DEF WriteAnswer, Ends, Recorded
  <2>4. CASE ReadAnswer
    <3>1. result'.kind \in {"error", "answer"}
      BY <1>0, <2>4 DEF ReadAnswer
    <3>. QED
      BY <1>2, <2>4, <3>1 DEF ReadAnswer, Ends
  <2>5. CASE Break
    BY <1>0, <1>2, <2>5 DEF Break, Ends
  <2>6. CASE UNCHANGED allVars
    BY <1>2, <2>6 DEF allVars, exchange, Ends
  <2>. QED
    BY <1>2, <2>2, <2>3, <2>4, <2>5, <2>6 DEF ExchangeNext, ExchangeStep, Over
<1>3. Ends /\ Carried /\ TypeOK /\ AnswerTellsOutcome => ExchangeTypeOK
  BY DEF Ends, Carried, ExchangeTypeOK
<1>. QED
  BY <1>1, <1>2, <1>3, ExchangeCarries, ExchangeAnswers, PTL DEF ExchangeSpec

-----------------------------------------------------------------------------
(* What no registry names.                                                 *)

(* A use case that fails is answered by the registry of its operation.     *)
FailureAnswered ==
    outcome.kind = "error" =>
        /\ pc = "done" /\ Routed
        /\ answer = Answered(req.op, Resolve(req.op, outcome.err))

(* It is so in every exchange.                                             *)
LEMMA FailureIsAnswered == ExchangeSpec => []FailureAnswered
<1>1. Init => FailureAnswered
  BY DEF Init, FailureAnswered, Unknown
<1>2. ASSUME Core, FailureAnswered, [Next]_vars PROVE FailureAnswered'
  <2>1. CASE UNCHANGED outcome /\ (pc = "done" => UNCHANGED vars)
    BY <1>2, <2>1 DEF FailureAnswered, Routed, vars
  <2>2. ASSUME NEW u, NEW a, NEW type, NEW outcomes, Act(u, a, type, outcomes), Routed
        PROVE  FailureAnswered'
    <3>1. PICK o \in outcomes :
            /\ outcome' = o /\ pc' = "done" /\ req' = req
            /\ o.kind = "error" => answer' = Answered(req.op, Resolve(req.op, o.err))
      BY <2>2 DEF Act
    <3>. QED
      BY <2>2, <3>1 DEF FailureAnswered, Routed
  <2>3. CASE Handle
    <3>1. Routed
      BY <1>2, <2>3 DEF Core, IInv, Routed, Handle, At, AuthVerifyGet, RevokeChainPost,
             InvitesPost, LoginBeginPost, LoginPost, RegistrationBeginPost,
             RegistrationCompletePost, SessionsSessionIdDelete, TokenRefreshPost
    <3>. QED
      BY <1>2, <2>1, <2>2, <2>3, <3>1, AnswerStays
         DEF Handle, RefuseWith, Refuse, history, AuthVerifyGet, RevokeChainPost,
             InvitesPost, LoginBeginPost, LoginPost, RegistrationBeginPost,
             RegistrationCompletePost, SessionsSessionIdDelete, TokenRefreshPost
  <2>4. CASE ~Handle
    <3>1. UNCHANGED outcome
      BY <1>2, <2>4 DEF Next, Step, Finished, vars, history, ExtractClientIP, ScanPart,
             ScanEnds, Resolved, TurnAway, HandleBearerAuth, DecodeInputs, Refuse, Pass
    <3>. QED
      BY <1>2, <2>1, <3>1, AnswerStays
  <2>. QED
    BY <2>3, <2>4
<1>. QED
  BY <1>1, <1>2, ExchangeImplementsFront, ExchangeCore, PTL

(* The two registries whose use cases open a challenge do not name its     *)
(* expiry.                                                                 *)
LEMMA NoRuleForExpiry ==
    ASSUME NEW op \in {"LoginPost", "RegistrationCompletePost"},
           NEW k \in DOMAIN RegistryOf[op]
    PROVE  RegistryOf[op][k].target # "ErrChallengeExpired"
<1>1. CASE op = "LoginPost"
  BY <1>1 DEF RegistryOf, loginErrors, OnIs
<1>2. CASE op = "RegistrationCompletePost"
  BY <1>2 DEF RegistryOf, registrationCompleteErrors, OnIs
<1>. QED
  BY <1>1, <1>2

(* A caller whose challenge has expired is told of an internal error.      *)
ExpiryHidden ==
    result.kind = "answer" /\ call.op \in {"LoginPost", "RegistrationCompletePost"}
        /\ outcome = Failed({"ErrChallengeExpired"}) =>
    result.status = 500 /\ result.code = "INTERNAL_ERROR"

(* Whoever lets a challenge expire is told that the server failed, always, *)
(* where the documents promise 401 and CHALLENGE_EXPIRED (newLoginErrors,  *)
(* newRegistrationCompleteErrors).                                         *)
THEOREM ExpiryAlwaysHidden == ExchangeSpec => []ExpiryHidden
<1>1. ASSUME AnswerUnderstood, FailureAnswered, Carried, Told PROVE ExpiryHidden
  <2>. SUFFICES ASSUME result.kind = "answer",
                       call.op \in {"LoginPost", "RegistrationCompletePost"},
                       outcome = Failed({"ErrChallengeExpired"})
                PROVE  result.status = 500 /\ result.code = "INTERNAL_ERROR"
    BY DEF ExpiryHidden
  <2>1. req.op = call.op /\ req.op \in Operations
    BY <1>1, CallSeen, ExchangeAssumption DEF Carried, Told
  <2>2. answer = Answered(req.op, Resolve(req.op, {"ErrChallengeExpired"}))
    BY <1>1 DEF FailureAnswered, Failed
  <2>3. Matching(RegistryOf[req.op], {"ErrChallengeExpired"}) = {}
    BY <2>1, NoRuleForExpiry DEF Matching
  <2>4. answer = Answered(req.op, Default(req.op))
    BY <2>2, <2>3 DEF Resolve
  <2>5. answer.status = 500 /\ answer.code = "INTERNAL_ERROR"
    BY <2>1, <2>4, DefaultType DEF Default, Answered, Encoded, Reply, OnIs
  <2>. QED
    BY <1>1, <2>5 DEF AnswerUnderstood
<1>. QED
  BY <1>1, ExchangeUnderstood, FailureIsAnswered, ExchangeCarries, ToldHolds, PTL

=============================================================================
