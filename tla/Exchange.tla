------------------------------- MODULE Exchange --------------------------------
(***************************************************************************)
(* One request from end to end: a caller of the generated client, or some  *)
(* other program, writes it; the router and the generated server make of   *)
(* it what Front starts from; Front serves it; the answer is written, and  *)
(* the client reads it, unless the connection breaks before.               *)
(***************************************************************************)
EXTENDS Front

CONSTANTS
    Calls,   \* what callers ask the client for
    Others,  \* the requests of other programs
    NoCall   \* the request comes from another program

VARIABLES
    call,     \* the call, or NoCall
    wire,     \* the request as it is written
    link,     \* "up" until the connection breaks
    recorded, \* the status the server records of the answer, 0 for none
    sent,     \* the answer as it is written
    result    \* what the caller is told

exchange == <<call, wire, link, recorded, sent, result>>
allVars  == <<vars, exchange>>

Nothing == [status |-> 0, body |-> NoBody]

Result(kind, status, type, code) ==
    [kind |-> kind, status |-> status, type |-> type, code |-> code]
Waiting  == Result("waiting", 0, "none", "none")
Erred    == Result("error", 0, "none", "none")

-----------------------------------------------------------------------------
(* The request on its way.                                                 *)

(* A call as it is written; the token is sent along where the operation is *)
(* secured.                                                                *)
Posted(c) ==
    LET m == Send(c.op, c.id, c.value)
    IN  [method |-> m.method, path |-> m.path, body |-> m.body,
         peer |-> c.peer, forwarded |-> c.forwarded,
         token |-> IF m.secured THEN c.token ELSE [c.token EXCEPT !.state = "missing"]]

(* The request as the server sees it.                                      *)
Seen(w) ==
    LET op == ServeHTTP(w.method, w.path)
    IN  [op |-> op, peer |-> w.peer, forwarded |-> w.forwarded, token |-> w.token,
         input |-> DecodeInput(op, w.path, w.body)]

(* The type of the value that an operation is given.                       *)
Given ==
    [LoginPost                |-> "LoginPostReq",
     RegistrationBeginPost    |-> "RegistrationBeginPostReq",
     RegistrationCompletePost |-> "RegistrationCompletePostReq",
     TokenRefreshPost         |-> "TokenRefreshPostReq"]

ASSUME ExchangeAssumption ==
    /\ NoCall \notin Calls
    /\ \A c \in Calls :
          /\ c.op \in Operations
          /\ c.op \in WithBody => Given[c.op] \in DOMAIN c.value.objects
          /\ c.value.big \in BOOLEAN
          /\ WellFormed(c.value.objects)
          /\ Seen(Posted(c)) \in Requests
    /\ \A w \in Others : Seen(w) \in Requests

-----------------------------------------------------------------------------
(* The answer on its way.                                                  *)

Routed == req.op \in Operations

(* The answer comes from a handler, through its encoder, rather than from  *)
(* the error handler.                                                      *)
Encodes == acted \/ (Routed /\ answer.type # "ErrorResponse")

(* The recorder of the status: it is put around the connection by the code *)
(* of an operation, and learns nothing of a panic that ends above it.      *)
\* Mutant: the error handler is given the connection itself.
RecordedOfHandlers ==
    IF Routed /\ outcome.kind # "panic" /\ acted THEN answer.status ELSE 0
Recorded == IF Routed /\ outcome.kind # "panic" THEN answer.status ELSE 0

(* Where the connection is broken the body is lost, which the encoder may  *)
(* notice: then the error handler adds an answer of its own, whose status  *)
(* is recorded.                                                            *)
WriteAnswer ==
    /\ pc = "done" /\ sent = Nothing
    /\ sent' = [status |-> answer.status,
                body |-> AnswerBody(req.op, answer.type, answer.code)]
    /\ \/ recorded' = Recorded
       \/ /\ link = "down" /\ Encodes /\ outcome.kind # "panic"
          /\ answer.type # "NoContent"
          /\ recorded' = 500
    /\ UNCHANGED <<vars, call, wire, link, result>>

(* The client reads the answer.                                            *)
ReadAnswer ==
    /\ result = Waiting /\ link = "up" /\ sent # Nothing
    /\ LET types == TakenFor(call.op, sent.status, sent.body)
       IN  \/ types = {} /\ result' = Erred
           \/ \E type \in types :
                result' = Result("answer", sent.status, type,
                                 IF KindOf(call.op, type) = "ErrorResponse"
                                 THEN CHOOSE code \in sent.body.enums : TRUE
                                 ELSE "none")
    /\ UNCHANGED <<vars, call, wire, link, recorded, sent>>

(* The connection of a call breaks, or the caller gives up: the server     *)
(* goes on.                                                                *)
Break ==
    /\ result = Waiting
    /\ link' = "down"
    /\ result' = Erred
    /\ UNCHANGED <<vars, call, wire, recorded, sent>>

Serve == Step /\ UNCHANGED exchange

-----------------------------------------------------------------------------
ExchangeInit ==
    /\ \/ /\ call \in Calls
          /\ wire = Posted(call)
          /\ result = Waiting
       \/ /\ call = NoCall
          /\ wire \in Others
          /\ result = Result("none", 0, "none", "none")
    /\ req = Seen(wire)
    /\ link = "up" /\ recorded = 0 /\ sent = Nothing
    /\ Init

ExchangeStep == Serve \/ WriteAnswer \/ ReadAnswer

Over == sent # Nothing /\ result.kind # "waiting" /\ UNCHANGED allVars

ExchangeNext == ExchangeStep \/ Break \/ Over

(* Neither end waits for anything but the other: the server goes on until  *)
(* it has written its answer, and the client reads what has come.  Nothing *)
(* makes a connection break.                                               *)
ExchangeSpec == ExchangeInit /\ [][ExchangeNext]_allVars /\ WF_allVars(ExchangeStep)

-----------------------------------------------------------------------------
(* The types of what Exchange adds.                                        *)
ExchangeTypeOK ==
    /\ call \in Calls \cup {NoCall}
    /\ IF call = NoCall THEN wire \in Others ELSE wire = Posted(call)
    /\ link \in {"up", "down"}
    /\ recorded \in Nat
    /\ sent.status \in Nat
    /\ result.kind \in {"none", "waiting", "error", "answer"}
    /\ TypeOK

Called == call # NoCall

(* The id that the server takes from a path.                               *)
IdIn(path) == IF req.op = "RevokeChainPost" THEN path[3] ELSE path[2]

(* What a call is acted on is what its caller asked for: the same          *)
(* operation, the id that was given, and of a value every field that was   *)
(* set (the router, the encoders and the decoders are generated apart).    *)
CallArrives ==
    acted /\ Called =>
        /\ req.op = call.op
        /\ req.op \in WithParams => IdIn(wire.path) = call.id
        /\ req.op \in WithBody =>
              /\ Decode(wire.body.objects) = call.value.objects
              /\ wire.body.enums = call.value.enums

(* A call is turned away for its token, for a peer without an address, for *)
(* a value beyond the limit, an id that is none, or keys that are missing  *)
(* or of an unknown scope, and for nothing in how the client writes it.    *)
CallRefusedWithCause ==
    pc = "done" /\ ~acted /\ Called =>
        \/ call.op \in Operations /\ RolesFor[call.op] # {} /\ ~Authorized
        \/ call.op \in NeedsAddress /\ call.peer \notin Addrs
        \/ call.op \in WithBody /\ call.value.big
        \/ call.op \in WithParams /\ call.id \notin UUIDs
        \/ call.op = "RegistrationCompletePost" /\ ~ValidKeys(call.value)

(* A caller is told of the success or of the cause that the server meant;  *)
(* it is left with an error of the client only where the connection broke, *)
(* the server panicked or the value was beyond the limit: the codes and    *)
(* the statuses of the registries and of the error handler are among those *)
(* the client was generated for.                                           *)
AnswerUnderstood ==
    /\ result.kind = "answer" =>
          /\ result.status = answer.status
          /\ result.code = answer.code
          /\ result.status < 400 <=> outcome.kind = "ok"
    /\ result.kind = "error" =>
          link = "down" \/ outcome.kind = "panic" \/ (Oversize /\ answer.status = 413)

(* What the server has recorded of a call is the status that its caller    *)
(* was told (codeRecorder), although the error handler may write twice.    *)
RecordedTruly == result.kind = "answer" => recorded = result.status

(* A caller whose challenge has expired is told so, with the status and    *)
(* the code that are documented for it (Authenticator.Finish,              *)
(* Registrator.Finish, newLoginErrors, newRegistrationCompleteErrors).     *)
ChallengeExpiryTold ==
    /\ result.kind = "answer"
    /\ call.op \in {"LoginPost", "RegistrationCompletePost"}
    /\ "ErrChallengeExpired" \in outcome.err
    => result.status = 401 /\ result.code = "CHALLENGE_EXPIRED"

(* Every request is answered, and every call returns.                      *)
EveryCallReturns == <>(sent # Nothing /\ result.kind # "waiting")

=============================================================================
