------------------------------ MODULE FrontProofs ------------------------------
(***************************************************************************)
(* What Front promises of a request holds for an X-Forwarded-For line of   *)
(* any length, any list of proxies, and any errors of the use cases.       *)
(***************************************************************************)
EXTENDS Front, TLAPS

(* What the arguments below need of the types.                             *)
Base ==
    /\ pc \in Stages
    /\ req \in Requests
    /\ i \in 0..Len(text)

(* The request and the line it carries are what Requests says.             *)
LEMMA RequestType ==
    ASSUME Base
    PROVE  /\ req \in Request
           /\ text \in Seq(Addrs \cup {Comma, Blank, Junk})
           /\ Len(text) \in Nat
           /\ i \in Int
  BY ConstantsAssumption DEF Base, Request, text

-----------------------------------------------------------------------------
(* The scan.  The part of the line between the last comma and i is an      *)
(* address by what the code does with it just if the address has its place *)
(* among the commas of the whole line to itself.                           *)

(* Seen from one part, or from the whole line: it is the same address.     *)
LEMMA PartIsSole ==
    ASSUME Base, i > 0, i = Len(text) \/ text[i + 1] = Comma,
           NEW comma \in LastComma(i), NEW k \in (comma + 1)..i
    PROVE  Alone(k, comma + 1, i) <=> Sole(k)
<1>. USE RequestType, ConstantsAssumption
<1>1. /\ comma \in 0..i
      /\ comma = 0 \/ text[comma] = Comma
      /\ \A m \in (comma + 1)..i : text[m] # Comma
  BY DEF LastComma
<1>2. k \in 1..Len(text)
  BY <1>1 DEF Base
<1>3. ASSUME Alone(k, comma + 1, i)
      PROVE  Sole(k)
  <2>. SUFFICES ASSUME NEW m \in 1..Len(text), m # k, text[m] # Blank
                PROVE  \E c \in 1..Len(text) :
                          text[c] = Comma /\ ((m <= c /\ c < k) \/ (k < c /\ c <= m))
    BY <1>2, <1>3 DEF Sole, Alone
  <2>1. m <= comma \/ i < m
    BY <1>1, <1>3 DEF Alone, Base
  <2>2. CASE m <= comma
    BY <1>1, <2>2 DEF Base
  <2>3. CASE i < m
    <3>1. i + 1 \in 1..Len(text) /\ text[i + 1] = Comma
      BY <2>3 DEF Base
    <3>. QED
      BY <2>3, <3>1 DEF Base
  <2>. QED
    BY <2>1, <2>2, <2>3
<1>4. ASSUME Sole(k)
      PROVE  Alone(k, comma + 1, i)
  <2>. SUFFICES ASSUME NEW m \in (comma + 1)..i, m # k, text[m] # Blank
                PROVE  FALSE
    BY <1>4 DEF Alone, Sole
  <2>1. PICK c \in 1..Len(text) :
          text[c] = Comma /\ ((m <= c /\ c < k) \/ (k < c /\ c <= m))
    BY <1>1, <1>4 DEF Sole, Base
  <2>. QED
    BY <1>1, <2>1 DEF Base
<1>. QED
  BY <1>3, <1>4

(* An untrusted address that is found is the client's.                     *)
LEMMA FoundIsClient ==
    ASSUME Base, Scanning, i > 0,
           NEW comma \in LastComma(i),
           NEW a \in AddressIn(comma + 1, i) \ Trusted
    PROVE  a \in Addrs /\ IsClient(a)
<1>. USE RequestType, ConstantsAssumption
<1>1. PICK k \in (comma + 1)..i : Alone(k, comma + 1, i) /\ a = text[k]
  BY DEF AddressIn
<1>2. comma \in Nat /\ k \in 1..Len(text) /\ k <= i
  BY DEF LastComma, Base
<1>3. i = Len(text) \/ text[i + 1] = Comma
  BY DEF Scanning
<1>4. Listed(k)
  BY <1>1, <1>3, PartIsSole DEF Listed
<1>5. \A m \in (k + 1)..Len(text) : ~Listed(m)
  <2>. SUFFICES ASSUME NEW m \in (k + 1)..Len(text), Listed(m), m <= i
                PROVE  FALSE
    BY <1>2 DEF Scanning, Base
  <2>1. m \in (comma + 1)..i
    BY <1>2
  <2>2. text[m] = Blank
    BY <1>1, <1>2, <2>1 DEF Alone
  <2>. QED
    BY <2>2 DEF Listed, Sole
<1>. QED
  BY <1>1, <1>2, <1>4, <1>5 DEF IsClient, Alone, Scanning

(* Where none is found, nothing is lost by going on before the comma.      *)
LEMMA NoneFound ==
    ASSUME Base, Scanning, i > 0,
           NEW comma \in LastComma(i),
           AddressIn(comma + 1, i) \ Trusted = {}
    PROVE  /\ Before(comma) \in 0..Len(text)
           /\ Before(comma) = 0 \/ text[Before(comma) + 1] = Comma
           /\ \A k \in 1..Len(text) : k > Before(comma) => ~Listed(k)
<1>. USE RequestType, ConstantsAssumption
<1>1. comma \in 0..i /\ (comma = 0 \/ text[comma] = Comma)
  BY DEF LastComma
<1>2. i = Len(text) \/ text[i + 1] = Comma
  BY DEF Scanning
<1>3. \A k \in (comma + 1)..i : ~Listed(k)
  <2>. SUFFICES ASSUME NEW k \in (comma + 1)..i, Listed(k)
                PROVE  FALSE
    OBVIOUS
  <2>1. Alone(k, comma + 1, i)
    BY <1>2, PartIsSole DEF Listed
  <2>. QED
    BY <2>1 DEF AddressIn, Listed
<1>4. comma > 0 => ~Listed(comma)
  BY <1>1 DEF Listed, Sole
<1>5. \A k \in 1..Len(text) : k > Before(comma) => ~Listed(k)
  <2>. SUFFICES ASSUME NEW k \in 1..Len(text), k > Before(comma)
                PROVE  ~Listed(k)
    OBVIOUS
  <2>1. k > i \/ k \in (comma + 1)..i \/ (k = comma /\ comma > 0)
    BY <1>1 DEF Before, Base
  <2>. QED
    BY <1>3, <1>4, <2>1 DEF Scanning
<1>. QED
  BY <1>1, <1>5 DEF Before, Base

-----------------------------------------------------------------------------
(* The steps.                                                              *)

Core == Base /\ IInv

(* A request begins before the first of its stages.                        *)
LEMMA CoreInit == Init => Core
<1>. SUFFICES ASSUME Init PROVE Core
  OBVIOUS
<1>1. req \in Requests /\ pc = "clientIP" /\ i = 0 /\ ~acted
  BY DEF Init, Following
<1>2. Base
  BY <1>1, ConstantsAssumption DEF Base, Stages, text, Request
<1>. QED
  BY <1>1, <1>2 DEF Core, IInv, Init, NotYet, ClientKnown, ServedAuthorized, RefusedWithCause

(* The line, and with it who the client is, stays with the request.        *)
LEMMA SameRequest ==
    ASSUME UNCHANGED req
    PROVE  /\ text' = text
           /\ \A a : IsClient(a)' <=> IsClient(a)
           /\ \A k : Listed(k)' <=> Listed(k)
           /\ Authorized' <=> Authorized
           /\ Oversize' <=> Oversize
           /\ BadInput' <=> BadInput
  BY DEF text, IsClient, Listed, Sole, Authorized, Oversize, BadInput

(* Once its address is known a request goes on to the check of its token.  *)
LEMMA ResolvedInv ==
    ASSUME Core, pc \in {"clientIP", "scan"},
           NEW a \in Addrs, IsClient(a), Resolved(a)
    PROVE  Core'
<1>1. /\ pc' = "security" /\ req' = req /\ i' = i
      /\ ctx' = [kind |-> "ip", value |-> a]
      /\ UNCHANGED <<history, answer>>
  BY DEF Resolved, WithClientIP, Following
<1>2. Base'
  BY <1>1, SameRequest DEF Core, Base, Stages
<1>3. Addressed'
  BY <1>1, SameRequest DEF Addressed
<1>4. ~acted' /\ NotYet'
  BY <1>1 DEF Core, IInv, NotYet, history
<1>. QED
  BY <1>1, <1>2, <1>3, <1>4
     DEF Core, IInv, ClientKnown, ServedAuthorized, RefusedWithCause

(* A peer that is no proxy of ours, or has no listed client, is the client.*)
LEMMA PeerIsClient ==
    ASSUME req.peer \notin Trusted \/ \A k \in 1..Len(text) : ~Listed(k)
    PROVE  IsClient(req.peer)
  BY DEF IsClient

(* extractClientIP decides whether the line is looked at.                  *)
LEMMA ExtractInv == Core /\ ExtractClientIP => Core'
<1>. SUFFICES ASSUME Core, ExtractClientIP PROVE Core'
  OBVIOUS
<1>. USE RequestType, ConstantsAssumption
<1>1. pc = "clientIP" /\ NotYet /\ Base /\ ctx = NothingInContext
  BY DEF Core, IInv, ExtractClientIP
<1>2. CASE req.peer \in Addrs \ Trusted /\ Resolved(req.peer)
  BY <1>1, <1>2, ResolvedInv, PeerIsClient
<1>3. CASE /\ req.peer \notin Addrs /\ pc' = Following.clientIP
           /\ UNCHANGED <<req, i, ctx, history, answer>>
  <2>1. pc' = "security" /\ req' = req /\ i' = i /\ ctx' = ctx
    BY <1>3 DEF Following
  <2>2. NotYet' /\ ~acted'
    BY <1>1, <1>3 DEF NotYet, history
  <2>3. Addressed'
    BY <1>1, <1>3, <2>1 DEF Addressed, Core, IInv
  <2>4. Base'
    BY <1>1, <2>1, SameRequest DEF Base, Stages
  <2>. QED
    BY <2>1, <2>2, <2>3, <2>4
       DEF Core, IInv, ClientKnown, ServedAuthorized, RefusedWithCause
<1>4. CASE /\ req.peer \in Trusted /\ pc' = "scan" /\ i' = Len(text)
           /\ UNCHANGED <<req, ctx, history, answer>>
  <2>1. NotYet' /\ ~acted'
    BY <1>1, <1>4 DEF NotYet, history
  <2>2. Scanning'
    BY <1>1, <1>4, SameRequest DEF Scanning
  <2>3. Base'
    BY <1>1, <1>4, SameRequest DEF Base, Stages
  <2>4. ctx' = NothingInContext
    BY <1>1, <1>4
  <2>. QED
    BY <1>4, <2>1, <2>2, <2>3, <2>4
       DEF Core, IInv, ClientKnown, ServedAuthorized, RefusedWithCause
<1>. QED
  BY <1>2, <1>3, <1>4 DEF ExtractClientIP

(* Every turn of the loop, and its end.                                    *)
LEMMA ScanInv == Core /\ (ScanPart \/ ScanEnds) => Core'
<1>. SUFFICES ASSUME Core, ScanPart \/ ScanEnds PROVE Core'
  OBVIOUS
<1>. USE RequestType, ConstantsAssumption
<1>1. pc = "scan" /\ NotYet /\ Base /\ Scanning /\ ctx = NothingInContext
  BY DEF Core, IInv, ScanPart, ScanEnds
<1>2. CASE ScanEnds
  BY <1>1, <1>2, ResolvedInv, PeerIsClient DEF ScanEnds, Scanning, Base
<1>3. CASE ScanPart
  <2>1. PICK comma \in LastComma(i) :
          \/ \E a \in AddressIn(comma + 1, i) \ Trusted : Resolved(a)
          \/ /\ AddressIn(comma + 1, i) \ Trusted = {}
             /\ i' = Before(comma)
             /\ UNCHANGED <<pc, req, ctx, history, answer>>
    BY <1>3 DEF ScanPart
  <2>2. i > 0
    BY <1>3 DEF ScanPart
  <2>3. CASE \E a \in AddressIn(comma + 1, i) \ Trusted : Resolved(a)
    BY <1>1, <2>2, <2>3, FoundIsClient, ResolvedInv
  <2>4. CASE /\ AddressIn(comma + 1, i) \ Trusted = {}
             /\ i' = Before(comma)
             /\ UNCHANGED <<pc, req, ctx, history, answer>>
    <3>1. /\ i' \in 0..Len(text)
          /\ i' = 0 \/ text[i' + 1] = Comma
          /\ \A k \in 1..Len(text) : k > i' => ~Listed(k)
      BY <1>1, <2>2, <2>4, NoneFound
    <3>2. Scanning'
      BY <1>1, <2>4, <3>1, SameRequest DEF Scanning
    <3>3. Base'
      BY <1>1, <2>4, <3>1, SameRequest DEF Base
    <3>4. NotYet' /\ ~acted' /\ pc' = "scan"
      BY <1>1, <2>4 DEF NotYet, history
    <3>5. ctx' = NothingInContext
      BY <1>1, <2>4
    <3>. QED
      BY <3>2, <3>3, <3>4, <3>5
         DEF Core, IInv, ClientKnown, ServedAuthorized, RefusedWithCause
  <2>. QED
    BY <2>1, <2>3, <2>4
<1>. QED
  BY <1>2, <1>3

(* An operation is secured just if it asks for roles.                      *)
LEMMA SecuredAsksRoles ==
    \A op \in Operations : "security" \in Checks[op] <=> RolesFor[op] # {}
  BY DEF Operations, RolesFor, Checks, handleAuthVerifyGetRequest,
         handleInvitesPostRequest, handleSessionsSessionIdDeleteRequest,
         handleRevokeChainPostRequest, handleLoginBeginPostRequest,
         handleLoginPostRequest, handleRegistrationBeginPostRequest,
         handleRegistrationCompletePostRequest, handleTokenRefreshPostRequest

(* A request that leads nowhere is turned away.                            *)
LEMMA TurnAwayInv == Core /\ TurnAway => Core'
<1>. SUFFICES ASSUME Core, TurnAway PROVE Core'
  OBVIOUS
<1>1. pc = "security" /\ NotYet /\ Base /\ req.op \in Unrouted
  BY DEF Core, IInv, TurnAway
<1>2. pc' = "done" /\ req' = req /\ i' = i /\ ~acted'
  BY <1>1 DEF TurnAway, Refuse, NotYet, history
<1>3. Base'
  BY <1>1, <1>2, SameRequest DEF Base, Stages
<1>4. RefusedWithCause'
  BY <1>1, <1>2 DEF RefusedWithCause
<1>. QED
  BY <1>2, <1>3, <1>4 DEF Core, IInv, ClientKnown, ServedAuthorized

(* HandleBearerAuth refuses, or leaves the user of the token.              *)
LEMMA SecurityInv == Core /\ HandleBearerAuth => Core'
<1>. SUFFICES ASSUME Core, HandleBearerAuth PROVE Core'
  OBVIOUS
<1>1. pc = "security" /\ NotYet /\ Base /\ Addressed /\ req.op \in Operations
  BY DEF Core, IInv, HandleBearerAuth
<1>2. ASSUME NEW a, Refuse(a), RolesFor[req.op] # {}, ~Authorized
      PROVE  Core'
  <2>1. pc' = "done" /\ req' = req /\ i' = i /\ ~acted'
    BY <1>1, <1>2 DEF Refuse, NotYet, history
  <2>2. Base'
    BY <1>1, <2>1, SameRequest DEF Base, Stages
  <2>3. RefusedWithCause'
    BY <1>1, <1>2, <2>1, SameRequest DEF RefusedWithCause
  <2>. QED
    BY <2>1, <2>2, <2>3 DEF Core, IInv, ClientKnown, ServedAuthorized
<1>3. ASSUME Pass, Identified'
      PROVE  Core'
  <2>1. pc' = "decode" /\ req' = req /\ i' = i
    BY <1>1, <1>3 DEF Pass, Following
  <2>2. Base'
    BY <1>1, <2>1, SameRequest DEF Base, Stages
  <2>3. NotYet' /\ ~acted'
    BY <1>1, <1>3 DEF Pass, NotYet, history
  <2>. QED
    BY <1>1, <1>3, <2>1, <2>2, <2>3
       DEF Core, IInv, ClientKnown, ServedAuthorized, RefusedWithCause
<1>4. CASE RolesFor[req.op] = {} /\ Pass /\ UNCHANGED ctx
  <2>1. req' = req /\ ctx' = ctx
    BY <1>4 DEF Pass
  <2>2. Addressed'
    BY <1>1, <2>1, SameRequest DEF Addressed
  <2>. QED
    BY <1>3, <1>4, <2>1, <2>2 DEF Identified
<1>5. CASE /\ RolesFor[req.op] # {} /\ Authorized
           /\ Pass /\ WithUserID(req.token.user)
  <2>1. req' = req /\ ctx' = [kind |-> "user", value |-> req.token.user]
    BY <1>5 DEF Pass, WithUserID
  <2>2. Authorized'
    BY <1>5, <2>1, SameRequest
  <2>. QED
    BY <1>3, <1>5, <2>1, <2>2 DEF Identified
<1>. QED
  BY <1>1, <1>2, <1>4, <1>5, SecuredAsksRoles
     DEF HandleBearerAuth, Authorized, RoleAllowed

(* What cannot be decoded is refused.                                      *)
LEMMA DecodeInv == Core /\ DecodeInputs => Core'
<1>. SUFFICES ASSUME Core, DecodeInputs PROVE Core'
  OBVIOUS
<1>1. pc = "decode" /\ NotYet /\ Base /\ Identified /\ req.op \in Operations
  BY DEF Core, IInv, DecodeInputs
<1>2. ASSUME NEW a, Refuse(a), Oversize \/ BadInput
      PROVE  Core'
  <2>1. pc' = "done" /\ req' = req /\ i' = i /\ ~acted'
    BY <1>1, <1>2 DEF Refuse, NotYet, history
  <2>2. Base'
    BY <1>1, <2>1, SameRequest DEF Base, Stages
  <2>3. RefusedWithCause'
    BY <1>2, <2>1, SameRequest DEF RefusedWithCause
  <2>. QED
    BY <2>1, <2>2, <2>3 DEF Core, IInv, ClientKnown, ServedAuthorized
<1>3. CASE ~Oversize /\ ~BadInput /\ Pass /\ UNCHANGED ctx
  <2>1. pc' = "handler" /\ req' = req /\ i' = i /\ ctx' = ctx
    BY <1>1, <1>3 DEF Pass, Following
  <2>2. Base'
    BY <1>1, <2>1, SameRequest DEF Base, Stages
  <2>3. NotYet' /\ ~acted'
    BY <1>1, <1>3 DEF Pass, NotYet, history
  <2>4. Addressed => Addressed'
    BY <2>1, SameRequest DEF Addressed
  <2>5. Identified'
    BY <1>1, <2>1, <2>4, SameRequest DEF Identified
  <2>6. ~Oversize' /\ ~BadInput'
    BY <1>3, <2>1, SameRequest
  <2>. QED
    BY <1>1, <2>1, <2>2, <2>3, <2>5, <2>6
       DEF Core, IInv, ClientKnown, ServedAuthorized, RefusedWithCause
<1>. QED
  BY <1>2, <1>3 DEF DecodeInputs

(* A handler that acts has what its operation needs.                       *)
LEMMA ActInv ==
    ASSUME Core, pc = "handler",
           NEW u, NEW a, NEW type, NEW outcomes, Act(u, a, type, outcomes),
           req.op \in NeedsAddress => a \in Addrs /\ IsClient(a),
           req.op \in NeedsUser => u = req.token.user
    PROVE  Core'
<1>1. /\ pc' = "done" /\ req' = req /\ i' = i
      /\ acted' /\ asUser' = u /\ fromIP' = a
  BY DEF Act
<1>2. Base'
  BY <1>1, SameRequest DEF Core, Base, Stages
<1>3. ClientKnown'
  BY <1>1, SameRequest DEF ClientKnown
<1>4. RolesFor[req.op] # {} => Authorized
  BY DEF Core, IInv, Identified
<1>5. ServedAuthorized'
  BY <1>1, <1>4, SameRequest DEF ServedAuthorized
<1>. QED
  BY <1>1, <1>2, <1>3, <1>5 DEF Core, IInv, RefusedWithCause

(* A handler turns away only a request without an address.                 *)
LEMMA RefuseInv ==
    ASSUME Core, pc = "handler", NEW a, Refuse(a),
           req.op \in NeedsAddress, req.peer \notin Addrs
    PROVE  Core'
<1>1. pc' = "done" /\ req' = req /\ i' = i /\ ~acted'
  BY DEF Refuse, Core, IInv, NotYet, history
<1>2. Base'
  BY <1>1, SameRequest DEF Core, Base, Stages
<1>3. RefusedWithCause'
  BY <1>1 DEF RefusedWithCause
<1>. QED
  BY <1>1, <1>2, <1>3 DEF Core, IInv, ClientKnown, ServedAuthorized

(* A handler finds in the context what its operation needs.                *)
LEMMA HandleInv == Core /\ Handle => Core'
<1>. SUFFICES ASSUME Core, Handle PROVE Core'
  OBVIOUS
<1>1. pc = "handler" /\ Identified
  BY DEF Core, IInv, Handle, At, AuthVerifyGet, RevokeChainPost, InvitesPost,
         LoginBeginPost, LoginPost, RegistrationBeginPost,
         RegistrationCompletePost, SessionsSessionIdDelete, TokenRefreshPost
<1>2. CASE AuthVerifyGet \/ InvitesPost \/ SessionsSessionIdDelete
  <2>1. req.op \in {"AuthVerifyGet", "InvitesPost", "SessionsSessionIdDelete"}
    BY <1>2 DEF AuthVerifyGet, InvitesPost, SessionsSessionIdDelete, At
  <2>2. RolesFor[req.op] # {}
    BY <2>1 DEF RolesFor
  <2>3. ctx = [kind |-> "user", value |-> req.token.user]
    BY <1>1, <2>2 DEF Identified
  <2>4. HasUserID /\ ctx.value = req.token.user
    BY <2>3 DEF HasUserID
  <2>5. req.op \notin NeedsAddress
    BY <2>1 DEF NeedsAddress
  <2>6. \E type, outcomes : Act(req.token.user, None, type, outcomes)
    BY <1>2, <2>4 DEF AuthVerifyGet, InvitesPost, SessionsSessionIdDelete
  <2>. QED
    BY <1>1, <2>5, <2>6, ActInv
<1>3. CASE LoginPost \/ RegistrationCompletePost
  <2>1. req.op \in {"LoginPost", "RegistrationCompletePost"}
    BY <1>3 DEF LoginPost, RegistrationCompletePost, At
  <2>2. RolesFor[req.op] = {}
    BY <2>1 DEF RolesFor
  <2>3. Addressed
    BY <1>1, <2>2 DEF Identified
  <2>4. req.op \in NeedsAddress /\ req.op \notin NeedsUser
    BY <2>1 DEF NeedsAddress, NeedsUser
  <2>5. CASE HasClientIP
    <3>1. ctx.value \in Addrs /\ IsClient(ctx.value)
      BY <2>3, <2>5 DEF Addressed, HasClientIP, NothingInContext
    <3>2. \E type, outcomes : Act(None, ctx.value, type, outcomes)
      BY <1>3, <2>5 DEF LoginPost, RegistrationCompletePost
    <3>. QED
      BY <1>1, <2>4, <3>1, <3>2, ActInv
  <2>6. CASE ~HasClientIP
    <3>1. req.peer \notin Addrs
      BY <2>3, <2>6 DEF Addressed, HasClientIP
    <3>2. \E a : Refuse(a)
      BY <1>3, <2>6 DEF LoginPost, RegistrationCompletePost, RefuseWith
    <3>. QED
      BY <1>1, <2>4, <3>1, <3>2, RefuseInv
  <2>. QED
    BY <2>5, <2>6
<1>4. CASE RevokeChainPost \/ LoginBeginPost \/ RegistrationBeginPost \/ TokenRefreshPost
  <2>1. req.op \notin NeedsAddress /\ req.op \notin NeedsUser
    BY <1>4 DEF RevokeChainPost, LoginBeginPost, RegistrationBeginPost,
                TokenRefreshPost, At, NeedsAddress, NeedsUser
  <2>2. \E type, outcomes : Act(None, None, type, outcomes)
    BY <1>4 DEF RevokeChainPost, LoginBeginPost, RegistrationBeginPost, TokenRefreshPost
  <2>. QED
    BY <1>1, <2>1, <2>2, ActInv
<1>. QED
  BY <1>2, <1>3, <1>4 DEF Handle

(* A step that changes nothing.                                            *)
LEMMA CoreStutter == Core /\ UNCHANGED vars => Core'
<1>. SUFFICES ASSUME Core, UNCHANGED vars PROVE Core'
  OBVIOUS
<1>1. /\ pc' = pc /\ req' = req /\ i' = i /\ ctx' = ctx /\ acted' = acted
      /\ asUser' = asUser /\ fromIP' = fromIP /\ outcome' = outcome /\ answer' = answer
  BY DEF vars, history
<1>2. Base'
  BY <1>1, SameRequest DEF Core, Base
<1>3. (Scanning => Scanning') /\ (Addressed => Addressed')
  BY <1>1, SameRequest DEF Scanning, Addressed
<1>4. Identified => Identified'
  BY <1>1, <1>3, SameRequest DEF Identified
<1>5. ClientKnown' /\ ServedAuthorized' /\ RefusedWithCause'
  BY <1>1, SameRequest DEF Core, IInv, ClientKnown, ServedAuthorized, RefusedWithCause
<1>6. (NotYet => NotYet') /\ (Oversize' => Oversize) /\ (BadInput' => BadInput)
  BY <1>1, SameRequest DEF NotYet
<1>. QED
  BY <1>1, <1>2, <1>3, <1>4, <1>5, <1>6 DEF Core, IInv

(* All steps together.                                                     *)
LEMMA CoreNext == Core /\ [Next]_vars => Core'
  BY ExtractInv, ScanInv, TurnAwayInv, SecurityInv, DecodeInv, HandleInv, CoreStutter
     DEF Next, Step, Finished

-----------------------------------------------------------------------------
(* What a request has at each of its stages, by induction on its steps.    *)
THEOREM Invariance == Spec => []Core
  BY CoreInit, CoreNext, PTL DEF Spec

(* The inductive invariant of a run holds: nothing untrusted lies to the   *)
(* right of the scan (firstUntrustedFromRight), and the context holds at   *)
(* each stage what the next one looks for.                                 *)
THEOREM InvariantHolds == Spec => []IInv
<1>1. Core => IInv
  BY DEF Core
<1>. QED
  BY <1>1, Invariance, PTL

(* The address that logins and registrations are given is that of the      *)
(* client (extractClientIP), whatever the line and the list of proxies.    *)
THEOREM AddressCorrect == Spec => []ClientKnown
<1>1. Core => ClientKnown
  BY DEF Core, IInv
<1>. QED
  BY <1>1, Invariance, PTL

(* No operation that asks for a role is acted on without one, nor for      *)
(* another user than the token's (HandleBearerAuth, userIDFromContext).    *)
THEOREM OnlyAuthorizedServed == Spec => []ServedAuthorized
<1>1. Core => ServedAuthorized
  BY DEF Core, IInv
<1>. QED
  BY <1>1, Invariance, PTL

(* Nothing but its own token, input or peer turns a request away: the keys *)
(* of the context, although equal, hide nothing that is needed.            *)
THEOREM NoneTurnedAway == Spec => []RefusedWithCause
<1>1. Core => RefusedWithCause
  BY DEF Core, IInv
<1>. QED
  BY <1>1, Invariance, PTL

-----------------------------------------------------------------------------
(* The registries.                                                         *)

ErrorReply == [status : 400..500, type : Types, code : ErrorResponseErrorCode]

(* The types of answers to errors an operation has, and the rules that     *)
(* lead to them.                                                           *)
ErrorTypes(op) ==
    {type \in DOMAIN encodeResponse[op] : encodeResponse[op][type] \in 400..500}
Rules(op) == [target : Sentinels, type : ErrorTypes(op), code : ErrorResponseErrorCode]

(* An answer that says which error it was.                                 *)
Explained(op, a) ==
    \E type \in ErrorTypes(op), code \in ErrorResponseErrorCode : a = Encoded(op, type, code)

(* A type of an operation is one of the types there are.                   *)
LEMMA TypeOfOperation ==
    ASSUME NEW op \in Operations, NEW type \in DOMAIN encodeResponse[op]
    PROVE  type \in Types
  BY DEF Types

(* The answer that a rule leads to.                                        *)
LEMMA AnsweredType ==
    ASSUME NEW op \in Operations, NEW type \in ErrorTypes(op),
           NEW code \in ErrorResponseErrorCode, NEW target
    PROVE  Answered(op, OnIs(target, type, code)) \in ErrorReply
<1>1. type \in Types /\ encodeResponse[op][type] \in 400..500
  BY TypeOfOperation DEF ErrorTypes
<1>. QED
  BY <1>1 DEF Answered, Encoded, OnIs, Reply, ErrorReply

(* A rule of a registry is a record of its three parts.                    *)
LEMMA RuleParts ==
    ASSUME NEW op, NEW rule \in Rules(op)
    PROVE  rule = OnIs(rule.target, rule.type, rule.code)
  BY DEF Rules, OnIs

(* A list of up to five rules is a sequence of rules.                      *)
LEMMA FewRules ==
    ASSUME NEW R, NEW a \in R, NEW b \in R, NEW c \in R, NEW d \in R, NEW e \in R
    PROVE  /\ <<a>> \in Seq(R)             /\ Len(<<a>>) <= 5
           /\ <<a, b>> \in Seq(R)          /\ Len(<<a, b>>) <= 5
           /\ <<a, b, c>> \in Seq(R)       /\ Len(<<a, b, c>>) <= 5
           /\ <<a, b, c, d>> \in Seq(R)    /\ Len(<<a, b, c, d>>) <= 5
           /\ <<a, b, c, d, e>> \in Seq(R) /\ Len(<<a, b, c, d, e>>) <= 5
  OBVIOUS

(* A rule of three parts that fit is a rule.                               *)
LEMMA OnIsType ==
    ASSUME NEW op, NEW target \in Sentinels, NEW type \in ErrorTypes(op),
           NEW code \in ErrorResponseErrorCode
    PROVE  OnIs(target, type, code) \in Rules(op)
  BY DEF OnIs, Rules

(* The rules of verifyErrors lead to answers that AuthVerifyGet has.     *)
LEMMA RegistryAuthVerifyGet ==
    /\ RegistryOf["AuthVerifyGet"] \in Seq(Rules("AuthVerifyGet"))
    /\ Len(RegistryOf["AuthVerifyGet"]) <= 5
<1>. DEFINE R == Rules("AuthVerifyGet")
<1>1. /\ {"ErrUnauthenticated"}
            \subseteq Sentinels
      /\ {"UNAUTHORIZED"}
            \subseteq ErrorResponseErrorCode
  BY DEF Sentinels, ErrorResponseErrorCode
<1>2. {"Unauthorized"} \subseteq ErrorTypes("AuthVerifyGet")
  BY DEF ErrorTypes, encodeResponse, encodeAuthVerifyGetResponse
<1>3. OnIs("ErrUnauthenticated", "Unauthorized", "UNAUTHORIZED") \in R
  BY <1>1, <1>2, OnIsType
<1>4. verifyErrors \in Seq(R) /\ Len(verifyErrors) <= 5
  <2>. HIDE DEF R
  <2>. QED
    BY <1>3, FewRules DEF verifyErrors
<1>. QED
  BY <1>4 DEF RegistryOf

(* The rules of invitesErrors lead to answers that InvitesPost has.      *)
LEMMA RegistryInvitesPost ==
    /\ RegistryOf["InvitesPost"] \in Seq(Rules("InvitesPost"))
    /\ Len(RegistryOf["InvitesPost"]) <= 5
<1>. DEFINE R == Rules("InvitesPost")
<1>1. /\ {"ErrUnauthenticated", "ErrTooManyActive", "ErrValidation"}
            \subseteq Sentinels
      /\ {"UNAUTHORIZED", "INVITE_LIMIT_EXCEEDED", "VALIDATION_ERROR"}
            \subseteq ErrorResponseErrorCode
  BY DEF Sentinels, ErrorResponseErrorCode
<1>2. {"Unauthorized", "Conflict"} \subseteq ErrorTypes("InvitesPost")
  BY DEF ErrorTypes, encodeResponse, encodeInvitesPostResponse
<1>3. OnIs("ErrUnauthenticated", "Unauthorized", "UNAUTHORIZED") \in R
  BY <1>1, <1>2, OnIsType
<1>4. OnIs("ErrTooManyActive", "Conflict", "INVITE_LIMIT_EXCEEDED") \in R
  BY <1>1, <1>2, OnIsType
<1>5. OnIs("ErrValidation", "Conflict", "VALIDATION_ERROR") \in R
  BY <1>1, <1>2, OnIsType
<1>6. invitesErrors \in Seq(R) /\ Len(invitesErrors) <= 5
  <2>. HIDE DEF R
  <2>. QED
    BY <1>3, <1>4, <1>5, FewRules DEF invitesErrors
<1>. QED
  BY <1>6 DEF RegistryOf

(* The rules of registrationBeginErrors lead to answers that RegistrationBeginPost has. *)
LEMMA RegistryRegistrationBeginPost ==
    /\ RegistryOf["RegistrationBeginPost"] \in Seq(Rules("RegistrationBeginPost"))
    /\ Len(RegistryOf["RegistrationBeginPost"]) <= 5
<1>. DEFINE R == Rules("RegistrationBeginPost")
<1>1. /\ {"ErrValidation", "ErrNotFound", "ErrAlreadyUsed", "ErrExpired"}
            \subseteq Sentinels
      /\ {"VALIDATION_ERROR", "INVITE_NOT_FOUND", "INVITE_ALREADY_USED",
          "INVITE_EXPIRED"}
            \subseteq ErrorResponseErrorCode
  BY DEF Sentinels, ErrorResponseErrorCode
<1>2. {"BadRequest", "NotFound", "Conflict"} \subseteq ErrorTypes("RegistrationBeginPost")
  BY DEF ErrorTypes, encodeResponse, encodeRegistrationBeginPostResponse
<1>3. OnIs("ErrValidation", "BadRequest", "VALIDATION_ERROR") \in R
  BY <1>1, <1>2, OnIsType
<1>4. OnIs("ErrNotFound", "NotFound", "INVITE_NOT_FOUND") \in R
  BY <1>1, <1>2, OnIsType
<1>5. OnIs("ErrAlreadyUsed", "Conflict", "INVITE_ALREADY_USED") \in R
  BY <1>1, <1>2, OnIsType
<1>6. OnIs("ErrExpired", "Conflict", "INVITE_EXPIRED") \in R
  BY <1>1, <1>2, OnIsType
<1>7. registrationBeginErrors \in Seq(R) /\ Len(registrationBeginErrors) <= 5
  <2>. HIDE DEF R
  <2>. QED
    BY <1>3, <1>4, <1>5, <1>6, FewRules DEF registrationBeginErrors
<1>. QED
  BY <1>7 DEF RegistryOf

(* The rules of registrationCompleteErrors lead to answers that RegistrationCompletePost has. *)
LEMMA RegistryRegistrationCompletePost ==
    /\ RegistryOf["RegistrationCompletePost"] \in Seq(Rules("RegistrationCompletePost"))
    /\ Len(RegistryOf["RegistrationCompletePost"]) <= 5
<1>. DEFINE R == Rules("RegistrationCompletePost")
<1>1. /\ {"ErrWrappedKeysRequired", "ErrInviteNotFound", "ErrAlreadyUsed",
          "ErrExpired", "ErrClientIPUnavailable"}
            \subseteq Sentinels
      /\ {"WRAPPED_KEYS_REQUIRED", "INVITE_NOT_FOUND", "INVITE_ALREADY_USED",
          "INVITE_EXPIRED", "INTERNAL_ERROR"}
            \subseteq ErrorResponseErrorCode
  BY DEF Sentinels, ErrorResponseErrorCode
<1>2. {"BadRequest", "NotFound", "Conflict", "InternalServerError"} \subseteq ErrorTypes("RegistrationCompletePost")
  BY DEF ErrorTypes, encodeResponse, encodeRegistrationCompletePostResponse
<1>3. OnIs("ErrWrappedKeysRequired", "BadRequest", "WRAPPED_KEYS_REQUIRED") \in R
  BY <1>1, <1>2, OnIsType
<1>4. OnIs("ErrInviteNotFound", "NotFound", "INVITE_NOT_FOUND") \in R
  BY <1>1, <1>2, OnIsType
<1>5. OnIs("ErrAlreadyUsed", "Conflict", "INVITE_ALREADY_USED") \in R
  BY <1>1, <1>2, OnIsType
<1>6. OnIs("ErrExpired", "Conflict", "INVITE_EXPIRED") \in R
  BY <1>1, <1>2, OnIsType
<1>7. OnIs("ErrClientIPUnavailable", "InternalServerError", "INTERNAL_ERROR") \in R
  BY <1>1, <1>2, OnIsType
<1>8. registrationCompleteErrors \in Seq(R) /\ Len(registrationCompleteErrors) <= 5
  <2>. HIDE DEF R
  <2>. QED
    BY <1>3, <1>4, <1>5, <1>6, <1>7, FewRules DEF registrationCompleteErrors
<1>. QED
  BY <1>8 DEF RegistryOf

(* The rules of loginErrors lead to answers that LoginPost has.          *)
LEMMA RegistryLoginPost ==
    /\ RegistryOf["LoginPost"] \in Seq(Rules("LoginPost"))
    /\ Len(RegistryOf["LoginPost"]) <= 5
<1>. DEFINE R == Rules("LoginPost")
<1>1. /\ {"ErrValidation", "ErrCredentialNotFound", "ErrCredentialRevoked",
          "ErrCredentialCloneSuspected"}
            \subseteq Sentinels
      /\ {"VALIDATION_ERROR", "CREDENTIAL_NOT_FOUND", "CREDENTIAL_REVOKED",
          "CREDENTIAL_CLONE_SUSPECTED"}
            \subseteq ErrorResponseErrorCode
  BY DEF Sentinels, ErrorResponseErrorCode
<1>2. {"BadRequest", "Unauthorized"} \subseteq ErrorTypes("LoginPost")
  BY DEF ErrorTypes, encodeResponse, encodeLoginPostResponse
<1>3. OnIs("ErrValidation", "BadRequest", "VALIDATION_ERROR") \in R
  BY <1>1, <1>2, OnIsType
<1>4. OnIs("ErrCredentialNotFound", "Unauthorized", "CREDENTIAL_NOT_FOUND") \in R
  BY <1>1, <1>2, OnIsType
<1>5. OnIs("ErrCredentialRevoked", "Unauthorized", "CREDENTIAL_REVOKED") \in R
  BY <1>1, <1>2, OnIsType
<1>6. OnIs("ErrCredentialCloneSuspected", "Unauthorized", "CREDENTIAL_CLONE_SUSPECTED") \in R
  BY <1>1, <1>2, OnIsType
<1>7. loginErrors \in Seq(R) /\ Len(loginErrors) <= 5
  <2>. HIDE DEF R
  <2>. QED
    BY <1>3, <1>4, <1>5, <1>6, FewRules DEF loginErrors
<1>. QED
  BY <1>7 DEF RegistryOf

(* The rules of refreshErrors lead to answers that TokenRefreshPost has. *)
LEMMA RegistryTokenRefreshPost ==
    /\ RegistryOf["TokenRefreshPost"] \in Seq(Rules("TokenRefreshPost"))
    /\ Len(RegistryOf["TokenRefreshPost"]) <= 5
<1>. DEFINE R == Rules("TokenRefreshPost")
<1>1. /\ {"ErrRefreshTokenNotFound", "ErrRefreshTokenInvalid",
          "ErrRefreshTokenReuseDetected"}
            \subseteq Sentinels
      /\ {"REFRESH_TOKEN_NOT_FOUND", "REFRESH_TOKEN_INVALID",
          "REFRESH_TOKEN_REUSE_DETECTED"}
            \subseteq ErrorResponseErrorCode
  BY DEF Sentinels, ErrorResponseErrorCode
<1>2. {"Unauthorized"} \subseteq ErrorTypes("TokenRefreshPost")
  BY DEF ErrorTypes, encodeResponse, encodeTokenRefreshPostResponse
<1>3. OnIs("ErrRefreshTokenNotFound", "Unauthorized", "REFRESH_TOKEN_NOT_FOUND") \in R
  BY <1>1, <1>2, OnIsType
<1>4. OnIs("ErrRefreshTokenInvalid", "Unauthorized", "REFRESH_TOKEN_INVALID") \in R
  BY <1>1, <1>2, OnIsType
<1>5. OnIs("ErrRefreshTokenReuseDetected", "Unauthorized", "REFRESH_TOKEN_REUSE_DETECTED") \in R
  BY <1>1, <1>2, OnIsType
<1>6. refreshErrors \in Seq(R) /\ Len(refreshErrors) <= 5
  <2>. HIDE DEF R
  <2>. QED
    BY <1>3, <1>4, <1>5, FewRules DEF refreshErrors
<1>. QED
  BY <1>6 DEF RegistryOf

(* The rules of revokeSessionErrors lead to answers that SessionsSessionIdDelete has. *)
LEMMA RegistrySessionsSessionIdDelete ==
    /\ RegistryOf["SessionsSessionIdDelete"] \in Seq(Rules("SessionsSessionIdDelete"))
    /\ Len(RegistryOf["SessionsSessionIdDelete"]) <= 5
<1>. DEFINE R == Rules("SessionsSessionIdDelete")
<1>1. /\ {"ErrSessionNotFound", "ErrSessionForbidden"}
            \subseteq Sentinels
      /\ {"SESSION_NOT_FOUND", "SESSION_FORBIDDEN"}
            \subseteq ErrorResponseErrorCode
  BY DEF Sentinels, ErrorResponseErrorCode
<1>2. {"NotFound", "Forbidden"} \subseteq ErrorTypes("SessionsSessionIdDelete")
  BY DEF ErrorTypes, encodeResponse, encodeSessionsSessionIdDeleteResponse
<1>3. OnIs("ErrSessionNotFound", "NotFound", "SESSION_NOT_FOUND") \in R
  BY <1>1, <1>2, OnIsType
<1>4. OnIs("ErrSessionForbidden", "Forbidden", "SESSION_FORBIDDEN") \in R
  BY <1>1, <1>2, OnIsType
<1>5. revokeSessionErrors \in Seq(R) /\ Len(revokeSessionErrors) <= 5
  <2>. HIDE DEF R
  <2>. QED
    BY <1>3, <1>4, FewRules DEF revokeSessionErrors
<1>. QED
  BY <1>5 DEF RegistryOf

(* Two operations have no rules.                                           *)
LEMMA RegistryEmpty ==
    /\ RegistryOf["LoginBeginPost"] = << >>
    /\ RegistryOf["RevokeChainPost"] = << >>
  BY DEF RegistryOf, loginBeginErrors, revokeChainErrors

(* The registry of an operation is one of them.                            *)
LEMMA RegistryRules ==
    ASSUME NEW op \in Operations
    PROVE  RegistryOf[op] \in Seq(Rules(op)) /\ Len(RegistryOf[op]) <= 5
<1>1. op \in {"AuthVerifyGet", "InvitesPost", "SessionsSessionIdDelete",
              "RevokeChainPost", "LoginBeginPost", "LoginPost",
              "RegistrationBeginPost", "RegistrationCompletePost", "TokenRefreshPost"}
  BY DEF Operations, RolesFor
<1>2. CASE op \in {"LoginBeginPost", "RevokeChainPost"}
  <2>1. RegistryOf[op] = << >>
    BY <1>2, RegistryEmpty
  <2>. QED
    BY <2>1
<1>3. CASE op \in {"AuthVerifyGet", "InvitesPost", "SessionsSessionIdDelete"}
  BY <1>3, RegistryAuthVerifyGet, RegistryInvitesPost, RegistrySessionsSessionIdDelete
<1>4. CASE op \in {"LoginPost", "TokenRefreshPost"}
  BY <1>4, RegistryLoginPost, RegistryTokenRefreshPost
<1>5. CASE op \in {"RegistrationBeginPost", "RegistrationCompletePost"}
  BY <1>5, RegistryRegistrationBeginPost, RegistryRegistrationCompletePost
<1>. QED
  BY <1>1, <1>2, <1>3, <1>4, <1>5

(* Every operation has an answer for an error that no rule names.          *)
LEMMA DefaultType ==
    ASSUME NEW op \in Operations
    PROVE  /\ Answered(op, Default(op)) \in ErrorReply
           /\ Answered(op, Default(op)).status = 500
           /\ Explained(op, Answered(op, Default(op)))
<1>. DEFINE type == IF op = "LoginBeginPost" THEN "ErrorResponse" ELSE "InternalServerError"
<1>1. type \in DOMAIN encodeResponse[op] /\ encodeResponse[op][type] = 500
  BY DEF Operations, RolesFor, encodeResponse, encodeAuthVerifyGetResponse,
         encodeInvitesPostResponse, encodeSessionsSessionIdDeleteResponse,
         encodeRevokeChainPostResponse, encodeLoginBeginPostResponse,
         encodeLoginPostResponse, encodeRegistrationBeginPostResponse,
         encodeRegistrationCompletePostResponse, encodeTokenRefreshPostResponse
<1>2. type \in ErrorTypes(op)
  BY <1>1 DEF ErrorTypes
<1>3. "INTERNAL_ERROR" \in ErrorResponseErrorCode
  BY DEF ErrorResponseErrorCode
<1>4. Default(op) = OnIs("none", type, "INTERNAL_ERROR")
  BY DEF Default
<1>. QED
  BY <1>1, <1>2, <1>3, <1>4, AnsweredType DEF Answered, Encoded, Reply, OnIs, Explained

(* Some position among five is the first.                                  *)
LEMMA LeastOfFew ==
    ASSUME NEW m, m \subseteq 1..5, m # {}
    PROVE  \E k \in m : \A l \in m : k <= l
<1>1. PICK n \in m : TRUE
  OBVIOUS
<1>. QED
  BY <1>1

(* Resolve answers with a rule that the error matches, or with the default.*)
LEMMA ResolveAnswers ==
    ASSUME NEW op \in Operations, NEW err
    PROVE  /\ Answered(op, Resolve(op, err)) \in ErrorReply
           /\ Explained(op, Answered(op, Resolve(op, err)))
           /\ \/ Answered(op, Resolve(op, err)).status = 500
              \/ \E k \in DOMAIN RegistryOf[op] :
                    /\ RegistryOf[op][k].target \in err
                    /\ Resolve(op, err) = RegistryOf[op][k]
<1>. DEFINE rules == RegistryOf[op]
            m     == Matching(rules, err)
<1>1. CASE m = {}
  <2>1. Resolve(op, err) = Default(op)
    BY <1>1 DEF Resolve
  <2>. QED
    BY <2>1, DefaultType
<1>2. CASE m # {}
  <2>1. m \subseteq 1..5 /\ m \subseteq DOMAIN rules
    BY RegistryRules DEF Matching
  <2>2. PICK k \in m : k = CHOOSE n \in m : \A l \in m : n <= l
    BY <1>2, <2>1, LeastOfFew
  <2>3. Resolve(op, err) = rules[k]
    BY <1>2, <2>2 DEF Resolve
  <2>4. k \in DOMAIN rules /\ rules[k].target \in err
    BY DEF Matching
  <2>5. rules[k] \in Rules(op)
    BY <2>4, RegistryRules
  <2>6. Answered(op, rules[k]) \in ErrorReply /\ Explained(op, Answered(op, rules[k]))
    <3>1. rules[k].type \in ErrorTypes(op) /\ rules[k].code \in ErrorResponseErrorCode
      BY <2>5 DEF Rules
    <3>2. Explained(op, Answered(op, rules[k]))
      BY <3>1 DEF Explained, Answered
    <3>. QED
      BY <2>5, <3>1, <3>2, AnsweredType, RuleParts
  <2>. QED
    BY <2>3, <2>4, <2>6
<1>. QED
  BY <1>1, <1>2

-----------------------------------------------------------------------------
(* Types and answers.                                                      *)

(* The types hold of a request that begins.                                *)
LEMMA TypeInit == Init => TypeOK
<1>. SUFFICES ASSUME Init PROVE TypeOK
  OBVIOUS
<1>1. Base
  BY CoreInit DEF Core
<1>2. ctx \in [kind : {"none"}, value : {None}]
  BY DEF Init, NothingInContext
<1>3. answer \in [status : Nat, type : Types, code : Codes]
  BY DEF Init, NoAnswer, Reply, Codes, Types
<1>4. outcome \in [kind : {"none", "ok", "error", "panic"}, err : SUBSET Sentinels]
  BY DEF Init, Unknown
<1>. QED
  BY <1>1, <1>2, <1>3, <1>4 DEF Init, Base, TypeOK

(* What a handler may answer with.                                         *)
Outcome == [kind : {"ok", "error", "panic"}, err : SUBSET Sentinels]

(* What use cases end in.                                                  *)
LEMMA OutcomeType ==
    /\ AnyOutcome \subseteq Outcome
    /\ {Succeeded} \subseteq Outcome
<1>1. Succeeded \in Outcome /\ Panicked \in Outcome
  BY DEF Succeeded, Panicked, Outcome
<1>2. \A e \in Errors : Failed(e) \in Outcome
  BY ConstantsAssumption DEF Failed, Outcome
<1>. QED
  BY <1>1, <1>2 DEF AnyOutcome

AnAnswer == [status : Nat, type : Types, code : Codes]

(* The type and the status of the success of each operation.               *)
LEMMA SuccessType ==
    /\ \A op \in {"AuthVerifyGet", "RevokeChainPost", "SessionsSessionIdDelete"} :
          /\ "NoContent" \in DOMAIN encodeResponse[op]
          /\ encodeResponse[op]["NoContent"] \in 200..204
    /\ \A op \in {"RegistrationCompletePost", "TokenRefreshPost"} :
          /\ "TokenPair" \in DOMAIN encodeResponse[op]
          /\ encodeResponse[op]["TokenPair"] \in 200..204
    /\ "Invite" \in DOMAIN encodeResponse["InvitesPost"]
    /\ encodeResponse["InvitesPost"]["Invite"] \in 200..204
    /\ "LoginBeginPostOK" \in DOMAIN encodeResponse["LoginBeginPost"]
    /\ encodeResponse["LoginBeginPost"]["LoginBeginPostOK"] \in 200..204
    /\ "LoginPostOK" \in DOMAIN encodeResponse["LoginPost"]
    /\ encodeResponse["LoginPost"]["LoginPostOK"] \in 200..204
    /\ "RegistrationBeginPostOK" \in DOMAIN encodeResponse["RegistrationBeginPost"]
    /\ encodeResponse["RegistrationBeginPost"]["RegistrationBeginPostOK"] \in 200..204
  BY DEF encodeResponse, encodeAuthVerifyGetResponse,
         encodeInvitesPostResponse, encodeSessionsSessionIdDeleteResponse,
         encodeRevokeChainPostResponse, encodeLoginBeginPostResponse,
         encodeLoginPostResponse, encodeRegistrationBeginPostResponse,
         encodeRegistrationCompletePostResponse, encodeTokenRefreshPostResponse

Successes ==
    {type \in DOMAIN encodeResponse[req.op] : encodeResponse[req.op][type] \in 200..204}

(* Every handler acts with a type of success or turns away.                *)
LEMMA HandleActs ==
    ASSUME Core, TypeOK, Handle
    PROVE  \/ \E u \in Users \cup {None}, a \in Addrs \cup {None},
                type \in Successes, outcomes \in SUBSET Outcome :
                   Act(u, a, type, outcomes)
           \/ \E a \in ErrorReply : Refuse(a) /\ Explained(req.op, a)
<1>. USE OutcomeType, SuccessType
<1>1. req.op \in Operations
  BY DEF Core, IInv, Handle, At, AuthVerifyGet, RevokeChainPost, InvitesPost,
         LoginBeginPost, LoginPost, RegistrationBeginPost,
         RegistrationCompletePost, SessionsSessionIdDelete, TokenRefreshPost
<1>2. \A sentinel :
         RefuseWith(sentinel) => \E a \in ErrorReply : Refuse(a) /\ Explained(req.op, a)
  BY <1>1, ResolveAnswers DEF RefuseWith
<1>3. HasUserID => ctx.value \in Users
  BY DEF TypeOK, HasUserID
<1>4. HasClientIP => ctx.value \in Addrs
  BY DEF TypeOK, HasClientIP
<1>5. CASE AuthVerifyGet \/ SessionsSessionIdDelete
  <2>1. "NoContent" \in Successes
    BY <1>5 DEF AuthVerifyGet, SessionsSessionIdDelete, At, Successes
  <2>. QED
    BY <1>2, <1>3, <1>5, <2>1 DEF AuthVerifyGet, SessionsSessionIdDelete
<1>6. CASE InvitesPost
  <2>1. "Invite" \in Successes
    BY <1>6 DEF InvitesPost, At, Successes
  <2>. QED
    BY <1>2, <1>3, <1>6, <2>1 DEF InvitesPost
<1>7. CASE LoginPost
  <2>1. "LoginPostOK" \in Successes
    BY <1>7 DEF LoginPost, At, Successes
  <2>. QED
    BY <1>2, <1>4, <1>7, <2>1 DEF LoginPost
<1>8. CASE RegistrationCompletePost
  <2>1. "TokenPair" \in Successes
    BY <1>8 DEF RegistrationCompletePost, At, Successes
  <2>. QED
    BY <1>2, <1>4, <1>8, <2>1 DEF RegistrationCompletePost
<1>9. CASE RevokeChainPost
  <2>1. "NoContent" \in Successes
    BY <1>9 DEF RevokeChainPost, At, Successes
  <2>. QED
    BY <1>9, <2>1 DEF RevokeChainPost
<1>10. CASE LoginBeginPost
  <2>1. "LoginBeginPostOK" \in Successes
    BY <1>10 DEF LoginBeginPost, At, Successes
  <2>. QED
    BY <1>10, <2>1 DEF LoginBeginPost
<1>11. CASE RegistrationBeginPost
  <2>1. "RegistrationBeginPostOK" \in Successes
    BY <1>11 DEF RegistrationBeginPost, At, Successes
  <2>. QED
    BY <1>11, <2>1 DEF RegistrationBeginPost
<1>12. CASE TokenRefreshPost
  <2>1. "TokenPair" \in Successes
    BY <1>12 DEF TokenRefreshPost, At, Successes
  <2>. QED
    BY <1>12, <2>1 DEF TokenRefreshPost
<1>. QED
  BY <1>5, <1>6, <1>7, <1>8, <1>9, <1>10, <1>11, <1>12 DEF Handle

(* A reply has the parts it is made of.                                    *)
LEMMA ReplyType ==
    ASSUME NEW status \in Nat, NEW type \in Types, NEW code \in Codes
    PROVE  /\ Reply(status, type, code) \in AnAnswer
           /\ Reply(status, type, code).status = status
  BY DEF Reply, AnAnswer

(* The answer of a handler that acted.                                     *)
LEMMA ActAnswers ==
    ASSUME Core, req.op \in Operations, NEW u, NEW a, NEW type \in Successes,
           NEW outcomes \in SUBSET Outcome, Act(u, a, type, outcomes)
    PROVE  /\ outcome' \in Outcome
           /\ answer' \in AnAnswer
           /\ AnswerTellsOutcome'
<1>1. PICK o \in outcomes :
        /\ acted' = TRUE /\ outcome' = o /\ pc' = "done" /\ req' = req
        /\ answer' = CASE o.kind = "ok"    -> Encoded(req.op, type, "none")
                       [] o.kind = "error" -> Answered(req.op, Resolve(req.op, o.err))
                       [] o.kind = "panic" -> Reply(500, "none", "none")
  BY DEF Act
<1>2. req.op # "options"
  BY DEF Operations, RolesFor
<1>3. outcome' = o /\ o \in Outcome /\ req'.op # "options"
  BY <1>1, <1>2
<1>4. "none" \in Codes /\ "none" \in Types
  BY DEF Codes, Types
<1>5. CASE o.kind = "ok"
  <2>1. answer' = Reply(encodeResponse[req.op][type], type, "none")
    BY <1>1, <1>5 DEF Encoded
  <2>2. encodeResponse[req.op][type] \in 200..204 /\ type \in Types
    BY TypeOfOperation DEF Successes
  <2>3. answer'.status < 400 /\ answer' \in AnAnswer
    BY <1>4, <2>1, <2>2, ReplyType
  <2>4. outcome'.kind = "ok"
    BY <1>3, <1>5
  <2>5. AnswerTellsOutcome'
    BY <2>3, <2>4 DEF AnswerTellsOutcome
  <2>. QED
    BY <1>3, <2>3, <2>5
<1>6. CASE o.kind = "panic"
  <2>1. answer' = Reply(500, "none", "none")
    BY <1>1, <1>6
  <2>2. answer'.status = 500 /\ answer' \in AnAnswer
    BY <1>4, <2>1, ReplyType
  <2>3. outcome'.kind # "ok"
    BY <1>3, <1>6
  <2>4. AnswerTellsOutcome'
    BY <1>3, <2>2, <2>3 DEF AnswerTellsOutcome
  <2>. QED
    BY <1>3, <2>2, <2>4
<1>7. CASE o.kind = "error"
  <2>1. answer' = Answered(req.op, Resolve(req.op, o.err))
    BY <1>1, <1>7
  <2>2. answer' \in ErrorReply
    BY <2>1, ResolveAnswers
  <2>3. \/ answer'.status = 500
        \/ \E k \in DOMAIN RegistryOf[req.op] :
              /\ RegistryOf[req.op][k].target \in o.err
              /\ answer' = Answered(req.op, RegistryOf[req.op][k])
    BY <2>1, ResolveAnswers
  <2>4. answer'.status \in 400..500 /\ answer' \in AnAnswer
    BY <2>2 DEF ErrorReply, AnAnswer, Codes
  <2>5. AnswerTellsOutcome'
    BY <1>1, <1>2, <1>7, <2>3, <2>4 DEF AnswerTellsOutcome
  <2>. QED
    BY <1>1, <2>4, <2>5
<1>. QED
  BY <1>3, <1>5, <1>6, <1>7 DEF Outcome

(* Who is turned away is told of no success.                               *)
LEMMA RefuseAnswers ==
    ASSUME NotYet, req.op \in Operations, NEW a \in ErrorReply, Refuse(a)
    PROVE  AnswerTellsOutcome' /\ answer' \in AnAnswer
<1>1. answer' \in ErrorReply /\ ~acted' /\ outcome' = Unknown /\ req' = req
  BY DEF Refuse, NotYet, history
<1>2. answer'.status \in 400..500 /\ outcome'.kind = "none"
  BY <1>1 DEF ErrorReply, Unknown
<1>3. req.op # "options"
  BY DEF Operations, RolesFor
<1>. QED
  BY <1>1, <1>2, <1>3 DEF AnswerTellsOutcome, ErrorReply, AnAnswer, Codes

(* Who leads nowhere is told so, or is told the methods.                   *)
LEMMA TurnAwayAnswers ==
    ASSUME NotYet, TurnAway
    PROVE  AnswerTellsOutcome' /\ answer' \in AnAnswer
<1>1. /\ req.op \in Unrouted /\ answer' = NotServed[req.op]
      /\ ~acted' /\ outcome' = Unknown /\ req' = req
  BY DEF TurnAway, Refuse, NotYet, history
<1>2. "none" \in Codes /\ "none" \in Types
  BY DEF Codes, Types
<1>3. \E status \in {204, 404, 405} :
        /\ answer' = Reply(status, "none", "none")
        /\ status = 204 <=> req.op = "options"
  BY <1>1 DEF NotServed, Unrouted
<1>4. answer' \in AnAnswer /\ (answer'.status < 400 <=> req.op = "options")
  BY <1>2, <1>3, ReplyType
<1>. QED
  BY <1>1, <1>4 DEF AnswerTellsOutcome, Unknown

(* The answers of newErrorHandler are answers to errors.                   *)
LEMMA FrontReplies ==
    {ErrorAnswer.security, ErrorAnswer.forbidden, ErrorAnswer.oversize, ErrorAnswer.bad}
        \subseteq ErrorReply
<1>1. {"UNAUTHORIZED", "FORBIDDEN", "VALIDATION_ERROR"} \subseteq ErrorResponseErrorCode
  BY DEF ErrorResponseErrorCode
<1>2. "ErrorResponse" \in Types
  <2>1. "LoginBeginPost" \in Operations
    BY DEF Operations, RolesFor
  <2>2. "ErrorResponse" \in DOMAIN encodeResponse["LoginBeginPost"]
    BY DEF encodeResponse, encodeLoginBeginPostResponse
  <2>. QED
    BY <2>1, <2>2, TypeOfOperation
<1>3. \A status \in 400..500, code \in ErrorResponseErrorCode :
         writeError(status, code) \in ErrorReply
  BY <1>2 DEF writeError, Reply, ErrorReply
<1>. QED
  BY <1>1, <1>3 DEF ErrorAnswer

(* A step answers as it should, or leaves the answer open.                 *)
LEMMA AnswerStep ==
    ASSUME Core, TypeOK, Step
    PROVE  /\ answer' \in AnAnswer
           /\ outcome' \in Outcome \/ outcome' = outcome
           /\ AnswerTellsOutcome'
<1>1. CASE ExtractClientIP \/ ScanPart \/ ScanEnds
  <2>1. pc' # "done" /\ answer' = answer /\ outcome' = outcome
    BY <1>1 DEF ExtractClientIP, ScanPart, ScanEnds, Resolved, Following, history
  <2>. QED
    BY <2>1 DEF AnswerTellsOutcome, TypeOK, AnAnswer
<1>2. ASSUME NEW a \in ErrorReply, Refuse(a), pc # "done", req.op \in Operations
      PROVE  /\ answer' \in AnAnswer
             /\ outcome' = outcome
             /\ AnswerTellsOutcome'
  BY <1>2, RefuseAnswers DEF Core, IInv, Refuse, history
<1>3. ASSUME Pass, pc \in {"security", "decode"}
      PROVE  pc' # "done" /\ answer' = answer /\ outcome' = outcome
  BY <1>3 DEF Pass, Following, history
<1>4. CASE HandleBearerAuth
  <2>1. /\ pc = "security" /\ req.op \in Operations
        /\ (Pass \/ \E a \in ErrorReply : Refuse(a))
    BY <1>4, FrontReplies DEF HandleBearerAuth
  <2>. QED
    BY <1>2, <1>3, <2>1 DEF AnswerTellsOutcome, TypeOK, AnAnswer
<1>5. CASE DecodeInputs
  <2>1. /\ pc = "decode" /\ req.op \in Operations
        /\ (Pass \/ \E a \in ErrorReply : Refuse(a))
    BY <1>5, FrontReplies DEF DecodeInputs, Core, IInv
  <2>. QED
    BY <1>2, <1>3, <2>1 DEF AnswerTellsOutcome, TypeOK, AnAnswer
<1>6. CASE Handle
  <2>1. pc # "done" /\ req.op \in Operations
    BY <1>6 DEF Core, IInv, Handle, At, AuthVerifyGet, RevokeChainPost, InvitesPost,
         LoginBeginPost, LoginPost, RegistrationBeginPost,
         RegistrationCompletePost, SessionsSessionIdDelete, TokenRefreshPost
  <2>. QED
    BY <1>2, <1>6, <2>1, HandleActs, ActAnswers
<1>7. CASE TurnAway
  <2>1. pc # "done" /\ outcome' = outcome
    BY <1>7 DEF TurnAway, Refuse, history
  <2>. QED
    BY <1>7, <2>1, TurnAwayAnswers DEF Core, IInv
<1>. QED
  BY <1>1, <1>4, <1>5, <1>6, <1>7 DEF Step

(* What the context and the history hold.                                  *)
LEMMA ContextStep ==
    ASSUME Core, TypeOK, Step
    PROVE  /\ ctx' \in [kind : {"none"}, value : {None}]
                       \cup [kind : {"user"}, value : Users]
                       \cup [kind : {"ip"}, value : Addrs]
           /\ acted' \in BOOLEAN
           /\ asUser' \in Users \cup {None}
           /\ fromIP' \in Addrs \cup {None}
<1>. USE RequestType, ConstantsAssumption
<1>1. ASSUME NEW a \in Addrs, Resolved(a)
      PROVE  /\ ctx' \in [kind : {"ip"}, value : Addrs]
             /\ UNCHANGED history
  BY <1>1 DEF Resolved, WithClientIP
<1>2. CASE ExtractClientIP
  BY <1>1, <1>2 DEF ExtractClientIP, TypeOK, history
<1>3. CASE ScanPart
  <2>1. \/ \E a \in Addrs : Resolved(a)
        \/ UNCHANGED <<ctx, history>>
    BY <1>3 DEF ScanPart, AddressIn, Alone
  <2>. QED
    BY <1>1, <2>1 DEF TypeOK, history
<1>4. CASE ScanEnds
  <2>1. pc = "scan" => req.peer \in Addrs
    BY DEF Core, IInv, Scanning
  <2>. QED
    BY <1>1, <1>4, <2>1 DEF ScanEnds, TypeOK, history
<1>5. CASE HandleBearerAuth
  <2>1. req.token.user \in Users
    BY DEF Core, Request, Token
  <2>2. /\ UNCHANGED history
        /\ ctx' = ctx \/ ctx' = [kind |-> "user", value |-> req.token.user]
    BY <1>5 DEF HandleBearerAuth, Refuse, Pass, WithUserID
  <2>. QED
    BY <2>1, <2>2 DEF TypeOK, history
<1>6. CASE DecodeInputs
  BY <1>6 DEF DecodeInputs, Refuse, Pass, TypeOK, history
<1>7. CASE Handle
  <2>1. \/ \E a \in ErrorReply : Refuse(a)
        \/ \E u \in Users \cup {None}, a \in Addrs \cup {None},
              type \in Successes, outcomes \in SUBSET Outcome :
                 Act(u, a, type, outcomes)
    BY <1>7, HandleActs
  <2>. QED
    BY <2>1 DEF Act, Refuse, TypeOK, history
<1>8. CASE TurnAway
  BY <1>8 DEF TurnAway, Refuse, TypeOK, history
<1>. QED
  BY <1>2, <1>3, <1>4, <1>5, <1>6, <1>7, <1>8 DEF Step

(* Types and answers are kept by every step.                               *)
LEMMA AnswerNext ==
    Core /\ TypeOK /\ AnswerTellsOutcome /\ [Next]_vars => TypeOK' /\ AnswerTellsOutcome'
<1>. SUFFICES ASSUME Core, TypeOK, AnswerTellsOutcome, [Next]_vars
              PROVE  TypeOK' /\ AnswerTellsOutcome'
  OBVIOUS
<1>1. CASE Step
  <2>1. Base'
    BY <1>1, CoreNext DEF Core, Next
  <2>2. outcome' \in [kind : {"none", "ok", "error", "panic"}, err : SUBSET Sentinels]
    BY <1>1, AnswerStep DEF TypeOK, Outcome
  <2>. QED
    BY <1>1, <2>1, <2>2, AnswerStep, ContextStep DEF TypeOK, Base, AnAnswer
<1>2. CASE UNCHANGED vars
  BY <1>2 DEF TypeOK, AnswerTellsOutcome, vars, history, text
<1>. QED
  BY <1>1, <1>2 DEF Next, Finished

(* Types and answers together, by induction on the steps.                  *)
THEOREM AnswerInvariance == Spec => [](TypeOK /\ AnswerTellsOutcome)
<1>1. Init => AnswerTellsOutcome
  BY DEF Init, AnswerTellsOutcome, Following
<1>. QED
  BY <1>1, TypeInit, AnswerNext, Invariance, PTL DEF Spec

(* Every variable keeps its type: every answer has a status and a code     *)
(* that the API knows.                                                     *)
THEOREM TypeCorrect == Spec => []TypeOK
<1>1. TypeOK /\ AnswerTellsOutcome => TypeOK
  OBVIOUS
<1>. QED
  BY <1>1, AnswerInvariance, PTL

(* A success is told just if there was one, and a client is blamed only    *)
(* with a cause that the error wraps (Registry.Resolve).                   *)
THEOREM AnswersCorrect == Spec => []AnswerTellsOutcome
<1>1. TypeOK /\ AnswerTellsOutcome => AnswerTellsOutcome
  OBVIOUS
<1>. QED
  BY <1>1, AnswerInvariance, PTL

=============================================================================
