-------------------------------- MODULE Logins --------------------------------
(***************************************************************************)
(* Logins with a passkey: the table credentials and the sessions a login   *)
(* opens, with several requests to POST /login at work at the same time.   *)
(*                                                                         *)
(* An authenticator signs every assertion with a counter that grows, or    *)
(* always with 0 if it keeps none.  A counter that does not grow betrays a *)
(* copy of the authenticator: the credential and every session of its user *)
(* are then revoked.  The counter is compared twice, with two reads of the *)
(* same row: when the assertion is validated, outside of any transaction,  *)
(* and in the transaction that stores it.  Neither read locks the row.     *)
(*                                                                         *)
(* The challenge is a token the server does not store, so the same         *)
(* assertion can come back as often as it is sent.  Sessions are not       *)
(* rotated, nor do they expire, in this module (see Sessions).             *)
(***************************************************************************)
EXTENDS Naturals, FiniteSets

CONSTANTS
    Creds,       \* ids of credentials
    Users,       \* ids of users
    Owner,       \* Owner[c]: the user of credential c
    InitCount,   \* InitCount[c]: the counter stored for c after earlier traffic
    Assertions,  \* the assertions that clients send
    Requests,    \* the requests the server receives, each handled once
    OldSessions, \* the sessions that were opened by earlier traffic
    OldOwner,    \* OldOwner[s]: the user of session s
    MaxInFlight, \* bound: requests handled at the same time
    None         \* a request that was sent no assertion

ASSUME ConstantsAssumption ==
    /\ Owner \in [Creds -> Users]
    /\ InitCount \in [Creds -> Nat]
    /\ Assertions \subseteq [cred : Creds, count : Nat]
    /\ OldOwner \in [OldSessions -> Users]
    /\ OldSessions \cap Requests = {}
    /\ MaxInFlight \in Nat
    /\ None \notin Assertions

Credential == [count : Nat, revoked : BOOLEAN]
Result     == [count : Nat, warning : BOOLEAN]   \* AuthenticationResult

(* The session that a login opens is named after its request.              *)
Sessions == OldSessions \cup Requests

VARIABLES
    credentials, \* the committed rows of credentials
    sessions,    \* the committed rows of refresh_tokens: what became of each
    pc,          \* where each request is
    given,       \* the assertion it was sent
    result,      \* what the authenticator made of it
    cred,        \* the credential in its memory
    listed,      \* the sessions it listed, to revoke them
    verdict,     \* what it answers
    met          \* history: have requests with this credential overlapped?

tables == <<credentials, sessions>>
vars   == <<tables, pc, given, result, cred, listed, verdict, met>>

Saved    == {"issue", "list", "revoke", "commit"} \* the credential is written
InTx     == {"lookup", "save", "rollback"} \cup Saved
Working  == {"validate"} \cup InTx
Verdicts == {"none", "ok", "clone", "invalid", "revoked", "error"}

Goto(r, label) == pc' = [pc EXCEPT ![r] = label]

InFlight == {r \in Requests : pc[r] \in Working}

CredOf(r) == given[r].cred

OwnerOf(s) == IF s \in OldSessions THEN OldOwner[s] ELSE Owner[CredOf(s)]

LiveSessions(u) == {s \in Sessions : sessions[s] = "live" /\ OwnerOf(s) = u}

-----------------------------------------------------------------------------
(* The two comparisons.                                                    *)

\* Mutants: authenticators that keep no counter are suspected, or a warning
\* comes with the step back instead of the counter.
WarnWithoutCounter(stored, n) ==
    [count |-> IF n <= stored THEN stored ELSE n, warning |-> n <= stored]
StepBack(stored, n) ==
    LET warned == n <= stored /\ (n # 0 \/ stored # 0)
    IN  [count |-> IF warned THEN n - stored ELSE n, warning |-> warned]

(* UpdateCounter of the WebAuthn library: on a warning the stored counter  *)
(* is kept.                                                                *)
UpdateCounter(stored, n) ==
    LET warned == n <= stored /\ (n # 0 \/ stored # 0)
    IN  [count |-> IF warned THEN stored ELSE n, warning |-> warned]

Regression(stored, n) == n <= stored /\ stored # 0

SetSignCount(row, n) ==
    IF Regression(row.count, n) THEN row ELSE [row EXCEPT !.count = n]

Revoked(row) == [row EXCEPT !.revoked = TRUE]

\* Mutant: an equal counter is let through.
CloneUnlessLess(r) ==
    result[r].warning /\ result[r].count > given[r].count

IsClone(r) ==
    result[r].warning \/ Regression(credentials[CredOf(r)].count, result[r].count)

-----------------------------------------------------------------------------
(* Transactions.  From its Save until its end a request has the row of its *)
(* credential to itself.                                                   *)

Free(r, c) == \A q \in Requests \ {r} : ~(pc[q] \in Saved /\ CredOf(q) = c)

Revoking(r) == cred[r].revoked

(* Sessions a request has overwritten and not committed.                   *)
Overwritten(r) == IF pc[r] = "commit" /\ Revoking(r) THEN listed[r] ELSE {}

Finish(r, answer) ==
    /\ Goto(r, "done")
    /\ verdict' = [verdict EXCEPT ![r] = answer]
    /\ UNCHANGED <<given, result, cred, listed, met>>

Install(r) ==
    /\ credentials' = [credentials EXCEPT ![CredOf(r)] = cred[r]]
    /\ sessions' = [s \in Sessions |->
          IF Revoking(r) THEN (IF s \in listed[r] THEN "revoked" ELSE sessions[s])
                         ELSE (IF s = r THEN "live" ELSE sessions[s])]

(* cloneDetected turns into an error only after the commit.                *)
Commit(r) ==
    /\ pc[r] = "commit"
    /\ Install(r)
    /\ Finish(r, IF Revoking(r) THEN "clone" ELSE "ok")

(* The server commits, but the reply to COMMIT is lost.                    *)
CommitUnseen(r) ==
    /\ pc[r] = "commit"
    /\ Install(r)
    /\ Finish(r, "error")

Rollback(r) ==
    /\ pc[r] = "rollback"
    /\ Finish(r, verdict[r])
    /\ UNCHANGED tables

\* Mutant: cloneDetected is looked at before the error of the transaction.
FailAsClone(r) ==
    /\ pc[r] \in Working
    /\ Finish(r, IF pc[r] \in Saved /\ Revoking(r) THEN "clone" ELSE "error")
    /\ UNCHANGED tables

(* A statement or the commit fails, or the client goes away.               *)
Fail(r) ==
    /\ pc[r] \in Working
    /\ Finish(r, "error")
    /\ UNCHANGED tables

-----------------------------------------------------------------------------
(* POST /login.                                                            *)

StartLogin(r) ==
    \E a \in Assertions :
        /\ pc[r] = "idle"
        /\ Cardinality(InFlight) < MaxInFlight
        /\ given' = [given EXCEPT ![r] = a]
        /\ met'   = [met EXCEPT ![a.cred] =
                         @ \/ \E q \in InFlight : CredOf(q) = a.cred]
        /\ Goto(r, "validate")
        /\ UNCHANGED <<tables, result, cred, listed, verdict>>

(* The challenge has expired, or the response is not what it asks for.     *)
Reject(r) ==
    /\ pc[r] = "validate"
    /\ Finish(r, "invalid")
    /\ UNCHANGED tables

(* Authenticator.Finish reads the credentials of the user, revoked or not. *)
Validate(r) ==
    /\ pc[r] = "validate"
    /\ result' = [result EXCEPT ![r] =
                     UpdateCounter(credentials[CredOf(r)].count, given[r].count)]
    /\ Goto(r, "lookup")
    /\ UNCHANGED <<tables, given, cred, listed, verdict, met>>

(* findCredential reads the row again.                                     *)
LookupRevoked(r) ==
    /\ pc[r] = "lookup"
    /\ credentials[CredOf(r)].revoked
    /\ verdict' = [verdict EXCEPT ![r] = "revoked"]
    /\ Goto(r, "rollback")
    /\ UNCHANGED <<tables, given, result, cred, listed, met>>

Lookup(r, entity) ==
    /\ cred' = [cred EXCEPT ![r] = entity]
    /\ Goto(r, "save")
    /\ UNCHANGED <<tables, given, result, listed, verdict, met>>

(* The counter is set before the warning is looked at.                     *)
LookupClone(r) ==
    LET row == credentials[CredOf(r)]
    IN  /\ pc[r] = "lookup"
        /\ ~row.revoked /\ IsClone(r)
        /\ Lookup(r, Revoked(SetSignCount(row, result[r].count)))

\* Mutant: a revoked credential is not turned away.
LookupAny(r) ==
    LET row == credentials[CredOf(r)]
    IN  /\ pc[r] = "lookup"
        /\ ~IsClone(r)
        /\ Lookup(r, SetSignCount([row EXCEPT !.revoked = FALSE], result[r].count))

LookupFresh(r) ==
    LET row == credentials[CredOf(r)]
    IN  /\ pc[r] = "lookup"
        /\ ~row.revoked /\ ~IsClone(r)
        /\ Lookup(r, SetSignCount(row, result[r].count))

\* Mutant: two logins that want one row at a time are never woken.
SaveStuck(r) ==
    /\ pc[r] = "save"
    /\ \A q \in Requests \ {r} : pc[q] = "save" => CredOf(q) # CredOf(r)
    /\ Goto(r, IF Revoking(r) THEN "list" ELSE "issue")
    /\ UNCHANGED <<tables, given, result, cred, listed, verdict, met>>

(* The upsert waits for whoever has written the row, and then overwrites   *)
(* both the counter and the revocation with the ones in memory.            *)
Save(r) ==
    /\ pc[r] = "save"
    /\ Free(r, CredOf(r))
    /\ Goto(r, IF Revoking(r) THEN "list" ELSE "issue")
    /\ UNCHANGED <<tables, given, result, cred, listed, verdict, met>>

(* SessionIssuer.Issue inserts the session under a new id.                 *)
Issue(r) ==
    /\ pc[r] = "issue"
    /\ Goto(r, "commit")
    /\ UNCHANGED <<tables, given, result, cred, listed, verdict, met>>

\* Mutant: only the sessions opened with this credential are listed.
ListOfCredential(r) ==
    /\ pc[r] = "list"
    /\ listed' = [listed EXCEPT ![r] =
                     {s \in LiveSessions(Owner[CredOf(r)]) :
                         s \in Requests /\ CredOf(s) = CredOf(r)}]
    /\ Goto(r, "revoke")
    /\ UNCHANGED <<tables, given, result, cred, verdict, met>>

(* RevokeAllUserSessions joins the transaction.                            *)
ListActive(r) ==
    /\ pc[r] = "list"
    /\ listed' = [listed EXCEPT ![r] = LiveSessions(Owner[CredOf(r)])]
    /\ Goto(r, "revoke")
    /\ UNCHANGED <<tables, given, result, cred, verdict, met>>

(* The batch overwrites every session listed: here all of them at once, as *)
(* soon as no other transaction has written one (Sessions follows the      *)
(* batch row by row).                                                      *)
SaveRevoked(r) ==
    /\ pc[r] = "revoke"
    /\ \A q \in Requests \ {r} : Overwritten(q) \cap listed[r] = {}
    /\ Goto(r, "commit")
    /\ UNCHANGED <<tables, given, result, cred, listed, verdict, met>>

-----------------------------------------------------------------------------
Finished ==
    /\ \A r \in Requests : pc[r] = "done"
    /\ UNCHANGED vars

Init ==
    /\ credentials = [c \in Creds |-> [count |-> InitCount[c], revoked |-> FALSE]]
    /\ sessions = [s \in Sessions |-> IF s \in OldSessions THEN "live" ELSE "none"]
    /\ pc       = [r \in Requests |-> "idle"]
    /\ given    = [r \in Requests |-> None]
    /\ result   = [r \in Requests |-> [count |-> 0, warning |-> FALSE]]
    /\ cred     = [r \in Requests |-> [count |-> 0, revoked |-> FALSE]]
    /\ listed   = [r \in Requests |-> {}]
    /\ verdict  = [r \in Requests |-> "none"]
    /\ met      = [c \in Creds |-> FALSE]

Login(r) == Reject(r) \/ Validate(r) \/ LookupRevoked(r) \/ LookupFresh(r) \/ Issue(r)

Clone(r) == LookupClone(r) \/ ListActive(r) \/ SaveRevoked(r)

(* What a request does once it has begun, if nothing goes wrong.           *)
Proceed(r) == Login(r) \/ Clone(r) \/ Save(r) \/ Commit(r) \/ Rollback(r)

Step(r) == StartLogin(r) \/ Proceed(r) \/ Fail(r) \/ CommitUnseen(r)

Next == (\E r \in Requests : Step(r)) \/ Finished

Spec == Init /\ [][Next]_vars

-----------------------------------------------------------------------------
(* Properties.                                                             *)

TypeOK ==
    /\ credentials \in [Creds -> Credential]
    /\ sessions    \in [Sessions -> {"none", "live", "revoked"}]
    /\ pc          \in [Requests -> {"idle", "done"} \cup Working]
    /\ given       \in [Requests -> Assertions \cup {None}]
    /\ result      \in [Requests -> Result]
    /\ cred        \in [Requests -> Credential]
    /\ listed      \in [Requests -> SUBSET Sessions]
    /\ verdict     \in [Requests -> Verdicts]
    /\ met         \in [Creds -> BOOLEAN]

(* The logins whose transaction is committed, answered or not.             *)
LoggedIn(r) == sessions[r] # "none"

(* However logins overlap, no user is told of a clone without a cause: the *)
(* counter it sent, or a greater one, had been accepted before, from       *)
(* another request or by earlier traffic.  An authenticator that keeps no  *)
(* counter is never suspected (Login.Execute, SetSignCount).               *)
CloneHasCause ==
    \A r \in Requests : verdict[r] = "clone" =>
        \/ given[r].count <= InitCount[CredOf(r)] /\ InitCount[CredOf(r)] # 0
        \/ \E q \in Requests \ {r} :
              /\ LoggedIn(q) /\ CredOf(q) = CredOf(r)
              /\ given[q].count >= given[r].count /\ given[q].count # 0

(* Whoever is told "credential clone suspected, all sessions revoked" is   *)
(* told so by the very commit that revokes the credential and all the      *)
(* sessions that were live when they were listed, never after a rollback;  *)
(* whoever is told of success has a session (Login.Execute returns         *)
(* ErrCredentialCloneSuspected outside of the transaction).                *)
AnswersHold ==
    [][\A r \in Requests : pc[r] # "done" /\ pc'[r] = "done" =>
          /\ verdict'[r] = "ok" => sessions'[r] = "live"
          /\ verdict'[r] = "clone" =>
                /\ credentials'[CredOf(r)].revoked
                /\ \A s \in LiveSessions(Owner[CredOf(r)]) :
                      sessions'[s] = "revoked" \/ s \in Requests]_vars

(* However logins overlap, as long as a credential is revoked its user has *)
(* no session left from before, nor one opened with that credential; those *)
(* opened with another of its credentials may be younger (handleClone,     *)
(* RevokeAllUserSessions.Execute).                                         *)
CloneLeavesNoSession ==
    \A s \in Sessions, c \in Creds :
        credentials[c].revoked /\ sessions[s] = "live" /\ OwnerOf(s) = Owner[c] =>
            s \in Requests /\ CredOf(s) # c

(* A credential that was revoked stays so, although every login saves      *)
(* revoked_at along with the counter (findCredential, SaveCredential).     *)
RevocationSticks ==
    [][\A c \in Creds : credentials[c].revoked => credentials'[c].revoked]_vars

(* The same of a credential none of whose logins ever overlapped, whatever *)
(* those of others do.                                                     *)
LoneRevocationSticks ==
    [][\A c \in Creds :
          credentials[c].revoked => credentials'[c].revoked \/ met[c]]_vars

(* A counter other than 0 opens one session at most, however often its     *)
(* assertion or a copy's comes back (SetSignCount), as long as no two      *)
(* requests with that credential overlap.                                  *)
LoneCountOpensOnce ==
    \A r, q \in Requests :
        LoggedIn(r) /\ LoggedIn(q) /\ given[r] = given[q] /\ given[r].count # 0 =>
            r = q \/ met[CredOf(r)]
=============================================================================
