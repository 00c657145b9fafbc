------------------------------ MODULE Sessions ------------------------------
(***************************************************************************)
(* The refresh sessions of the service: the refresh_tokens table and the   *)
(* request handlers that work on it at the same time.                      *)
(*                                                                         *)
(* Every request runs in one database transaction (a nested                *)
(* RunInTransaction joins the one already open), under READ COMMITTED:     *)
(*   - a SELECT sees the rows committed when it runs;                      *)
(*   - an upsert of an existing row, and SELECT ... FOR UPDATE, wait       *)
(*     while another open transaction has written that row;                *)
(*   - what a transaction wrote becomes visible, all of it, at its commit, *)
(*     and none of it does if it rolls back.                               *)
(* One action is one database statement with the code that runs up to the  *)
(* next one, so that requests interleave between any two statements.       *)
(*                                                                         *)
(* A row keeps what the properties tell apart: the owner, the expiry and   *)
(* whether revoked_at is set.  token_hash is one to one with the id, and   *)
(* the device and the address are copied along with the owner.             *)
(***************************************************************************)
EXTENDS Naturals, FiniteSets

CONSTANTS
    Users,        \* user ids
    Tokens,       \* refresh token (session) ids
    Requests,     \* the requests the server receives, each handled once
    NewID,        \* NewID[r]: the id the generator gives to request r
    InitTable,    \* the table after earlier traffic, when the requests arrive
    Descendants,  \* Descendants[u]: u and everybody invited below u
    RefreshTTL,   \* lifetime of a session from its login
    MaxTime,      \* bound: the clock stops here
    MaxInFlight,  \* bound: requests handled at the same time
    Handlers,     \* bound: the handlers that receive requests
    NoRow,        \* table[s] when row s does not exist
    None          \* an argument a handler does not have

(* "clone" is the request of a login that takes its credential for a clone. *)
AllHandlers == {"login", "clone", "refresh", "revokeSession", "revokeChain"}

(* Those that commit the revocation of every session of some users.        *)
RevokingAll == {"clone", "revokeChain"}

Expiries == 0..(MaxTime + RefreshTTL)
Row      == [user : Users, expires : Expiries, revoked : BOOLEAN]

ASSUME ConstantsAssumption ==
    /\ RefreshTTL \in Nat /\ MaxTime \in Nat /\ MaxInFlight \in Nat
    /\ Handlers \subseteq AllHandlers
    /\ NoRow \notin Row
    /\ None \notin Users \cup Tokens
    /\ Descendants \in [Users -> SUBSET Users]
    /\ InitTable \in [Tokens -> Row \cup {NoRow}]

(* idgen gives every caller an id that is in no row and that no other      *)
(* request has.                                                            *)
ASSUME NewIDAssumption ==
    /\ NewID \in [Requests -> Tokens]
    /\ \A r, q \in Requests : NewID[r] = NewID[q] => r = q
    /\ \A r \in Requests : InitTable[NewID[r]] = NoRow

VARIABLES
    clock,    \* time.Now()
    table,    \* the committed rows of refresh_tokens
    pc,       \* where each request is
    op,       \* its handler
    tok,      \* the token or session id it was given
    who,      \* the user it acts on or for
    now,      \* the time it read
    seen,     \* refresh: the row FindByTokenHash returned
    listed,   \* the rows FindActiveByUserIDs returned
    cur,      \* the row of listed that is being saved
    pend,     \* what its transaction has written and not committed
    verdict,  \* what it answers
    known     \* history: the rows that were committed when it listed

arguments == <<op, tok, who>>
locals    == <<now, seen, listed, cur, known>>
vars      == <<clock, table, pc, op, tok, who, now, seen, listed, cur, pend,
               verdict, known>>

InTx     == {"insert", "lookup", "rotate", "find", "list", "save", "commit",
             "rollback"}
Labels   == {"idle", "done"} \cup InTx
Refusals == {"not_found", "invalid", "reuse", "forbidden"}
Verdicts == {"none", "ok", "clone", "error"} \cup Refusals

NoWrites == [s \in Tokens |-> NoRow]

-----------------------------------------------------------------------------
(* The session entity.                                                     *)

Exists(s)        == table[s] # NoRow
IsValid(row, t)  == ~row.revoked /\ t < row.expires
New(u, t)        == [user |-> u, expires |-> t + RefreshTTL, revoked |-> FALSE]
Revoked(row)     == [row EXCEPT !.revoked = TRUE]
\* Mutants: a lifetime that slides, or that adds up, at every rotation.
RotatedAnew(row) == [user |-> row.user, expires |-> clock + RefreshTTL, revoked |-> FALSE]
RotatedLonger(row) ==
    [user |-> row.user, expires |-> row.expires + RefreshTTL, revoked |-> FALSE]
Rotated(row)     == [user |-> row.user, expires |-> row.expires, revoked |-> FALSE]

-----------------------------------------------------------------------------
(* Transactions.                                                           *)

(* The upsert: a row that exists only takes the revoked_at of the entity.  *)
Upserted(s, row) ==
    IF Exists(s) THEN [table[s] EXCEPT !.revoked = row.revoked] ELSE row

(* Save(tokens...) of request r; rows maps the ids saved to the entities.  *)
Save(r, rows) ==
    pend' = [pend EXCEPT ![r] =
                [s \in Tokens |-> IF s \in DOMAIN rows THEN Upserted(s, rows[s])
                                                       ELSE pend[r][s]]]

(* A row another open transaction has written is locked.                   *)
Holds(q, s)  == pend[q][s] # NoRow
Free(r, s)   == \A q \in Requests \ {r} : ~Holds(q, s)

(* The row whose lock the next statement of r needs, if it needs one.      *)
Wants(r, s) ==
    \/ pc[r] \in {"rotate", "find"} /\ s = tok[r]
    \/ pc[r] = "save" /\ s = cur[r]

WaitsFor(r, q) == q # r /\ \E s \in Tokens : Wants(r, s) /\ Holds(q, s)

InFlight == {r \in Requests : pc[r] \in InTx}

(* RunInTransaction begins: the handler has its arguments.                 *)
Begin(r, handler, t, u, label) ==
    /\ pc[r] = "idle"
    /\ handler \in Handlers
    /\ Cardinality(InFlight) < MaxInFlight
    /\ pc'  = [pc  EXCEPT ![r] = label]
    /\ op'  = [op  EXCEPT ![r] = handler]
    /\ tok' = [tok EXCEPT ![r] = t]
    /\ who' = [who EXCEPT ![r] = u]
    /\ now' = [now EXCEPT ![r] = clock]
    /\ UNCHANGED <<clock, table, seen, listed, cur, pend, verdict, known>>

(* The transaction ends: its writes are gone and r has its answer.  The    *)
(* locals no property looks at after that go as well.                      *)
Finish(r, answer) ==
    /\ pc'      = [pc EXCEPT ![r] = "done"]
    /\ pend'    = [pend EXCEPT ![r] = NoWrites]
    /\ verdict' = [verdict EXCEPT ![r] = answer]
    /\ now'     = [now EXCEPT ![r] = 0]
    /\ seen'    = [seen EXCEPT ![r] = NoRow]
    /\ cur'     = [cur EXCEPT ![r] = None]
    /\ known'   = [known EXCEPT ![r] = {}]
    /\ UNCHANGED <<clock, arguments, listed>>

Install(r) ==
    table' = [s \in Tokens |-> IF pend[r][s] # NoRow THEN pend[r][s] ELSE table[s]]

(* A login that has revoked the sessions of a clone's user commits that,   *)
(* and then answers that a clone is suspected.                             *)
Answer(r) == IF op[r] = "clone" THEN "clone" ELSE "ok"

(* The function returned nil and the commit went through.                  *)
Commit(r) ==
    /\ pc[r] = "commit"
    /\ Install(r)
    /\ Finish(r, Answer(r))

\* Mutant: an error path that returns without ending the transaction.
RollbackForgotten(r) ==
    /\ pc[r] = "rollback"
    /\ pc' = [pc EXCEPT ![r] = "done"]
    /\ UNCHANGED <<clock, table, arguments, locals, pend, verdict>>

(* The function returned an error: the whole transaction is rolled back,   *)
(* whatever its nested calls had saved.                                    *)
Rollback(r) ==
    /\ pc[r] = "rollback"
    /\ Finish(r, verdict[r])
    /\ UNCHANGED table

\* Mutant: the error of tx.Commit is dropped.
FailIgnored(r) ==
    /\ pc[r] \in InTx
    /\ Finish(r, IF pc[r] = "commit" THEN Answer(r) ELSE "error")
    /\ UNCHANGED table

(* A statement or the commit fails, or the client goes away.               *)
Fail(r) ==
    /\ pc[r] \in InTx
    /\ Finish(r, "error")
    /\ UNCHANGED table

(* The server commits, but the reply to COMMIT is lost.                    *)
CommitUnseen(r) ==
    /\ pc[r] = "commit"
    /\ Install(r)
    /\ Finish(r, "error")

(* PostgreSQL aborts one transaction of a cycle of waits.                  *)
Deadlocked(r) ==
    \E C \in SUBSET Requests :
        /\ r \in C
        /\ \A q \in C : (\E p \in C : WaitsFor(q, p)) /\ (\E p \in C : WaitsFor(p, q))

DeadlockVictim(r) ==
    /\ pc[r] \in {"rotate", "find", "save"}
    /\ Deadlocked(r)
    /\ Finish(r, "error")
    /\ UNCHANGED table

(* The handler decides to refuse; Rollback follows.                        *)
Refuse(r, answer) ==
    /\ pc'      = [pc EXCEPT ![r] = "rollback"]
    /\ verdict' = [verdict EXCEPT ![r] = answer]
    /\ UNCHANGED <<clock, table, arguments, locals, pend>>

Goto(r, label) == pc' = [pc EXCEPT ![r] = label]

-----------------------------------------------------------------------------
(* A login that has checked its credential, and SessionIssuer.Issue: now   *)
(* was read before the authenticator ran, the row is inserted later.  To   *)
(* this table a registration that is being finished is another such login: *)
(* its transaction issues the first session of the user in the same way.   *)

StartLogin(r) == \E u \in Users : Begin(r, "login", None, u, "insert")

Issue(r) ==
    /\ pc[r] = "insert"
    /\ Save(r, [s \in {NewID[r]} |-> New(who[r], now[r])])
    /\ Goto(r, "commit")
    /\ UNCHANGED <<clock, table, arguments, locals, verdict>>

-----------------------------------------------------------------------------
(* POST /token/refresh.                                                    *)

(* A client presents a token it was given, or one that never existed.      *)
Presentable(s) == Exists(s) \/ \A r \in Requests : NewID[r] # s

StartRefresh(r) ==
    \E t \in Tokens : Presentable(t) /\ Begin(r, "refresh", t, None, "lookup")

(* validateRefreshToken: FindByTokenHash takes no lock.                    *)
LookupUnknown(r) ==
    /\ pc[r] = "lookup" /\ ~Exists(tok[r])
    /\ Refuse(r, "not_found")

LookupExpired(r) ==
    /\ pc[r] = "lookup" /\ Exists(tok[r])
    /\ ~table[tok[r]].revoked
    /\ ~IsValid(table[tok[r]], now[r])
    /\ Refuse(r, "invalid")

\* Mutant: the expiry is checked and the revocation is not.
LookupUnrevoked(r) ==
    /\ pc[r] = "lookup" /\ Exists(tok[r])
    /\ now[r] < table[tok[r]].expires
    /\ seen' = [seen EXCEPT ![r] = table[tok[r]]]
    /\ Goto(r, "rotate")
    /\ UNCHANGED <<clock, table, arguments, now, listed, cur, known, pend, verdict>>

LookupValid(r) ==
    /\ pc[r] = "lookup" /\ Exists(tok[r])
    /\ IsValid(table[tok[r]], now[r])
    /\ seen' = [seen EXCEPT ![r] = table[tok[r]]]
    /\ Goto(r, "rotate")
    /\ UNCHANGED <<clock, table, arguments, now, listed, cur, known, pend, verdict>>

(* A revoked token comes back: the sessions of its owner are revoked in    *)
(* the transaction of the refresh, which then returns the error.           *)
LookupReused(r) ==
    /\ pc[r] = "lookup" /\ Exists(tok[r])
    /\ table[tok[r]].revoked
    /\ who'     = [who EXCEPT ![r] = table[tok[r]].user]
    /\ now'     = [now EXCEPT ![r] = clock]
    /\ verdict' = [verdict EXCEPT ![r] = "reuse"]
    /\ Goto(r, "list")
    /\ UNCHANGED <<clock, table, op, tok, seen, listed, cur, known, pend>>

\* Mutants: old is saved without old.Revoke, or is not saved.
RotateUnrevoked(r) ==
    /\ pc[r] = "rotate"
    /\ Free(r, tok[r])
    /\ Save(r, [s \in {tok[r], NewID[r]} |-> IF s = tok[r] THEN seen[r]
                                                           ELSE Rotated(seen[r])])
    /\ Goto(r, "commit")
    /\ UNCHANGED <<clock, table, arguments, locals, verdict>>

RotateNewOnly(r) ==
    /\ pc[r] = "rotate"
    /\ Save(r, [s \in {NewID[r]} |-> Rotated(seen[r])])
    /\ Goto(r, "commit")
    /\ UNCHANGED <<clock, table, arguments, locals, verdict>>

(* SessionIssuer.Rotate saves the old entity, as it was seen and now       *)
(* revoked, and its successor.                                             *)
Rotate(r) ==
    /\ pc[r] = "rotate"
    /\ Free(r, tok[r])
    /\ Save(r, [s \in {tok[r], NewID[r]} |-> IF s = tok[r] THEN Revoked(seen[r])
                                                           ELSE Rotated(seen[r])])
    /\ Goto(r, "commit")
    /\ UNCHANGED <<clock, table, arguments, locals, verdict>>

-----------------------------------------------------------------------------
(* DELETE /sessions/{id}: FindByID is FOR UPDATE, and what follows it      *)
(* cannot wait.                                                            *)

StartRevokeSession(r) ==
    \E t \in Tokens, u \in Users :
        Presentable(t) /\ Begin(r, "revokeSession", t, u, "find")

FindUnknown(r) ==
    /\ pc[r] = "find" /\ ~Exists(tok[r])
    /\ Refuse(r, "not_found")

FindForeign(r) ==
    /\ pc[r] = "find" /\ Exists(tok[r]) /\ Free(r, tok[r])
    /\ table[tok[r]].user # who[r]
    /\ Refuse(r, "forbidden")

\* Mutants: no owner check; the revoked entity is not saved.
FindAny(r) ==
    /\ pc[r] = "find" /\ Exists(tok[r]) /\ Free(r, tok[r])
    /\ Save(r, [s \in {tok[r]} |-> Revoked(table[tok[r]])])
    /\ Goto(r, "commit")
    /\ UNCHANGED <<clock, table, arguments, locals, verdict>>

FindUnsaved(r) ==
    /\ pc[r] = "find" /\ Exists(tok[r]) /\ Free(r, tok[r])
    /\ table[tok[r]].user = who[r]
    /\ Goto(r, "commit")
    /\ UNCHANGED <<clock, table, arguments, locals, pend, verdict>>

FindOwn(r) ==
    /\ pc[r] = "find" /\ Exists(tok[r]) /\ Free(r, tok[r])
    /\ table[tok[r]].user = who[r]
    /\ IF table[tok[r]].revoked
       THEN UNCHANGED pend
       ELSE Save(r, [s \in {tok[r]} |-> Revoked(table[tok[r]])])
    /\ Goto(r, "commit")
    /\ UNCHANGED <<clock, table, arguments, locals, verdict>>

-----------------------------------------------------------------------------
(* RevokeAllUserSessions, for the branch of a user (revoke-chain), for the *)
(* user of a credential that a login takes for a clone, or, in a refresh,  *)
(* for the owner of a reused token.                                        *)

StartRevokeChain(r) == \E u \in Users : Begin(r, "revokeChain", None, u, "list")

(* The login has saved its credential as revoked and goes on to the user's *)
(* sessions, in the transaction it has open.                               *)
StartClone(r) == \E u \in Users : Begin(r, "clone", None, u, "list")

\* Mutant: the branch is reduced to the user it starts from.
TargetsRoot(r) == {who[r]}

Targets(r) == IF op[r] = "revokeChain" THEN Descendants[who[r]] ELSE {who[r]}

AfterRevokeAll(r) == IF op[r] = "refresh" THEN "rollback" ELSE "commit"

(* FindActiveByUserIDs: no lock and no order.                              *)
ListActive(r) ==
    LET found == {s \in Tokens : /\ Exists(s)
                                 /\ table[s].user \in Targets(r)
                                 /\ IsValid(table[s], now[r])}
    IN  /\ pc[r] = "list"
        /\ listed' = [listed EXCEPT ![r] = found]
        /\ known'  = [known EXCEPT ![r] = {s \in Tokens : Exists(s)}]
        /\ IF found = {}
           THEN /\ Goto(r, AfterRevokeAll(r))
                /\ UNCHANGED cur
           ELSE /\ Goto(r, "save")
                /\ \E s \in found : cur' = [cur EXCEPT ![r] = s]
        /\ UNCHANGED <<clock, table, arguments, now, seen, pend, verdict>>

\* Mutant: the batch stops after its first statement.
SaveFirst(r) ==
    /\ pc[r] = "save"
    /\ Free(r, cur[r])
    /\ Save(r, [s \in {cur[r]} |-> Revoked(table[s])])
    /\ Goto(r, AfterRevokeAll(r))
    /\ UNCHANGED <<clock, table, arguments, locals, verdict>>

(* One statement of the batch that saves the revoked entities.             *)
SaveRevoked(r) ==
    LET left == {s \in listed[r] \ {cur[r]} : pend[r][s] = NoRow}
    IN  /\ pc[r] = "save"
        /\ Free(r, cur[r])
        /\ Save(r, [s \in {cur[r]} |-> Revoked(table[s])])
        /\ IF left = {}
           THEN /\ Goto(r, AfterRevokeAll(r))
                /\ UNCHANGED cur
           ELSE /\ UNCHANGED pc
                /\ \E s \in left : cur' = [cur EXCEPT ![r] = s]
        /\ UNCHANGED <<clock, table, arguments, now, seen, listed, known, verdict>>

-----------------------------------------------------------------------------
Tick ==
    /\ clock < MaxTime
    /\ clock' = clock + 1
    /\ UNCHANGED <<table, pc, arguments, locals, pend, verdict>>

(* Every request has been answered: the run is over, and is not stuck.     *)
Finished ==
    /\ \A r \in Requests : pc[r] = "done"
    /\ UNCHANGED vars

Init ==
    /\ clock   = 0
    /\ table   = InitTable
    /\ pc      = [r \in Requests |-> "idle"]
    /\ op      = [r \in Requests |-> "none"]
    /\ tok     = [r \in Requests |-> None]
    /\ who     = [r \in Requests |-> None]
    /\ now     = [r \in Requests |-> 0]
    /\ seen    = [r \in Requests |-> NoRow]
    /\ listed  = [r \in Requests |-> {}]
    /\ cur     = [r \in Requests |-> None]
    /\ pend    = [r \in Requests |-> NoWrites]
    /\ verdict = [r \in Requests |-> "none"]
    /\ known   = [r \in Requests |-> {}]

Start(r) ==
    \/ StartLogin(r) \/ StartClone(r)
    \/ StartRefresh(r)
    \/ StartRevokeSession(r) \/ StartRevokeChain(r)

Lookup(r) ==
    LookupUnknown(r) \/ LookupExpired(r) \/ LookupValid(r) \/ LookupReused(r)

Find(r) == FindUnknown(r) \/ FindForeign(r) \/ FindOwn(r)

(* What a request does once it has begun, if nothing goes wrong.           *)
Proceed(r) ==
    \/ Issue(r)
    \/ Lookup(r) \/ Rotate(r)
    \/ Find(r)
    \/ ListActive(r) \/ SaveRevoked(r)
    \/ Commit(r) \/ Rollback(r)

Step(r) ==
    Start(r) \/ Proceed(r) \/ Fail(r) \/ CommitUnseen(r) \/ DeadlockVictim(r)

Next == Tick \/ (\E r \in Requests : Step(r)) \/ Finished

Spec == Init /\ [][Next]_vars

-----------------------------------------------------------------------------
(* Properties.                                                             *)

TypeOK ==
    /\ clock   \in 0..MaxTime
    /\ table   \in [Tokens -> Row \cup {NoRow}]
    /\ pc      \in [Requests -> Labels]
    /\ op      \in [Requests -> AllHandlers \cup {"none"}]
    /\ tok     \in [Requests -> Tokens \cup {None}]
    /\ who     \in [Requests -> Users \cup {None}]
    /\ now     \in [Requests -> 0..MaxTime]
    /\ seen    \in [Requests -> Row \cup {NoRow}]
    /\ listed  \in [Requests -> SUBSET Tokens]
    /\ cur     \in [Requests -> Tokens \cup {None}]
    /\ pend    \in [Requests -> [Tokens -> Row \cup {NoRow}]]
    /\ verdict \in [Requests -> Verdicts]
    /\ known   \in [Requests -> SUBSET Tokens]

(* s is the successor request r gave for the token it was presented.       *)
Successor(r, s) == op[r] = "refresh" /\ s = NewID[r] /\ Exists(s)

Answered(r, handler) == pc[r] = "done" /\ verdict[r] = Answer(r) /\ op[r] = handler

(* The client of r was told that every session of some users is revoked.   *)
ToldAllRevoked(r) == \E handler \in RevokingAll : Answered(r, handler)

(* Refreshing never prolongs a session nor hands it to someone else: the   *)
(* successor has the owner and the absolute expiry of the token traded for *)
(* it, however many requests rotate at the same time, and is never there   *)
(* while that token is still live (SessionIssuer.Rotate, RunInTransaction).*)
RotationKeepsGrant ==
    \A r \in Requests : Successor(r, NewID[r]) =>
        /\ table[tok[r]].user    = table[NewID[r]].user
        /\ table[tok[r]].expires = table[NewID[r]].expires
        /\ table[tok[r]].revoked

(* An answer stays true to the table for good.  A session handed out by a  *)
(* login or a refresh is stored; a session whose revocation was answered   *)
(* 204 is revoked, in this and in every later state, and so is every       *)
(* session listed by a revoke-chain or by a login that answered that it    *)
(* suspects a clone; a refused request, and such a login, have left no     *)
(* session behind (runInTx, the handlers' use cases).                      *)
AnswersHold ==
    \A r \in Requests :
        /\ Answered(r, "login") \/ Answered(r, "refresh") => Exists(NewID[r])
        /\ Answered(r, "revokeSession") => Exists(tok[r]) /\ table[tok[r]].revoked
        /\ ToldAllRevoked(r) => \A s \in listed[r] : table[s].revoked
        /\ pc[r] = "done" /\ verdict[r] \in Refusals \cup {"clone"} => ~Exists(NewID[r])

(* A committed row is never deleted, and one that is revoked is never live *)
(* again, although every upsert writes revoked_at from an entity that was  *)
(* read without a lock and may be out of date (SaveRefreshTokens).         *)
StaysRevoked ==
    \A s \in Tokens : Exists(s) =>
        /\ Exists(s)'
        /\ table[s].revoked => table'[s].revoked

RevokedIsFinal == [][StaysRevoked]_vars

(* Request r is there to end every session of user u: an administrator     *)
(* revokes a branch u belongs to, or a login suspects a clone of one of    *)
(* u's credentials.                                                        *)
Against(r, u) ==
    \/ op[r] = "revokeChain" /\ u \in Descendants[who[r]]
    \/ op[r] = "clone" /\ u = who[r]

(* The commit of a request that may end session s: its own token is being  *)
(* refreshed, its owner asked, or all sessions of its owner are to end.    *)
Cause(r, s) ==
    /\ pc[r] = "commit" /\ pc'[r] = "done"
    /\ \/ op[r] = "refresh" /\ tok[r] = s
       \/ op[r] = "revokeSession" /\ tok[r] = s /\ who[r] = table[s].user
       \/ Against(r, table[s].user)

(* A session stops being live only for a reason: its rotation, a logout of *)
(* its owner, a revoke-chain or a clone of the owner's credential.  The    *)
(* reuse of a token, in particular, ends none (RevokeSession,              *)
(* RevokeAllUserSessions, Login.handleClone, SessionIssuer.Rotate).        *)
EndsWithCause ==
    \A s \in Tokens : Exists(s) /\ ~table[s].revoked /\ table'[s].revoked =>
        \E r \in Requests : Cause(r, s)

RevocationHasCause == [][EndsWithCause]_vars

(* When a revoke-chain commits, or a login that suspects a clone, a session *)
(* of the users concerned that is still usable had not been committed when *)
(* the request listed them: nothing that was there is missed               *)
(* (RevokeAllUserSessions.Execute).                                        *)
MissesNothing ==
    \A r \in Requests :
        pc[r] = "commit" /\ pc'[r] = "done" /\ verdict'[r] = Answer(r) =>
        \A s \in known[r] :
            Against(r, table[s].user) => ~IsValid(table'[s], clock)

NothingListedSurvives == [][MissesNothing]_vars

(* Why these hold: what each request in flight knows of the table, at      *)
(* every point of its handler.  Two facts carry the rest.  An id is in the *)
(* table only when the request it was given to is over (FreshID).  And     *)
(* whatever a transaction has written to a row that exists is that very    *)
(* row revoked, so that a commit that comes late can undo nothing.         *)
FreshID(r) == Exists(NewID[r]) => pc[r] = "done" /\ verdict[r] \in {"ok", "error"}

RevokesOnly(r) ==
    \A s \in Tokens : Holds(r, s) => Exists(s) /\ pend[r][s] = Revoked(table[s])

SameGrant(row, s) ==
    Exists(s) /\ row.user = table[s].user /\ row.expires = table[s].expires

AtWork(r) ==
    /\ pc[r] \notin {"save", "commit", "rollback"} => pend[r] = NoWrites
    /\ pc[r] = "insert" => op[r] = "login" /\ who[r] \in Users
    /\ pc[r] \in {"lookup", "rotate"} => op[r] = "refresh" /\ tok[r] \in Tokens
    /\ pc[r] = "rotate" => seen[r] \in Row /\ SameGrant(seen[r], tok[r])
    /\ pc[r] = "find" =>
          op[r] = "revokeSession" /\ tok[r] \in Tokens /\ who[r] \in Users
    /\ pc[r] \in {"list", "save"} =>
          op[r] \in RevokingAll \/ (op[r] = "refresh" /\ verdict[r] = "reuse")
    /\ pc[r] = "save" =>
          /\ cur[r] \in listed[r]
          /\ \A s \in listed[r] : Exists(s)
          /\ RevokesOnly(r)
    /\ pc[r] = "rollback" => verdict[r] \in Refusals

AtCommit(r) ==
    pc[r] = "commit" =>
        \/ /\ op[r] = "login"
           /\ \A s \in Tokens : Holds(r, s) <=> s = NewID[r]
           /\ ~pend[r][NewID[r]].revoked
        \/ /\ op[r] = "refresh"
           /\ tok[r] \in Tokens
           /\ \A s \in Tokens : Holds(r, s) <=> s \in {tok[r], NewID[r]}
           /\ Exists(tok[r])
           /\ pend[r][tok[r]] = Revoked(table[tok[r]])
           /\ pend[r][NewID[r]] = Rotated(table[tok[r]])
        \/ /\ op[r] = "revokeSession"
           /\ tok[r] \in Tokens
           /\ RevokesOnly(r)
           /\ Exists(tok[r]) /\ (table[tok[r]].revoked \/ Holds(r, tok[r]))
        \/ /\ op[r] \in RevokingAll
           /\ RevokesOnly(r)
           /\ \A s \in listed[r] : Exists(s) /\ (table[s].revoked \/ Holds(r, s))

Afterwards(r) ==
    /\ Successor(r, NewID[r]) =>
          tok[r] \in Tokens /\ SameGrant(table[NewID[r]], tok[r]) /\ table[tok[r]].revoked
    /\ Answered(r, "login") \/ Answered(r, "refresh") => Exists(NewID[r])
    /\ Answered(r, "revokeSession") =>
          tok[r] \in Tokens /\ Exists(tok[r]) /\ table[tok[r]].revoked
    /\ ToldAllRevoked(r) =>
          \A s \in listed[r] : Exists(s) /\ table[s].revoked

RequestInv(r) == FreshID(r) /\ AtWork(r) /\ AtCommit(r) /\ Afterwards(r)

(* The inductive invariant of SessionsProofs.                              *)
IInv == TypeOK /\ \A r \in Requests : RequestInv(r)

(* What a revocation rests on: the rows a request is about to revoke are   *)
(* those its arguments name, and of those that one against whole users     *)
(* found committed none of theirs is left out, unless it can no longer be  *)
(* used.                                                                   *)
Warrant(r) ==
    /\ now[r] <= clock
    /\ pc[r] = "commit" /\ op[r] = "revokeSession" =>
          \A s \in Tokens : Holds(r, s) => s = tok[r] /\ table[s].user = who[r]
    /\ pc[r] \in {"save", "commit"} /\ op[r] \in RevokingAll =>
          /\ \A s \in Tokens : Holds(r, s) => s \in listed[r]
          /\ \A s \in listed[r] : Exists(s) /\ Against(r, table[s].user)
          /\ \A s \in known[r] :
                /\ Exists(s)
                /\ Against(r, table[s].user) =>
                      s \in listed[r] \/ ~IsValid(table[s], now[r])

Warranted == \A r \in Requests : Warrant(r)

(* A token is traded at most once.  Holds when requests do not overlap.    *)
TokenSpentOnce ==
    \A r, q \in Requests :
        Successor(r, NewID[r]) /\ Successor(q, NewID[q]) /\ tok[r] = tok[q] => r = q

(* No live session was rotated out of one that a request listed and then   *)
(* answered it had revoked, with the others of its owner.  Holds when      *)
(* requests do not overlap.                                                *)
ChainLeavesNoHeir ==
    \A r, q \in Requests :
        ToldAllRevoked(r) /\ Successor(q, NewID[q]) /\ tok[q] \in listed[r]
            => table[NewID[q]].revoked

(* A refresh never succeeds on a token once DELETE /sessions/{id} has been *)
(* answered 204 for it.  Holds of a step when requests do not overlap.     *)
LogoutObeyed ==
    \A q \in Requests :
        pc[q] = "commit" /\ op[q] = "refresh" /\ pc'[q] = "done" /\ verdict'[q] = "ok" =>
            ~ \E r \in Requests : Answered(r, "revokeSession") /\ tok[r] = tok[q]

(* When a refresh answers that reuse was detected, the sessions it listed  *)
(* for the owner are revoked, as its answer says.                          *)
ReuseRevokesAll ==
    \A r \in Requests :
        pc[r] = "done" /\ verdict[r] = "reuse" => \A s \in listed[r] : table[s].revoked

(* The table, and which session was traded for which, as the ledger sees   *)
(* them.                                                                   *)
Heirs ==
    {<<tok[r], NewID[r]>> : r \in {q \in Requests : Successor(q, NewID[q])}}

Ledger == INSTANCE SessionLedger WITH LastExpiry <- MaxTime + RefreshTTL,
                                      heirs <- Heirs

(* Every commit of every handler is one step of the ledger, or none.       *)
LedgerStale == Ledger!SpecSpendStale

(* Without overlap, only live tokens are traded.                           *)
TradedLive == Ledger!NextSpendOnce \/ UNCHANGED <<table, Heirs>>
=============================================================================
