------------------------------- MODULE Invites -------------------------------
(***************************************************************************)
(* Invites and the accounts they admit: the tables invites and users, with *)
(* the handlers that create an invite, begin a registration and finish it, *)
(* at work at the same time.                                               *)
(*                                                                         *)
(* Creating an invite and finishing a registration run in one transaction  *)
(* each, under READ COMMITTED; beginning a registration is a single SELECT *)
(* and stores nothing: what it answers, the challenge, comes back with the *)
(* request that finishes it.  Two locks order these transactions:          *)
(*   - the advisory lock of the creator, taken before invites are counted; *)
(*   - the row lock of the invite, taken by FindByID (FOR UPDATE).         *)
(* Both are held until the transaction ends.                               *)
(*                                                                         *)
(* A user is kept with the scopes of the wrapped keys of its credential:   *)
(* user, credential, keys and first session are inserted under new ids by  *)
(* one transaction.  used_at is set whenever used_by is.                   *)
(***************************************************************************)
EXTENDS Naturals, FiniteSets, Sequences

CONSTANTS
    Users,           \* user ids
    Root,            \* the root user
    InviteIDs,       \* invite ids
    Requests,        \* the requests the server receives, each handled once
    NewInvite,       \* NewInvite[r]: the invite id generated for request r
    NewUser,         \* NewUser[r]: the user id generated for request r
    InitUsers,       \* the tables, and the challenges out there, after
    InitInvites,     \*   earlier traffic
    InitChallenges,
    Scopes,          \* scopes of wrapped keys
    KeyLists,        \* the lists of scopes clients send
    MaxKeys,         \* key.Policy
    MaxActive,       \* invite.Policy
    TTL, RootTTL,    \* lifetimes of invites
    ChallengeTTL,    \* lifetime of a challenge
    CheckedAtCommit, \* is invites.used_by checked at commit, or at once?
    Wirings,         \* policies the handler of POST /invites may be given
    MaxTime,         \* bound: the clock stops here
    MaxInFlight,     \* bound: requests handled at the same time
    Handlers,        \* bound: the handlers that receive requests
    NoRow,           \* users[u] or invites[i] when there is no such row
    None             \* an argument a handler does not have

AllHandlers == {"create", "createRoot", "begin", "finish"}
Roles       == {"admin", "member"}
Expiries    == 0..(MaxTime + TTL + RootTTL + ChallengeTTL)

User      == [role : Roles, by : Users \cup {None}, keys : SUBSET Scopes]
Invite    == [creator : Users, expires : Expiries, usedBy : Users \cup {None}]
Challenge == [invite : InviteIDs, user : Users, expires : Expiries]

VARIABLES
    clock,      \* time.Now()
    wired,      \* the policy of POST /invites
    users,      \* the committed rows of users
    invites,    \* the committed rows of invites
    challenges, \* the challenges clients were given
    lock,       \* the request that holds the advisory lock of each user
    pc,         \* where each request is
    op,         \* its handler
    who,        \* the creator of an invite, or the candidate of a challenge
    inv,        \* the invite it works on
    keys,       \* the scopes of the wrapped keys sent
    now,        \* the time it read
    pendInvite, \* what its transaction has written and not committed
    pendUser,
    verdict     \* what it answers

tables    == <<users, invites>>
arguments == <<op, who, inv, keys>>
pending   == <<pendInvite, pendUser>>
vars      == <<clock, wired, tables, challenges, lock, pc, arguments, now,
               pending, verdict>>

InTx     == {"lock", "count", "insert", "open", "redeem", "account", "commit",
             "rollback"}
Working  == InTx \cup {"read"}
Labels   == {"idle", "done"} \cup Working
Refusals == {"too_many", "used", "expired", "no_keys", "too_many_keys",
             "challenge_expired", "constraint"}
Verdicts == {"none", "ok", "error"} \cup Refusals

-----------------------------------------------------------------------------
(* The entities.                                                           *)

Active(u, t) ==
    {i \in InviteIDs : /\ invites[i] # NoRow
                       /\ invites[i].creator = u
                       /\ invites[i].usedBy = None
                       /\ invites[i].expires > t}

IsExpired(row, t) == t > row.expires
IsUsed(row)       == row.usedBy # None

New(u, t, ttl) == [creator |-> u, expires |-> t + ttl, usedBy |-> None]

Policy(r) == IF op[r] = "createRoot" THEN "unlimited" ELSE wired

CanIssue(r, count) == Policy(r) = "unlimited" \/ count < MaxActive

(* The use case that has the policy of the root has its lifetime too.      *)
Lifetime(r) == IF Policy(r) = "unlimited" THEN RootTTL ELSE TTL

\* Mutant: every invitee takes the role of its inviter.
InheritedRole(u) == users[u].role
NextInviteeRole(u) == IF users[u].by = None THEN "admin" ELSE "member"

ScopesOf(list) == {list[n] : n \in DOMAIN list}

ASSUME ConstantsAssumption ==
    /\ Root \in Users /\ None \notin Users \cup InviteIDs \cup Requests
    /\ {MaxKeys, MaxActive, TTL, RootTTL, ChallengeTTL, MaxTime, MaxInFlight}
          \subseteq Nat
    /\ CheckedAtCommit \in BOOLEAN
    /\ Wirings \subseteq {"limited", "unlimited"}
    /\ Handlers \subseteq AllHandlers
    /\ \A list \in KeyLists : list \in Seq(Scopes)
    /\ NoRow \notin User \cup Invite
    /\ IsFiniteSet(InviteIDs)

(* idgen gives every caller an id that is in no row and that no other      *)
(* request has.                                                            *)
ASSUME NewIDAssumption ==
    /\ NewInvite \in [Requests -> InviteIDs]
    /\ NewUser \in [Requests -> Users]
    /\ \A r, q \in Requests :
          NewInvite[r] = NewInvite[q] \/ NewUser[r] = NewUser[q] => r = q
    /\ \A r \in Requests : /\ InitInvites[NewInvite[r]] = NoRow
                           /\ InitUsers[NewUser[r]] = NoRow
                           /\ \A c \in InitChallenges : c.user # NewUser[r]

(* Earlier traffic left the tables consistent, and every challenge with an *)
(* invite that exists and a candidate of its own.                          *)
ASSUME InitAssumption ==
    /\ InitUsers \in [Users -> User \cup {NoRow}]
    /\ InitInvites \in [InviteIDs -> Invite \cup {NoRow}]
    /\ InitChallenges \subseteq Challenge
    /\ InitUsers[Root] # NoRow
    /\ \A u \in Users : InitUsers[u] # NoRow => (InitUsers[u].by = None <=> u = Root)
    /\ \A i \in InviteIDs : InitInvites[i] # NoRow =>
          /\ InitUsers[InitInvites[i].creator] # NoRow
          /\ InitInvites[i].usedBy = None
    /\ \A c, d \in InitChallenges :
          /\ InitInvites[c.invite] # NoRow
          /\ InitUsers[c.user] = NoRow
          /\ c.user = d.user => c = d
    /\ \A u \in Users \ {Root} :
          Cardinality({i \in InviteIDs : /\ InitInvites[i] # NoRow
                                         /\ InitInvites[i].creator = u
                                         /\ InitInvites[i].expires > 0}) <= MaxActive

-----------------------------------------------------------------------------
(* Transactions.                                                           *)

InFlight == {r \in Requests : pc[r] \in Working}

Goto(r, label) == pc' = [pc EXCEPT ![r] = label]

(* A handler has its arguments.  The ones of an invite's creation read the *)
(* time at once, before they open their transaction.                       *)
Begin(r, handler, u, i, list, label, answer) ==
    /\ pc[r] = "idle"
    /\ handler \in Handlers
    /\ Cardinality(InFlight) < MaxInFlight
    /\ Goto(r, label)
    /\ op'      = [op   EXCEPT ![r] = handler]
    /\ who'     = [who  EXCEPT ![r] = u]
    /\ inv'     = [inv  EXCEPT ![r] = i]
    /\ keys'    = [keys EXCEPT ![r] = list]
    /\ now'     = [now  EXCEPT ![r] = clock]
    /\ verdict' = [verdict EXCEPT ![r] = answer]
    /\ UNCHANGED <<clock, wired, tables, challenges, lock, pending>>

(* The transaction ends: its writes and its locks are gone.                *)
Finish(r, answer) ==
    /\ Goto(r, "done")
    /\ lock'       = [u \in Users |-> IF lock[u] = r THEN None ELSE lock[u]]
    /\ pendInvite' = [pendInvite EXCEPT ![r] = NoRow]
    /\ pendUser'   = [pendUser EXCEPT ![r] = NoRow]
    /\ verdict'    = [verdict EXCEPT ![r] = answer]
    /\ now'        = [now EXCEPT ![r] = 0]
    /\ UNCHANGED <<clock, wired, challenges, arguments>>

Install(r) ==
    /\ invites' = IF pendInvite[r] = NoRow THEN invites
                  ELSE [invites EXCEPT ![inv[r]] = pendInvite[r]]
    /\ users'   = IF pendUser[r] = NoRow THEN users
                  ELSE [users EXCEPT ![who[r]] = pendUser[r]]

(* A foreign key checked at commit finds the user its own transaction      *)
(* inserted.                                                               *)
Commit(r) ==
    /\ pc[r] = "commit"
    /\ Install(r)
    /\ Finish(r, "ok")

(* The server commits, but the reply to COMMIT is lost.                    *)
CommitUnseen(r) ==
    /\ pc[r] = "commit"
    /\ Install(r)
    /\ Finish(r, "error")

\* Mutant: what was written before the refusal is committed all the same.
RollbackKeepsInvite(r) ==
    /\ pc[r] = "rollback"
    /\ Install(r)
    /\ Finish(r, verdict[r])

(* The handler returned an error: what was written, if anything, is undone. *)
Rollback(r) ==
    /\ pc[r] = "rollback"
    /\ Finish(r, verdict[r])
    /\ UNCHANGED tables

\* Mutant: the error of tx.Commit is dropped.
FailIgnored(r) ==
    /\ pc[r] \in Working
    /\ Finish(r, IF pc[r] = "commit" THEN "ok" ELSE "error")
    /\ UNCHANGED tables

(* A statement or the commit fails, or the client goes away.               *)
Fail(r) ==
    /\ pc[r] \in Working
    /\ Finish(r, "error")
    /\ UNCHANGED tables

(* The handler decides to refuse; Rollback follows.                        *)
Refuse(r, answer) ==
    /\ Goto(r, "rollback")
    /\ verdict' = [verdict EXCEPT ![r] = answer]
    /\ UNCHANGED <<clock, wired, tables, challenges, lock, arguments, now, pending>>

-----------------------------------------------------------------------------
(* POST /invites, and the invites of the root user made at startup.        *)

StartCreate(r) ==
    \E u \in Users :
        /\ users[u] # NoRow
        /\ Begin(r, "create", u, NewInvite[r], <<>>, "lock", "none")

StartCreateRoot(r) == Begin(r, "createRoot", Root, NewInvite[r], <<>>, "lock", "none")

\* Mutant: the invites are counted without the advisory lock.
LockNothing(r) ==
    /\ pc[r] = "lock"
    /\ Goto(r, "count")
    /\ UNCHANGED <<clock, wired, tables, challenges, lock, arguments, now, pending,
                   verdict>>

\* Mutant: pg_advisory_lock, which the end of a transaction does not release.
LockForEver(r) ==
    /\ pc[r] = "lock"
    /\ lock[who[r]] = None
    /\ lock' = [lock EXCEPT ![who[r]] = who[r]]
    /\ Goto(r, "count")
    /\ UNCHANGED <<clock, wired, tables, challenges, arguments, now, pending, verdict>>

(* CountActiveByUser: the lock, then the count.                            *)
LockCreator(r) ==
    /\ pc[r] = "lock"
    /\ lock[who[r]] = None
    /\ lock' = [lock EXCEPT ![who[r]] = r]
    /\ Goto(r, "count")
    /\ UNCHANGED <<clock, wired, tables, challenges, arguments, now, pending, verdict>>

CountOpen(r) ==
    /\ pc[r] = "count"
    /\ CanIssue(r, Cardinality(Active(who[r], now[r])))
    /\ Goto(r, "insert")
    /\ UNCHANGED <<clock, wired, tables, challenges, lock, arguments, now, pending,
                   verdict>>

CountFull(r) ==
    /\ pc[r] = "count"
    /\ ~CanIssue(r, Cardinality(Active(who[r], now[r])))
    /\ Refuse(r, "too_many")

Insert(r) ==
    /\ pc[r] = "insert"
    /\ pendInvite' = [pendInvite EXCEPT ![r] = New(who[r], now[r], Lifetime(r))]
    /\ Goto(r, "commit")
    /\ UNCHANGED <<clock, wired, tables, challenges, lock, arguments, now, pendUser,
                   verdict>>

-----------------------------------------------------------------------------
(* POST /registration/begin.                                               *)

(* A client presents the code of an invite it was given, or a made-up one. *)
StartBegin(r) ==
    \E i \in InviteIDs :
        /\ invites[i] # NoRow \/ \A q \in Requests : NewInvite[q] # i
        /\ Begin(r, "begin", NewUser[r], i, <<>>, "read", "none")

Turned(r, answer) ==
    /\ Finish(r, answer)
    /\ UNCHANGED tables

ReadUnknown(r) ==
    /\ pc[r] = "read" /\ invites[inv[r]] = NoRow
    /\ Turned(r, "error")

ReadUsed(r) ==
    /\ pc[r] = "read" /\ invites[inv[r]] # NoRow
    /\ IsUsed(invites[inv[r]])
    /\ Turned(r, "used")

ReadExpired(r) ==
    /\ pc[r] = "read" /\ invites[inv[r]] # NoRow
    /\ ~IsUsed(invites[inv[r]]) /\ IsExpired(invites[inv[r]], now[r])
    /\ Turned(r, "expired")

(* The challenge binds the invite and a new candidate; nothing is stored.  *)
ReadOpen(r) ==
    /\ pc[r] = "read" /\ invites[inv[r]] # NoRow
    /\ ~IsUsed(invites[inv[r]]) /\ ~IsExpired(invites[inv[r]], now[r])
    /\ challenges' = challenges \cup {[invite |-> inv[r], user |-> who[r],
                                       expires |-> clock + ChallengeTTL]}
    /\ Goto(r, "done")
    /\ verdict' = [verdict EXCEPT ![r] = "ok"]
    /\ now'     = [now EXCEPT ![r] = 0]
    /\ UNCHANGED <<clock, wired, tables, lock, arguments, pending>>

-----------------------------------------------------------------------------
(* POST /registration/complete.                                            *)

Objection(c, list) ==
    IF list = <<>> THEN "no_keys"
    ELSE IF Len(list) > MaxKeys THEN "too_many_keys"
    ELSE IF clock > c.expires THEN "challenge_expired"
    ELSE "none"

(* A challenge may come back more than once, with different keys.          *)
StartFinish(r) ==
    \E c \in challenges, list \in KeyLists :
        LET objection == Objection(c, list)
        IN  Begin(r, "finish", c.user, c.invite, list,
                  IF objection = "none" THEN "open" ELSE "rollback", objection)

Open(r) ==
    /\ pc[r] = "open"
    /\ now' = [now EXCEPT ![r] = clock]
    /\ Goto(r, "redeem")
    /\ UNCHANGED <<clock, wired, tables, challenges, lock, arguments, pending, verdict>>

(* Another registration has the row of the invite locked.                  *)
Holds(q, i) == op[q] = "finish" /\ inv[q] = i /\ pendInvite[q] # NoRow
Free(r)     == \A q \in Requests \ {r} : ~Holds(q, inv[r])

Orphan(r) == ~CheckedAtCommit /\ users[who[r]] = NoRow

RedeemUsed(r) ==
    /\ pc[r] = "redeem" /\ Free(r)
    /\ IsUsed(invites[inv[r]])
    /\ Refuse(r, "used")

RedeemExpired(r) ==
    /\ pc[r] = "redeem" /\ Free(r)
    /\ ~IsUsed(invites[inv[r]]) /\ IsExpired(invites[inv[r]], now[r])
    /\ Refuse(r, "expired")

\* Mutants: the invite is read without FOR UPDATE; it is never marked as used.
RedeemUnlocked(r) ==
    /\ pc[r] = "redeem"
    /\ ~IsUsed(invites[inv[r]]) /\ ~IsExpired(invites[inv[r]], now[r])
    /\ ~Orphan(r)
    /\ pendInvite' = [pendInvite EXCEPT ![r] = [invites[inv[r]] EXCEPT !.usedBy = who[r]]]
    /\ Goto(r, "account")
    /\ UNCHANGED <<clock, wired, tables, challenges, lock, arguments, now, pendUser,
                   verdict>>

RedeemUnmarked(r) ==
    /\ pc[r] = "redeem" /\ Free(r)
    /\ ~IsUsed(invites[inv[r]]) /\ ~IsExpired(invites[inv[r]], now[r])
    /\ ~Orphan(r)
    /\ pendInvite' = [pendInvite EXCEPT ![r] = invites[inv[r]]]
    /\ Goto(r, "account")
    /\ UNCHANGED <<clock, wired, tables, challenges, lock, arguments, now, pendUser,
                   verdict>>

RedeemOpen(r) ==
    /\ pc[r] = "redeem" /\ Free(r)
    /\ ~IsUsed(invites[inv[r]]) /\ ~IsExpired(invites[inv[r]], now[r])
    /\ ~Orphan(r)
    /\ pendInvite' = [pendInvite EXCEPT ![r] = [invites[inv[r]] EXCEPT !.usedBy = who[r]]]
    /\ Goto(r, "account")
    /\ UNCHANGED <<clock, wired, tables, challenges, lock, arguments, now, pendUser,
                   verdict>>

(* A scope that is sent twice breaks the unique index of wrapped_keys.     *)
Repeats(list) == Cardinality(ScopesOf(list)) # Len(list)

(* A statement breaks the schema: the invite is saved with a used_by that   *)
(* is checked before that user is inserted, or a scope comes twice.        *)
Breaks(r) ==
    \/ /\ pc[r] = "redeem" /\ Free(r)
       /\ ~IsUsed(invites[inv[r]]) /\ ~IsExpired(invites[inv[r]], now[r])
       /\ Orphan(r)
    \/ pc[r] = "account" /\ Repeats(keys[r])

ConstraintBroken(r) ==
    /\ Breaks(r)
    /\ Refuse(r, "constraint")

(* User, credential, wrapped keys and first session.  The candidate is in  *)
(* no row: its id belongs to the invite this transaction has locked.       *)
Account(r) ==
    LET creator == invites[inv[r]].creator
    IN  /\ pc[r] = "account"
        /\ ~Repeats(keys[r])
        /\ pendUser' = [pendUser EXCEPT ![r] = [role |-> NextInviteeRole(creator),
                                                by   |-> creator,
                                                keys |-> ScopesOf(keys[r])]]
        /\ Goto(r, "commit")
        /\ UNCHANGED <<clock, wired, tables, challenges, lock, arguments, now,
                       pendInvite, verdict>>

-----------------------------------------------------------------------------
Tick ==
    /\ clock < MaxTime
    /\ clock' = clock + 1
    /\ UNCHANGED <<wired, tables, challenges, lock, pc, arguments, now, pending,
                   verdict>>

(* Every request has been answered: the run is over, and is not stuck.     *)
Finished ==
    /\ \A r \in Requests : pc[r] = "done"
    /\ UNCHANGED vars

Init ==
    /\ clock      = 0
    /\ wired \in Wirings
    /\ users      = InitUsers
    /\ invites    = InitInvites
    /\ challenges = InitChallenges
    /\ lock       = [u \in Users |-> None]
    /\ pc         = [r \in Requests |-> "idle"]
    /\ op         = [r \in Requests |-> "none"]
    /\ who        = [r \in Requests |-> None]
    /\ inv        = [r \in Requests |-> None]
    /\ keys       = [r \in Requests |-> <<>>]
    /\ now        = [r \in Requests |-> 0]
    /\ pendInvite = [r \in Requests |-> NoRow]
    /\ pendUser   = [r \in Requests |-> NoRow]
    /\ verdict    = [r \in Requests |-> "none"]

Start(r) == StartCreate(r) \/ StartCreateRoot(r) \/ StartBegin(r) \/ StartFinish(r)

Create(r) == LockCreator(r) \/ CountOpen(r) \/ CountFull(r) \/ Insert(r)

Read(r) == ReadUnknown(r) \/ ReadUsed(r) \/ ReadExpired(r) \/ ReadOpen(r)

Redeem(r) == RedeemUsed(r) \/ RedeemExpired(r) \/ RedeemOpen(r)

Register(r) == Open(r) \/ Redeem(r) \/ ConstraintBroken(r) \/ Account(r)

(* What a request does once it has begun, if nothing goes wrong.           *)
Proceed(r) == Create(r) \/ Read(r) \/ Register(r) \/ Commit(r) \/ Rollback(r)

Step(r) == Start(r) \/ Proceed(r) \/ Fail(r) \/ CommitUnseen(r)

Next == Tick \/ (\E r \in Requests : Step(r)) \/ Finished

Spec == Init /\ [][Next]_vars

-----------------------------------------------------------------------------
(* Properties.                                                             *)

TypeOK ==
    /\ clock      \in 0..MaxTime
    /\ wired      \in Wirings
    /\ users      \in [Users -> User \cup {NoRow}]
    /\ invites    \in [InviteIDs -> Invite \cup {NoRow}]
    /\ challenges \subseteq Challenge
    /\ lock       \in [Users -> Requests \cup {None}]
    /\ pc         \in [Requests -> Labels]
    /\ op         \in [Requests -> AllHandlers \cup {"none"}]
    /\ who        \in [Requests -> Users \cup {None}]
    /\ inv        \in [Requests -> InviteIDs \cup {None}]
    /\ keys       \in [Requests -> KeyLists \cup {<<>>}]
    /\ now        \in [Requests -> 0..MaxTime]
    /\ pendInvite \in [Requests -> Invite \cup {NoRow}]
    /\ pendUser   \in [Requests -> User \cup {NoRow}]
    /\ verdict    \in [Requests -> Verdicts]

Answered(r, handlers) == pc[r] = "done" /\ verdict[r] = "ok" /\ op[r] \in handlers

Admitted == {u \in Users : users[u] # NoRow /\ InitUsers[u] = NoRow}

UsedBy(i, u) == invites[i] # NoRow /\ invites[i].usedBy = u

(* A user never has more than MaxActive invites that are open: what the API *)
(* documents of POST /invites, whichever of its two use cases the          *)
(* container has given the handler (newHandler).                           *)
ActiveWithinLimit ==
    \A u \in Users \ {Root} : Cardinality(Active(u, clock)) <= MaxActive

(* Given the limited one, that is so however many requests of the user     *)
(* overlap (CreateInvite.Execute, CountActiveByUser and its advisory lock). *)
LimitedKeepsCap == wired = "limited" => ActiveWithinLimit

(* An invite admits one user and a user is admitted by one invite: used_by *)
(* always names a user whose inviter created that invite, and every user   *)
(* admitted is in the used_by of exactly one invite, whatever challenges   *)
(* are out there for it and however often each comes back                  *)
(* (FinishInviteRegistration.Execute).                                     *)
InviteAdmitsOne ==
    /\ \A i \in InviteIDs, u \in Users : UsedBy(i, u) =>
          users[u] # NoRow /\ users[u].by = invites[i].creator
    /\ \A u \in Admitted :
          \E i \in InviteIDs : /\ UsedBy(i, u)
                               /\ \A j \in InviteIDs : UsedBy(j, u) => j = i

(* The chain of trust: every user but the root was invited by one who      *)
(* exists, admins are the root and those it invited, and every user        *)
(* admitted has a wrapped key (User.NextInviteeRole, FinishInviteRegistration.Execute). *)
ChainOfTrust ==
    \A u \in Admitted :
        /\ users[u].by \in Users /\ users[users[u].by] # NoRow
        /\ users[u].role = "admin" <=> users[u].by = Root
        /\ users[u].keys # {}

(* An answer stays true to the tables: an invite that was handed out is    *)
(* stored and has its lifetime, a user who registered is stored with the   *)
(* keys of that very request, and a refused creation has left nothing.     *)
AnswersHold ==
    \A r \in Requests :
        /\ Answered(r, {"create", "createRoot"}) =>
              invites[inv[r]] # NoRow /\ invites[inv[r]].creator = who[r]
        /\ Answered(r, {"finish"}) =>
              /\ users[who[r]] # NoRow /\ users[who[r]].keys = ScopesOf(keys[r])
              /\ invites[inv[r]].usedBy = who[r]
        /\ pc[r] = "done" /\ verdict[r] = "too_many" => invites[inv[r]] = NoRow

(* An invite is spent by nothing but a registration that went through, and *)
(* its user has the keys of that one: where the database refuses a scope   *)
(* sent twice after the invite and the user were written, or the COMMIT    *)
(* fails, the invite stays open for the next attempt, with the same        *)
(* challenge and other keys (FinishInviteRegistration.Execute).            *)
Redeemer(r, i) ==
    /\ op[r] = "finish" /\ inv[r] = i /\ who[r] = invites[i].usedBy
    /\ pc[r] = "done" /\ verdict[r] \in {"ok", "error"}
    /\ ~Repeats(keys[r]) /\ users[who[r]].keys = ScopesOf(keys[r])

SpentByRegistration ==
    \A i \in InviteIDs : invites[i] # NoRow /\ IsUsed(invites[i]) =>
        \E r \in Requests : Redeemer(r, i)

(* A row of invites is never deleted and only ever changes from unused to  *)
(* used, once, although SaveInvite overwrites used_by with whatever the    *)
(* entity says; a row of users never changes.                              *)
RowsAreFinal ==
    [][/\ \A i \in InviteIDs : invites[i] # NoRow =>
              \/ invites'[i] = invites[i]
              \/ /\ ~IsUsed(invites[i])
                 /\ \E u \in Users : invites'[i] = [invites[i] EXCEPT !.usedBy = u]
       /\ \A u \in Users : users[u] # NoRow => users'[u] = users[u]]_vars

(* Why these hold: what each request in flight knows.  A creation that has *)
(* counted holds the lock of its creator until its end, so the room it     *)
(* found is still there at its commit; a registration that has redeemed    *)
(* has the row of the invite to itself, so that what it writes over it is  *)
(* still that row; and a candidate is in users only once the invite of its *)
(* challenge is used.                                                      *)
Creating(r) == op[r] \in {"create", "createRoot"}
Counted(r)  == pc[r] = "insert" \/ (Creating(r) /\ pc[r] = "commit")
Redeemed(r) == op[r] = "finish" /\ pc[r] \in {"account", "commit"}

CreationInv(r) ==
    /\ now[r] <= clock
    /\ pc[r] \in {"lock", "count", "insert"} => Creating(r)
    /\ Creating(r) => inv[r] = NewInvite[r] /\ who[r] \in Users
    /\ op[r] = "createRoot" => who[r] = Root
    /\ pc[r] # "done" => invites[NewInvite[r]] = NoRow
    /\ pc[r] = "count" \/ Counted(r) => lock[who[r]] = r
    /\ Counted(r) /\ Policy(r) = "limited" =>
          Cardinality(Active(who[r], now[r])) < MaxActive
    /\ pc[r] = "commit" /\ Creating(r) =>
          /\ pendInvite[r] \in Invite
          /\ pendInvite[r].creator = who[r] /\ pendInvite[r].usedBy = None

RegistrationInv(r) ==
    /\ pc[r] = "read" => op[r] = "begin" /\ who[r] = NewUser[r] /\ inv[r] \in InviteIDs
    /\ pc[r] \in {"open", "redeem", "account"} => op[r] = "finish"
    /\ op[r] = "finish" =>
          \E c \in challenges : c.user = who[r] /\ c.invite = inv[r]
    /\ pc[r] \notin {"account", "commit", "rollback"} => pendInvite[r] = NoRow
    /\ pc[r] # "commit" \/ Creating(r) => pendUser[r] = NoRow
    /\ pc[r] = "commit" => Creating(r) \/ op[r] = "finish"
    /\ Redeemed(r) =>
          /\ ~IsUsed(invites[inv[r]])
          /\ pendInvite[r] = [invites[inv[r]] EXCEPT !.usedBy = who[r]]
          /\ pc[r] = "commit" => /\ pendUser[r] # NoRow
                                 /\ pendUser[r].by = invites[inv[r]].creator
    /\ pc[r] \in {"idle", "read"} =>
          users[NewUser[r]] = NoRow /\ \A c \in challenges : c.user # NewUser[r]

OneRedeemer ==
    \A r, q \in Requests : \A i \in InviteIDs : Holds(r, i) /\ Holds(q, i) => r = q

ChallengeInv ==
    \A c, d \in challenges :
        /\ invites[c.invite] # NoRow
        /\ c.user = d.user => c.invite = d.invite
        /\ users[c.user] # NoRow => UsedBy(c.invite, c.user)

(* All of it together with the types.                                     *)
IInv ==
    /\ TypeOK
    /\ OneRedeemer /\ ChallengeInv
    /\ \A r \in Requests : CreationInv(r) /\ RegistrationInv(r)
    /\ LimitedKeepsCap

(* A registration is never turned down by the database: a request that     *)
(* passes the checks of the handlers on an open invite is not refused by a *)
(* constraint, unless it repeats a scope.                                  *)
OpenInviteAdmits ==
    \A r \in Requests :
        pc[r] = "done" /\ verdict[r] = "constraint" => Repeats(keys[r])

(* What the two tables promise, whoever's requests overlap: every commit   *)
(* is one step in which an invite is offered, within the cap if the        *)
(* handler was given the limited policy, or an unused invite admits one    *)
(* new user (CreateInvite.Execute, FinishInviteRegistration.Execute).      *)
Book == INSTANCE InviteBook WITH capped     <- wired = "limited",
                                 LastExpiry <- MaxTime + TTL + RootTTL + ChallengeTTL

OneBook == Book!BookSpec
=============================================================================
