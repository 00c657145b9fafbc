------------------------------ MODULE MCAnswered ------------------------------
(***************************************************************************)
(* Is every request answered?  Invites, Sessions and Logins, each with two *)
(* requests at a time; subject says which of them a behaviour is about, if *)
(* it is about any.  What two of them call by one name is one variable.    *)
(***************************************************************************)
EXTENDS Naturals

CONSTANTS
    r1, r2, u1, u2, s1, s2, s3, x, n1, n2,
    u0, ua, c1, c2, m1, m2, i1, i2, i3, j1, j2, main,
    a1, a2, b1,
    NoRow, Nothing

VARIABLES
    subject,
    clock, op, who, now, pc, verdict, listed,
    table, tok, seen, cur, pend, known,
    wired, users, offered, challenges, lock, inv, keys, pendInvite, pendUser,
    credentials, sessions, given, results, cred, met

clocked     == <<clock, op, who, now>>
sessionVars == <<table, tok, seen, cur, pend, known>>
inviteVars  == <<wired, users, offered, challenges, lock, inv, keys, pendInvite, pendUser>>
loginVars   == <<credentials, sessions, given, results, cred, met>>

NotSessions == <<inviteVars, loginVars>>
NotInvites  == <<listed, sessionVars, loginVars>>
NotLogins   == <<clocked, sessionVars, inviteVars>>
answerVars  == <<subject, pc, verdict, listed, clocked, sessionVars, inviteVars, loginVars>>

Asked == {r1, r2}

(* The root, u0, invited ua; i1 is an invite of ua, i2 one of the root, i3 *)
(* none that there is; two clients hold challenges for i1.                 *)
Members == {u0, ua, c1, c2, m1, m2}
Codes   == {i1, i2, i3, j1, j2}

Unused(u, expires) == [creator |-> u, expires |-> expires, usedBy |-> Nothing]

I == INSTANCE Invites WITH
        invites         <- offered,
        Users           <- Members,
        Root            <- u0,
        InviteIDs       <- Codes,
        Requests        <- Asked,
        NewInvite       <- [r \in Asked |-> IF r = r1 THEN j1 ELSE j2],
        NewUser         <- [r \in Asked |-> IF r = r1 THEN m1 ELSE m2],
        InitUsers       <- [u \in Members |->
                               CASE u = u0 -> [role |-> "admin", by |-> Nothing, keys |-> {}]
                                 [] u = ua -> [role |-> "admin", by |-> u0, keys |-> {main}]
                                 [] OTHER  -> NoRow],
        InitInvites     <- [i \in Codes |->
                               CASE i = i1 -> Unused(ua, 1)
                                 [] i = i2 -> Unused(u0, 0)
                                 [] OTHER  -> NoRow],
        InitChallenges  <- {[invite |-> i1, user |-> c1, expires |-> 0],
                            [invite |-> i1, user |-> c2, expires |-> 1]},
        Scopes          <- {main},
        KeyLists        <- {<<>>, <<main>>, <<main, main>>},
        MaxKeys         <- 2,
        MaxActive       <- 1,
        TTL             <- 1,
        RootTTL         <- 2,
        ChallengeTTL    <- 1,
        CheckedAtCommit <- TRUE,
        Wirings         <- {"limited", "unlimited"},
        MaxTime         <- 1,
        MaxInFlight     <- 2,
        Handlers        <- {"create", "createRoot", "begin", "finish"},
        None            <- Nothing

(* u1 invited u2; s1 and s2 are live, s3 was revoked earlier; no row ever  *)
(* has the id x.                                                           *)
Old(u, expires, revoked) == [user |-> u, expires |-> expires, revoked |-> revoked]

S == INSTANCE Sessions WITH
        Users       <- {u1, u2},
        Requests    <- Asked,
        Tokens      <- {s1, s2, s3, x, n1, n2},
        NewID       <- [r \in Asked |-> IF r = r1 THEN n1 ELSE n2],
        InitTable   <- [s \in {s1, s2, s3, x, n1, n2} |->
                           CASE s = s1 -> Old(u1, 2, FALSE)
                             [] s = s2 -> Old(u2, 1, FALSE)
                             [] s = s3 -> Old(u2, 2, TRUE)
                             [] OTHER  -> NoRow],
        Descendants <- [u \in {u1, u2} |-> {u, u2}],
        RefreshTTL  <- 2,
        MaxTime     <- 1,
        MaxInFlight <- 2,
        Handlers    <- {"login", "clone", "refresh", "revokeSession", "revokeChain"},
        None        <- Nothing

(* ua has an authenticator a1 that counts and one, a2, that does not; ub   *)
(* has b1.                                                                 *)
L == INSTANCE Logins WITH
        result      <- results,
        Requests    <- Asked,
        Creds       <- {a1, a2, b1},
        Users       <- {u1, u2},
        Owner       <- [c \in {a1, a2, b1} |-> IF c = b1 THEN u2 ELSE u1],
        InitCount   <- [c \in {a1, a2, b1} |-> IF c = a1 THEN 1 ELSE 0],
        Assertions  <- {[cred |-> a1, count |-> n] : n \in 1..3} \cup
                       {[cred |-> a2, count |-> 0], [cred |-> b1, count |-> 1]},
        OldSessions <- {s1, s2, s3},
        OldOwner    <- [s \in {s1, s2, s3} |-> IF s = s3 THEN u2 ELSE u1],
        MaxInFlight <- 2,
        None        <- Nothing

NoClock    == clock = Nothing /\ op = Nothing /\ who = Nothing /\ now = Nothing
NoSessions ==
    /\ table = Nothing /\ tok = Nothing /\ seen = Nothing
    /\ cur = Nothing /\ pend = Nothing /\ known = Nothing
NoInvites ==
    /\ wired = Nothing /\ users = Nothing /\ offered = Nothing /\ challenges = Nothing
    /\ lock = Nothing /\ inv = Nothing /\ keys = Nothing
    /\ pendInvite = Nothing /\ pendUser = Nothing
NoLogins ==
    /\ credentials = Nothing /\ sessions = Nothing /\ given = Nothing
    /\ results = Nothing /\ cred = Nothing /\ met = Nothing

Silence ==
    /\ subject = "none"
    /\ pc = [r \in Asked |-> "idle"] /\ verdict = Nothing /\ listed = Nothing
    /\ NoClock /\ NoSessions /\ NoInvites /\ NoLogins

AnswersInit ==
    \/ subject = "sessions" /\ S!Init /\ NoInvites /\ NoLogins
    \/ subject = "invites"  /\ I!Init /\ NoSessions /\ NoLogins /\ listed = Nothing
    \/ subject = "logins"   /\ L!Init /\ NoSessions /\ NoInvites /\ NoClock

AnswersNext ==
    /\ UNCHANGED subject
    /\ \/ subject = "sessions" /\ S!Next /\ UNCHANGED NotSessions
       \/ subject = "invites"  /\ I!Next /\ UNCHANGED NotInvites
       \/ subject = "logins"   /\ L!Next /\ UNCHANGED NotLogins

GoOn(r) ==
    /\ UNCHANGED subject
    /\ \/ subject = "sessions" /\ S!Proceed(r) /\ UNCHANGED NotSessions
       \/ subject = "invites"  /\ I!Proceed(r) /\ UNCHANGED NotInvites
       \/ subject = "logins"   /\ L!Proceed(r) /\ UNCHANGED NotLogins

DetectDeadlock(r) ==
    /\ UNCHANGED <<subject, NotSessions>>
    /\ subject = "sessions" /\ S!DeadlockVictim(r)

(* Go runs every goroutine and PostgreSQL every statement that is not      *)
(* waiting for a lock, and PostgreSQL breaks every cycle of waits.  Nothing *)
(* makes clients send requests, statements fail or time pass.              *)
AnswersFairness ==
    \A r \in Asked : WF_answerVars(GoOn(r)) /\ WF_answerVars(DetectDeadlock(r))

(* Every request that was begun is answered: row locks and the advisory    *)
(* lock are handed on, and cycles of waits are broken (RunInTransaction,   *)
(* the FOR UPDATE queries, the upserts).                                   *)
EveryRequestAnswered ==
    \A r \in Asked : pc[r] \in S!InTx \cup I!Working \cup L!Working ~> pc[r] = "done"
=============================================================================
