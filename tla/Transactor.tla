------------------------------ MODULE Transactor ------------------------------
(***************************************************************************)
(* Storage.RunInTransaction and the pool of connections beneath it.        *)
(*                                                                         *)
(* A use case runs its function in a transaction, and so does a use case   *)
(* that it calls: whether a transaction is open is read off the context,   *)
(* and a call that finds one joins it.  Only the call that began it takes  *)
(* a connection from the pool, and only that one commits or rolls back, on *)
(* an error or on a panic of anything inside.                              *)
(*                                                                         *)
(* What is written is counted here, not named: Sessions, Invites and       *)
(* Logins say what the statements do to the tables and which rows they     *)
(* wait for.  Every process has a pool of its own; Process runs them.      *)
(***************************************************************************)
EXTENDS Naturals, Sequences, FiniteSets

CONSTANTS
    Instances, \* the processes that may run
    Requests,  \* the requests they receive, each handled once
    Received,  \* the operations that requests ask for
    MaxConns,  \* storage.max_open_conns
    None       \* no process

ASSUME ConnsAssumption == MaxConns \in Nat \ {0}
ASSUME NoneAssumption  == None \notin Instances

-----------------------------------------------------------------------------
(* What the use cases ask of the storage, call by call.  "error" is a use  *)
(* case that fails by itself, after what precedes it has succeeded; a save *)
(* of several rows is one "write" for each.                                *)

Transaction(function) == <<"enter">> \o function \o <<"leave">>

Issue     == Transaction(<<"write", "read">>)
Rotate    == Transaction(<<"read", "write", "write">>)
RevokeAll == Transaction(<<"read", "write", "write">>)

Refresh           == Transaction(<<"read">> \o Rotate)
RefreshReused     == Transaction(<<"read">> \o RevokeAll \o <<"error">>)
RevokeSession     == Transaction(<<"read", "write">>)
RevokeChain       == <<"read">> \o RevokeAll
CreateInvite      == Transaction(<<"read", "read", "write">>)
BeginRegistration == <<"read">>
Registration      == Transaction(<<"read", "write", "read", "write", "write", "write">>
                                 \o Issue)
Login             == <<"read">> \o Transaction(<<"read", "write", "read">> \o Issue)
LoginCloned       == <<"read">> \o Transaction(<<"read", "write">> \o RevokeAll)

Script ==
    [refresh |-> Refresh, reuse |-> RefreshReused, revokeSession |-> RevokeSession,
     revokeChain |-> RevokeChain, createInvite |-> CreateInvite,
     begin |-> BeginRegistration, finish |-> Registration,
     login |-> Login, clone |-> LoginCloned]

Operations == DOMAIN Script
Calls      == {"enter", "read", "write", "leave", "error"}

(* How many of the calls before the i-th are k's.                          *)
Before(s, i, k) == Cardinality({j \in 1..(i - 1) : s[j] = k})

Nesting(s, i) == Before(s, i, "enter") - Before(s, i, "leave")
Writes(s)     == Before(s, Len(s) + 1, "write")
Failing(s)    == \E j \in 1..Len(s) : s[j] = "error"

(* No use case writes outside of a transaction, or after the end of one.   *)
WellFormed(s) ==
    /\ s \in Seq(Calls)
    /\ \A i \in 1..Len(s) :
          /\ s[i] \in {"write", "leave", "error"} => Nesting(s, i) > 0
          /\ s[i] = "enter" /\ Nesting(s, i) = 0 => Before(s, i, "write") = 0
          /\ s[i] = "leave" /\ Nesting(s, i) = 1 =>
                /\ Before(s, i, "write") = Writes(s)
                /\ \A j \in (i + 1)..Len(s) : s[j] \notin {"enter", "error"}
    /\ Nesting(s, Len(s) + 1) = 0

ASSUME ScriptAssumption ==
    /\ Received \subseteq Operations
    /\ \A o \in Operations : WellFormed(Script[o])

-----------------------------------------------------------------------------
VARIABLES
    at,      \* the process that handles a request
    doing,   \* the operation it asks for
    pos,     \* the call its use case is about to make
    depth,   \* calls of RunInTransaction it is inside of
    held,    \* connections in use: the request, and the depth it was taken at
    written, \* writes of its open transaction
    stored,  \* writes it has committed
    answer,  \* what became of it
    closed   \* the pools that are being closed

reqVars == <<at, doing, pos, depth, held, written, stored, answer, closed>>

Answers == {"none", "ok", "error", "cut", "lost"}

TransactorInit ==
    /\ at      = [r \in Requests |-> None]
    /\ doing   = [r \in Requests |-> "begin"]
    /\ pos     = [r \in Requests |-> 1]
    /\ depth   = [r \in Requests |-> 0]
    /\ held    = {}
    /\ written = [r \in Requests |-> 0]
    /\ stored  = [r \in Requests |-> 0]
    /\ answer  = [r \in Requests |-> "none"]
    /\ closed  = {}

Working(r) == at[r] # None /\ answer[r] = "none"
Call(r)    == Script[doing[r]][pos[r]]
About(r, k) == Working(r) /\ pos[r] <= Len(Script[doing[r]]) /\ Call(r) = k

ConnsOf(r) == {c \in held : c[1] = r}
InUse(p)   == {c \in held : at[c[1]] = p}
Free(p)    == p \notin closed /\ Cardinality(InUse(p)) < MaxConns

Step(r)       == pos' = [pos EXCEPT ![r] = @ + 1]
Answer(r, a)  == answer' = [answer EXCEPT ![r] = a]

(* However a transaction ends, its connection goes back to the pool.       *)
EndTransaction(r) ==
    /\ held'    = held \ ConnsOf(r)
    /\ depth'   = [depth EXCEPT ![r] = 0]
    /\ written' = [written EXCEPT ![r] = 0]

(* A request reaches its use case.                                         *)
Arrive(r, p) ==
    /\ at[r] = None
    /\ at' = [at EXCEPT ![r] = p]
    /\ \E o \in Received : doing' = [doing EXCEPT ![r] = o]
    /\ UNCHANGED <<pos, depth, held, written, stored, answer, closed>>

-----------------------------------------------------------------------------
(* RunInTransaction.                                                       *)

\* Mutant: the context is not looked at.
EnterAnew(r) ==
    /\ About(r, "enter")
    /\ Free(at[r])
    /\ held'  = held \cup {<<r, depth[r] + 1>>}
    /\ depth' = [depth EXCEPT ![r] = @ + 1]
    /\ Step(r)
    /\ UNCHANGED <<at, doing, written, stored, answer, closed>>

(* A transaction that the context holds is joined; else one begins, as     *)
(* soon as the pool has a connection.                                      *)
Enter(r) ==
    /\ About(r, "enter")
    /\ \/ depth[r] > 0 /\ UNCHANGED held
       \/ depth[r] = 0 /\ Free(at[r]) /\ held' = held \cup {<<r, 1>>}
    /\ depth' = [depth EXCEPT ![r] = @ + 1]
    /\ Step(r)
    /\ UNCHANGED <<at, doing, written, stored, answer, closed>>

(* GetQueries: a statement uses the transaction of the context, or else    *)
(* any connection of the pool, for itself.                                 *)
Read(r) ==
    /\ About(r, "read")
    /\ depth[r] > 0 \/ Free(at[r])
    /\ Step(r)
    /\ UNCHANGED <<at, doing, depth, held, written, stored, answer, closed>>

Write(r) ==
    /\ About(r, "write")
    /\ IF depth[r] > 0
       THEN written' = [written EXCEPT ![r] = @ + 1] /\ UNCHANGED stored
       ELSE Free(at[r]) /\ stored' = [stored EXCEPT ![r] = @ + 1] /\ UNCHANGED written
    /\ Step(r)
    /\ UNCHANGED <<at, doing, depth, held, answer, closed>>

\* Mutant: whoever leaves commits.
LeaveCommits(r) ==
    /\ About(r, "leave")
    /\ stored' = [stored EXCEPT ![r] = @ + written[r]]
    /\ written' = [written EXCEPT ![r] = 0]
    /\ depth' = [depth EXCEPT ![r] = @ - 1]
    /\ IF depth[r] = 1 THEN held' = held \ ConnsOf(r) ELSE UNCHANGED held
    /\ Step(r)
    /\ UNCHANGED <<at, doing, answer, closed>>

(* The function of a call that joined returns: nothing happens yet.        *)
Leave(r) ==
    /\ About(r, "leave")
    /\ depth[r] > 1
    /\ depth' = [depth EXCEPT ![r] = @ - 1]
    /\ Step(r)
    /\ UNCHANGED <<at, doing, held, written, stored, answer, closed>>

(* The function of the call that began the transaction returns.            *)
Commit(r) ==
    /\ About(r, "leave")
    /\ depth[r] = 1
    /\ stored' = [stored EXCEPT ![r] = @ + written[r]]
    /\ EndTransaction(r)
    /\ Step(r)
    /\ UNCHANGED <<at, doing, answer, closed>>

(* The server commits, its reply is lost, and RunInTransaction fails.      *)
CommitUnseen(r) ==
    /\ About(r, "leave")
    /\ depth[r] = 1
    /\ stored' = [stored EXCEPT ![r] = @ + written[r]]
    /\ EndTransaction(r)
    /\ Answer(r, "error")
    /\ UNCHANGED <<at, doing, pos, closed>>

(* An error goes up through every call, and the one that began the         *)
(* transaction rolls it back, with a context that cannot be cancelled: a   *)
(* use case refuses, a statement fails, the client has gone away, the pool *)
(* is closed.                                                              *)
Rollback(r) ==
    /\ EndTransaction(r)
    /\ Answer(r, "error")
    /\ UNCHANGED <<at, doing, pos, stored, closed>>

Refuse(r)  == About(r, "error") /\ Rollback(r)
TurnAway(r) ==
    /\ About(r, "enter") \/ About(r, "read")
    /\ depth[r] = 0 /\ at[r] \in closed
    /\ Rollback(r)
Fail(r)    == Working(r) /\ Rollback(r)

(* A panic is recovered by the call that began the transaction, which      *)
(* rolls back and returns an error; outside of any, by the middleware.     *)
Panic(r) == Working(r) /\ Rollback(r)

(* The use case is done, and the handler answers.                          *)
Reply(r) ==
    /\ Working(r)
    /\ pos[r] > Len(Script[doing[r]])
    /\ Answer(r, "ok")
    /\ UNCHANGED <<at, doing, pos, depth, held, written, stored, closed>>

(* What a request can do when nothing goes wrong.                          *)
Proceed(r) ==
    \/ Enter(r) \/ Read(r) \/ Write(r) \/ Leave(r) \/ Commit(r)
    \/ Refuse(r) \/ TurnAway(r) \/ Reply(r)

RequestStep(r) == Proceed(r) \/ CommitUnseen(r) \/ Fail(r) \/ Panic(r)

-----------------------------------------------------------------------------
(* What happens to the pool of a process and to the requests it handles.   *)

HandledBy(p) == {r \in Requests : at[r] = p /\ Working(r)}

(* The pool hands out no more connections, and waits for those in use.     *)
ClosePool(p) ==
    /\ closed' = closed \cup {p}
    /\ UNCHANGED <<at, doing, pos, depth, held, written, stored, answer>>

(* The process is gone: PostgreSQL rolls back what it had open, and its    *)
(* clients get no answer.                                                  *)
Abandon(p, a) ==
    /\ answer'  = [r \in Requests |-> IF r \in HandledBy(p) THEN a ELSE answer[r]]
    /\ depth'   = [r \in Requests |-> IF at[r] = p THEN 0 ELSE depth[r]]
    /\ written' = [r \in Requests |-> IF at[r] = p THEN 0 ELSE written[r]]
    /\ held'    = held \ InUse(p)
    /\ closed'  = closed \ {p}
    /\ UNCHANGED <<at, doing, pos, stored>>

-----------------------------------------------------------------------------
(* Properties.                                                             *)

TransactorTypeOK ==
    /\ at      \in [Requests -> Instances \cup {None}]
    /\ doing   \in [Requests -> Operations]
    /\ pos     \in [Requests -> Nat]
    /\ depth   \in [Requests -> Nat]
    /\ held    \subseteq Requests \X Nat
    /\ written \in [Requests -> Nat]
    /\ stored  \in [Requests -> Nat]
    /\ answer  \in [Requests -> Answers]
    /\ closed  \subseteq Instances
    /\ \A p \in Instances : Cardinality(InUse(p)) <= MaxConns

(* A use case keeps all that it wrote or nothing, whichever of its calls   *)
(* opened the transaction: nothing at all if it failed by itself, and      *)
(* everything if it answered with success (RunInTransaction, runInTx).     *)
CommittedWhole ==
    \A r \in Requests :
        LET s == Script[doing[r]] IN
        /\ stored[r] \in {0, Writes(s)}
        /\ Failing(s) => stored[r] = 0
        /\ answer[r] = "ok" => ~Failing(s) /\ stored[r] = Writes(s)
=============================================================================
