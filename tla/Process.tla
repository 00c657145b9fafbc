------------------------------- MODULE Process -------------------------------
(***************************************************************************)
(* The life of the processes of the service, several of them on one        *)
(* database: main, di.Run, and what happens when they are told to stop.    *)
(*                                                                         *)
(* A process migrates the schema, finds the root user or creates it, makes *)
(* the invites it was asked for and prints their codes, listens, and       *)
(* serves requests until a signal; then its container shuts down the       *)
(* server and the pool, and it exits.  Any step of the start can fail, and *)
(* a process can be killed and started again at any moment: what it had    *)
(* committed stays.                                                        *)
(*                                                                         *)
(* There are two listeners for signals.  The first, from main, cancels the *)
(* context that every step of the start is given.  The second is installed *)
(* when the start is over and begins the shutdown.                         *)
(***************************************************************************)
EXTENDS Transactor

CONSTANTS
    Latest,       \* how many migrations there are
    CountInvites, \* --count-invites
    MaxStarts     \* bound: how often a process is started

ASSUME StartAssumption ==
    Latest \in Nat /\ CountInvites \in Nat /\ MaxStarts \in Nat

VARIABLES
    stage,    \* how far a process is
    told,     \* has it had a signal, so that its context is cancelled?
    version,  \* the version of the schema it has read
    root,     \* the user that it takes for the root
    made,     \* how many invites it has made
    starts,   \* how often it was started
    schema,   \* the version of the schema
    roots,    \* the users without an inviter
    invites,  \* the invites of the root: process, start and number
    printed   \* those whose code was printed

dbVars   == <<schema, roots, invites, printed>>
lifeVars == <<stage, told, version, root, made, starts, dbVars>>
vars     == <<reqVars, lifeVars>>

(* The stages, in the order of Run.  The container builds the storage and  *)
(* pings the database in the first.                                        *)
Starting  == {"schema", "migrate", "find", "insert", "invite", "print", "listen"}
AtBase    == {"schema", "migrate", "find", "insert", "invite"}
Accepting == {"open", "serve", "stop"}
Stages    == {"off", "close"} \cup Starting \cup Accepting

Goto(p, s) == stage' = [stage EXCEPT ![p] = s]

Invite(p, k) == <<p, starts[p], k>>
OwnInvites(p) == {Invite(p, k) : k \in 1..CountInvites}

Init ==
    /\ TransactorInit
    /\ stage   = [p \in Instances |-> "off"]
    /\ told    = [p \in Instances |-> FALSE]
    /\ version = [p \in Instances |-> 0]
    /\ root    = [p \in Instances |-> None]
    /\ made    = [p \in Instances |-> 0]
    /\ starts  = [p \in Instances |-> 0]
    /\ schema  = 0
    /\ roots   = {}
    /\ invites = {}
    /\ printed = {}

-----------------------------------------------------------------------------
(* The start.                                                              *)

Start(p) ==
    /\ stage[p] = "off"
    /\ starts[p] < MaxStarts
    /\ starts' = [starts EXCEPT ![p] = @ + 1]
    /\ told'   = [told EXCEPT ![p] = FALSE]
    /\ root'   = [root EXCEPT ![p] = None]
    /\ made'   = [made EXCEPT ![p] = 0]
    /\ Goto(p, "schema")
    /\ UNCHANGED <<version, dbVars, reqVars>>

(* A step of the start that uses the database, with the context of main.   *)
AtStage(p, s) == stage[p] = s /\ ~told[p] /\ UNCHANGED <<told, starts, reqVars>>

(* goose reads the version, and applies the next migration in a            *)
(* transaction of its own; nothing keeps two processes apart.              *)
ReadVersion(p) ==
    /\ AtStage(p, "schema")
    /\ version' = [version EXCEPT ![p] = schema]
    /\ Goto(p, IF schema = Latest THEN "find" ELSE "migrate")
    /\ UNCHANGED <<root, made, dbVars>>

Migrate(p) ==
    /\ AtStage(p, "migrate")
    /\ schema = version[p]
    /\ schema' = schema + 1
    /\ Goto(p, "schema")
    /\ UNCHANGED <<version, root, made, roots, invites, printed>>

FindRoot(p) ==
    /\ AtStage(p, "find")
    /\ IF roots = {}
       THEN root' = root /\ Goto(p, "insert")
       ELSE \E u \in roots : root' = [root EXCEPT ![p] = u] /\ Goto(p, "invite")
    /\ UNCHANGED <<version, made, dbVars>>

\* Mutant: the schema has no idx_users_single_root.
InsertAny(p) ==
    /\ AtStage(p, "insert")
    /\ roots' = roots \cup {p}
    /\ root' = [root EXCEPT ![p] = p]
    /\ Goto(p, "invite")
    /\ UNCHANGED <<version, made, schema, invites, printed>>

(* SaveUser is a plain INSERT, and idx_users_single_root admits one row.   *)
(* A root is named after the process that creates it.                      *)
InsertRoot(p) ==
    /\ AtStage(p, "insert")
    /\ roots = {}
    /\ roots' = {p}
    /\ root' = [root EXCEPT ![p] = p]
    /\ Goto(p, "invite")
    /\ UNCHANGED <<version, made, schema, invites, printed>>

(* The server inserts the root and the process does not hear of it.        *)
InsertUnseen(p) ==
    /\ AtStage(p, "insert")
    /\ roots = {}
    /\ roots' = {p}
    /\ Goto(p, "off")
    /\ UNCHANGED <<version, root, made, schema, invites, printed>>

\* Mutant: an invite that failed is skipped.
SkipInvite(p) ==
    /\ AtStage(p, "invite")
    /\ made[p] < CountInvites
    /\ made' = [made EXCEPT ![p] = @ + 1]
    /\ \E kept \in {{}, {Invite(p, made[p] + 1)}} : invites' = invites \cup kept
    /\ UNCHANGED <<stage, version, root, schema, roots, printed>>

\* Mutant: off by one.
MakeOneMore(p) ==
    /\ AtStage(p, "invite")
    /\ made[p] <= CountInvites
    /\ made' = [made EXCEPT ![p] = @ + 1]
    /\ invites' = invites \cup {Invite(p, made[p] + 1)}
    /\ UNCHANGED <<stage, version, root, schema, roots, printed>>

(* createRootInvites: one transaction for each invite.                     *)
MakeInvite(p) ==
    /\ AtStage(p, "invite")
    /\ made[p] < CountInvites
    /\ made' = [made EXCEPT ![p] = @ + 1]
    /\ invites' = invites \cup {Invite(p, made[p] + 1)}
    /\ UNCHANGED <<stage, version, root, schema, roots, printed>>

MakeInviteUnseen(p) ==
    /\ AtStage(p, "invite")
    /\ made[p] < CountInvites
    /\ invites' = invites \cup {Invite(p, made[p] + 1)}
    /\ Goto(p, "off")
    /\ UNCHANGED <<version, root, made, schema, roots, printed>>

(* From here on nothing looks at the context.                              *)
InvitesMade(p) ==
    /\ stage[p] = "invite"
    /\ made[p] = CountInvites
    /\ Goto(p, IF CountInvites > 0 THEN "print" ELSE "listen")
    /\ UNCHANGED <<told, version, root, made, starts, dbVars, reqVars>>

PrintInvites(p) ==
    /\ stage[p] = "print"
    /\ printed' = printed \cup OwnInvites(p)
    /\ Goto(p, "listen")
    /\ UNCHANGED <<told, version, root, made, starts, schema, roots, invites, reqVars>>

Listen(p) ==
    /\ stage[p] = "listen"
    /\ Goto(p, "open")
    /\ UNCHANGED <<told, version, root, made, starts, dbVars, reqVars>>

(* ShutdownOnSignals installs its listener and waits.                      *)
Await(p) ==
    /\ stage[p] = "open"
    /\ Goto(p, "serve")
    /\ UNCHANGED <<told, version, root, made, starts, dbVars, reqVars>>

(* Any step of the start can fail: main exits.  A step that uses the       *)
(* database does fail once the context is cancelled, or when another       *)
(* process was there before it.                                            *)
StartFails(p) ==
    /\ stage[p] \in Starting
    /\ Goto(p, "off")
    /\ UNCHANGED <<told, version, root, made, starts, dbVars, reqVars>>

Overtaken(p) ==
    \/ stage[p] = "migrate" /\ schema # version[p]
    \/ stage[p] = "insert" /\ roots # {}

Cancelled(p) ==
    /\ told[p]
    /\ stage[p] \in AtBase
    /\ stage[p] = "invite" => made[p] < CountInvites

MustFail(p) == (Overtaken(p) \/ Cancelled(p)) /\ StartFails(p)

-----------------------------------------------------------------------------
(* Requests and the end.                                                   *)

Accept(r) ==
    /\ \E p \in Instances : stage[p] \in Accepting /\ Arrive(r, p)
    /\ UNCHANGED lifeVars

Serve(r) == RequestStep(r) /\ UNCHANGED lifeVars

(* SIGTERM or an interrupt.  One that comes before the second listener is  *)
(* installed only cancels the context.                                     *)
Signal(p) ==
    /\ stage[p] \in {"open", "serve"} \cup Starting
    /\ stage[p] # "serve" => ~told[p]
    /\ told' = [told EXCEPT ![p] = TRUE]
    /\ Goto(p, IF stage[p] = "serve" THEN "stop" ELSE stage[p])
    /\ UNCHANGED <<version, root, made, starts, dbVars, reqVars>>

(* http.Server.Shutdown closes the listener.  It would wait for requests   *)
(* at work as long as its context lasts, and that one is already cancelled.*)
StopServer(p) ==
    /\ stage[p] = "stop"
    /\ Goto(p, "close")
    /\ ClosePool(p)
    /\ UNCHANGED <<told, version, root, made, starts, dbVars>>

(* Storage.Shutdown waits for the connections in use; then main returns.   *)
Exit(p) ==
    /\ stage[p] = "close"
    /\ InUse(p) = {}
    /\ Goto(p, "off")
    /\ Abandon(p, "cut")
    /\ UNCHANGED <<told, version, root, made, starts, dbVars>>

(* The process or its machine dies.                                        *)
Kill(p) ==
    /\ stage[p] # "off"
    /\ Goto(p, "off")
    /\ Abandon(p, "lost")
    /\ UNCHANGED <<told, version, root, made, starts, dbVars>>

(* What a process can do when nothing goes wrong.                          *)
Advance(p) ==
    \/ ReadVersion(p) \/ Migrate(p) \/ FindRoot(p) \/ InsertRoot(p)
    \/ MakeInvite(p) \/ InvitesMade(p) \/ PrintInvites(p) \/ Listen(p) \/ Await(p)
    \/ MustFail(p) \/ StopServer(p) \/ Exit(p)

ProcessStep(p) ==
    \/ Start(p) \/ Advance(p) \/ InsertUnseen(p) \/ MakeInviteUnseen(p)
    \/ StartFails(p) \/ Signal(p) \/ Kill(p)

(* No process need ever be started again.                                  *)
Finished == (\A p \in Instances : stage[p] = "off") /\ UNCHANGED vars

Next ==
    \/ \E p \in Instances : ProcessStep(p)
    \/ \E r \in Requests : Accept(r) \/ Serve(r)
    \/ Finished

Spec == Init /\ [][Next]_vars

Fairness ==
    /\ \A p \in Instances : WF_vars(Advance(p))
    /\ \A r \in Requests : WF_vars(Proceed(r) /\ UNCHANGED lifeVars)

FairSpec == Spec /\ Fairness

-----------------------------------------------------------------------------
(* Properties.                                                             *)

ProcessTypeOK ==
    /\ TransactorTypeOK
    /\ stage   \in [Instances -> Stages]
    /\ told    \in [Instances -> BOOLEAN]
    /\ version \in [Instances -> 0..Latest]
    /\ root    \in [Instances -> Instances \cup {None}]
    /\ made    \in [Instances -> 0..CountInvites]
    /\ starts  \in [Instances -> 0..MaxStarts]
    /\ schema  \in 0..Latest
    /\ roots   \subseteq Instances
    /\ invites \subseteq Instances \X (1..MaxStarts) \X (1..CountInvites)
    /\ printed \subseteq invites
    /\ \A r \in Requests : Working(r) => stage[at[r]] \in Accepting \cup {"close"}

(* Whatever other processes start meanwhile, one that makes invites or     *)
(* serves does so for the only root there is, on the latest schema         *)
(* (BootstrapRoot.Execute, idx_users_single_root).                         *)
ServesTheRoot ==
    \A p \in Instances :
        stage[p] \in {"invite", "print", "listen", "close"} \cup Accepting =>
            roots = {root[p]} /\ schema = Latest

(* A process that listens has printed the code of every invite it made,    *)
(* and no code is ever printed of an invite that is not committed, not     *)
(* even after a crash between two of them (createRootInvites).             *)
CodesHandedOut ==
    /\ printed \subseteq invites
    /\ \A p \in Instances :
          stage[p] \in {"listen", "close"} \cup Accepting =>
              {v \in invites : v[1] = p /\ v[2] = starts[p]} = OwnInvites(p) /\
              OwnInvites(p) \subseteq printed

(* Nobody waits for ever.  A request that has reached its use case is      *)
(* answered or abandoned, however few connections the pool has; a process  *)
(* that is told to stop while it serves does stop; and one that is told    *)
(* while it still works on the database does not go on.                    *)
NothingHangs ==
    /\ \A r \in Requests : Working(r) ~> ~Working(r)
    /\ \A p \in Instances :
          stage[p] = "stop" \/ Cancelled(p) ~> stage[p] = "off"

(* A request that was accepted is answered before the process exits.       *)
DrainedBeforeExit == \A r \in Requests : answer[r] # "cut"
=============================================================================
