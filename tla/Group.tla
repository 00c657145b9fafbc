-------------------------------- MODULE Group --------------------------------
(***************************************************************************)
(* errkit.Group, with which telemetry is shut down: functions that run at  *)
(* the same time (Go), functions that run one after the other when those   *)
(* have returned (Finally), and one error of all their errors (Wait).      *)
(*                                                                         *)
(* The owner of the group, any function that runs, and any final function  *)
(* may call Go's functions into being or register final ones; By says who  *)
(* would.  Wait is called once, by the owner.                              *)
(***************************************************************************)
EXTENDS Integers, Sequences, FiniteSets

CONSTANTS
    Tasks,  \* the functions given to Go
    Finals, \* the functions given to Finally
    Owner,  \* the goroutine that has the group
    By      \* who gives a function to the group

Runners == Tasks \cup {Owner}

ASSUME GroupAssumption ==
    /\ Tasks \cap Finals = {} /\ Owner \notin Tasks \cup Finals
    /\ \A t \in Tasks : By[t] \in Runners
    /\ \A f \in Finals : By[f] \in Runners \cup Finals

(* A function returns nil, an error, an Error of several or of none (a nil *)
(* pointer), or panics, which NewPanicError makes an error of.             *)
Outcomes == {"nil", "error", "several", "none", "panic"}

Errors(x, o) ==
    CASE o \in {"error", "panic"} -> << <<x, 1>> >>
      [] o = "several"            -> << <<x, 1>>, <<x, 2>> >>
      [] OTHER                    -> << >>

Functions == Tasks \cup Finals

VARIABLES
    task,     \* where the goroutine of a function is
    outcome,  \* how a function has ended
    mutex,    \* who holds the mutex
    err,      \* g.err: whether it is set, and its list
    read,     \* what a runner has read of it
    finally,  \* g.finally
    waiting,  \* where the owner is
    list,     \* what Wait took of it, and has not run yet
    registered, \* the final functions that were ever registered
    result    \* what Wait has returned

groupVars == <<task, outcome, mutex, err, read, finally, waiting, list, registered, result>>

Unset == [set |-> FALSE, errors |-> << >>]

GroupInit ==
    /\ task       = [t \in Tasks |-> "idle"]
    /\ outcome    = [x \in Functions |-> "pending"]
    /\ mutex      = {}
    /\ err        = Unset
    /\ read       = [x \in Runners |-> Unset]
    /\ finally    = << >>
    /\ waiting    = "no"
    /\ list       = << >>
    /\ registered = {}
    /\ result     = Unset

(* Who runs, so that it may call the group.                                *)
Active(x) ==
    CASE x \in Tasks -> task[x] = "run"
      [] x = Owner   -> waiting = "no"
      [] OTHER       -> waiting = "finals" /\ list # << >> /\ Head(list) = x

-----------------------------------------------------------------------------
(* Go: the function begins.                                                *)
Go(t) ==
    /\ task[t] = "idle"
    /\ Active(By[t])
    /\ task' = [task EXCEPT ![t] = "run"]
    /\ UNCHANGED <<outcome, mutex, err, read, finally, waiting, list, registered, result>>

(* Finally, under the mutex.                                               *)
Finally(f) ==
    /\ f \notin registered
    /\ Active(By[f])
    /\ mutex = {}
    /\ finally'    = Append(finally, f)
    /\ registered' = registered \cup {f}
    /\ UNCHANGED <<task, outcome, mutex, err, read, waiting, list, result>>

(* Append copies the list it finds and adds what an error consists of.     *)
With(e, x) == [set |-> TRUE, errors |-> e.errors \o Errors(x, outcome[x])]

(* A function given to Go ends; nil is all that is not added.              *)
EndTask(t, o) ==
    /\ task[t] = "run"
    /\ outcome' = [outcome EXCEPT ![t] = o]
    /\ task' = [task EXCEPT ![t] = IF o = "nil" THEN "done" ELSE "lock"]
    /\ UNCHANGED <<mutex, err, read, finally, waiting, list, registered, result>>

\* Mutant: Add without the mutex.
AddUnlocked(x) ==
    /\ mutex' = mutex \cup {x}
    /\ read' = [read EXCEPT ![x] = err]

(* Add: g.err is read and replaced while the mutex is held.                *)
AddLock(x) ==
    /\ mutex = {}
    /\ mutex' = {x}
    /\ read' = [read EXCEPT ![x] = err]

AddStore(x, f) ==
    /\ x \in mutex
    /\ err' = With(read[x], f)
    /\ mutex' = mutex \ {x}
    /\ read' = [read EXCEPT ![x] = Unset]

TaskLocks(t) ==
    /\ task[t] = "lock"
    /\ AddLock(t)
    /\ task' = [task EXCEPT ![t] = "store"]
    /\ UNCHANGED <<outcome, err, finally, waiting, list, registered, result>>

TaskStores(t) ==
    /\ task[t] = "store"
    /\ AddStore(t, t)
    /\ task' = [task EXCEPT ![t] = "done"]
    /\ UNCHANGED <<outcome, finally, waiting, list, registered, result>>

-----------------------------------------------------------------------------
(* Wait.                                                                   *)

Wait ==
    /\ waiting = "no"
    /\ waiting' = "tasks"
    /\ UNCHANGED <<task, outcome, mutex, err, read, finally, list, registered, result>>

(* The WaitGroup is empty, and the final functions are taken.              *)
TakeFinals ==
    /\ waiting = "tasks"
    /\ \A t \in Tasks : task[t] \in {"idle", "done"}
    /\ mutex = {}
    /\ list' = finally
    /\ finally' = << >>
    /\ waiting' = "finals"
    /\ UNCHANGED <<task, outcome, mutex, err, read, registered, result>>

(* A final function ends; its panic is not recovered here and takes Wait   *)
(* with it.                                                                *)
EndFinal(o) ==
    /\ waiting = "finals" /\ list # << >>
    /\ outcome' = [outcome EXCEPT ![Head(list)] = o]
    /\ CASE o = "nil"   -> waiting' = "finals" /\ list' = Tail(list)
         [] o = "panic" -> waiting' = "panicked" /\ UNCHANGED list
         [] OTHER       -> waiting' = "lock" /\ UNCHANGED list
    /\ UNCHANGED <<task, mutex, err, read, finally, registered, result>>

OwnerLocks ==
    /\ waiting = "lock"
    /\ AddLock(Owner)
    /\ waiting' = "store"
    /\ UNCHANGED <<task, outcome, err, finally, list, registered, result>>

OwnerStores ==
    /\ waiting = "store"
    /\ AddStore(Owner, Head(list))
    /\ waiting' = "finals"
    /\ list' = Tail(list)
    /\ UNCHANGED <<task, outcome, finally, registered, result>>

Returns ==
    /\ waiting = "finals" /\ list = << >>
    /\ mutex = {}
    /\ result' = err
    /\ waiting' = "returned"
    /\ UNCHANGED <<task, outcome, mutex, err, read, finally, list, registered>>

GroupNext ==
    \/ \E t \in Tasks : Go(t) \/ TaskLocks(t) \/ TaskStores(t)
    \/ \E t \in Tasks, o \in Outcomes : EndTask(t, o)
    \/ \E f \in Finals : Finally(f)
    \/ \E o \in Outcomes : EndFinal(o)
    \/ Wait \/ TakeFinals \/ OwnerLocks \/ OwnerStores \/ Returns

GroupSpec == GroupInit /\ [][GroupNext]_groupVars

GroupDone == waiting \in {"returned", "panicked"}

-----------------------------------------------------------------------------
Times(s, e) == Cardinality({k \in 1..Len(s) : s[k] = e})

(* Wait answers for what was given to Go, and for the final functions that *)
(* were registered before it took them.                                    *)
AnswersFor(x) ==
    IF x \in Tasks THEN task[x] # "idle" ELSE x \in registered /\ By[x] \in Runners

(* When Wait returns, all of these have ended, and the error says every    *)
(* failure and every panic of theirs once and nothing else; it is nil just *)
(* if there was none (Add, Go, Wait).                                      *)
WaitTellsAll ==
    waiting = "returned" =>
        /\ \A x \in Functions : (outcome[x] # "pending") = AnswersFor(x)
        /\ result.set = (\E x \in Functions : outcome[x] \notin {"pending", "nil"})
        /\ \A x \in Functions, k \in 1..2 :
              Times(result.errors, <<x, k>>) = Times(Errors(x, outcome[x]), <<x, k>>)
=============================================================================
