------------------------------ MODULE MCProcess ------------------------------
(***************************************************************************)
(* Values for the constants of Process, in rehearsals.  In "starts" two    *)
(* processes start, stop and crash on one database and no requests come;   *)
(* in "requests" one of them starts without trouble and serves requests    *)
(* until it is told to stop or killed.  What requests and starts do to     *)
(* each other goes through one process at a time, so the two cover what    *)
(* both together would.  "pools" and "group" are what goes on inside of    *)
(* one process: requests that share the pooled hashes and ids, and the     *)
(* group that shuts its telemetry down.  Neither touches a table, so that  *)
(* they are rehearsed by themselves.  "answers" is what two requests in a  *)
(* transaction each do to each other (MCAnswered), once they have one.     *)
(***************************************************************************)
EXTENDS Process, Pools, Group, MCAnswered, TLC

CONSTANTS p1, p2, h1, h2, b2, t1, t2, f1, f2, f3

VARIABLE rehearsal

(* t1 brings t2 and registers a final function, and that one another.      *)
MCBy == (t1 :> Owner) @@ (t2 :> t1) @@
        (f1 :> Owner) @@ (f2 :> t1) @@ (f3 :> f2)

MCInit ==
    /\ Init /\ PoolsInit /\ GroupInit
    /\ \/ rehearsal \in {"starts", "requests", "pools", "group"} /\ Silence
       \/ rehearsal = "answers" /\ AnswersInit

Rehearse ==
    \/ rehearsal = "starts" /\ \E p \in Instances : ProcessStep(p)
    \/ rehearsal = "requests" /\ (Advance(p1) \/ (starts[p1] = 0 /\ Start(p1)))
    \/ rehearsal = "requests" /\ stage[p1] \notin Starting \cup {"off"} /\ ProcessStep(p1)
    \/ rehearsal = "requests" /\ \E r \in Requests : Accept(r) \/ Serve(r)
    \/ rehearsal \in {"starts", "requests"} /\ Finished

RehearsePools ==
    /\ rehearsal = "pools"
    /\ PoolsNext \/ (PoolsDone /\ UNCHANGED poolVars)

RehearseGroup ==
    /\ rehearsal = "group"
    /\ GroupNext \/ (GroupDone /\ UNCHANGED groupVars)

MCNext ==
    /\ UNCHANGED rehearsal
    /\ \/ Rehearse /\ UNCHANGED <<poolVars, groupVars, answerVars>>
       \/ RehearsePools /\ UNCHANGED <<vars, groupVars, answerVars>>
       \/ RehearseGroup /\ UNCHANGED <<vars, poolVars, answerVars>>
       \/ /\ rehearsal = "answers"
          /\ AnswersNext /\ UNCHANGED <<vars, poolVars, groupVars>>

allVars == <<rehearsal, vars, poolVars, groupVars, answerVars>>

MCSpec == MCInit /\ [][MCNext]_allVars /\ Fairness /\ AnswersFairness
=============================================================================
