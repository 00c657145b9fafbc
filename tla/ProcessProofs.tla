---------------------------- MODULE ProcessProofs ----------------------------
(***************************************************************************)
(* What Transactor and Process guarantee for any number of processes,      *)
(* requests, connections, migrations, invites and starts, with proofs.     *)
(***************************************************************************)
EXTENDS Process, FiniteSetTheorems, TLAPS

-----------------------------------------------------------------------------
(* What makes the properties of Transactor inductive.                      *)

(* Where a request is in its use case tells what it has written, and       *)
(* whether that is committed.                                              *)
Follows(r) ==
    LET s == Script[doing[r]] IN
    /\ pos[r] \in 1..(Len(s) + 1)
    /\ \A j \in 1..(pos[r] - 1) : s[j] # "error"
    /\ depth[r] = IF Working(r) THEN Nesting(s, pos[r]) ELSE 0
    /\ depth[r] = 0 => written[r] = 0
    /\ depth[r] > 0 => written[r] = Before(s, pos[r], "write") /\ stored[r] = 0
    /\ Working(r) /\ depth[r] = 0 => stored[r] = Before(s, pos[r], "write")
    /\ at[r] = None => answer[r] = "none" /\ pos[r] = 1 /\ stored[r] = 0

(* Whole of one request.                                                   *)
Whole(r) ==
    LET s == Script[doing[r]] IN
    /\ stored[r] \in {0, Writes(s)}
    /\ Failing(s) => stored[r] = 0
    /\ answer[r] = "ok" => ~Failing(s) /\ stored[r] = Writes(s)

(* Only a request inside of a transaction has a connection.                *)
Holding ==
    /\ IsFiniteSet(held)
    /\ \A c \in held : c[1] \in Requests /\ Working(c[1]) /\ depth[c[1]] > 0

ReqInv ==
    /\ TransactorTypeOK /\ Holding
    /\ \A r \in Requests : Follows(r) /\ Whole(r)

-----------------------------------------------------------------------------
(* Counting calls.                                                         *)

(* Nothing comes before the first call.                                    *)
LEMMA BeforeFirst ==
    ASSUME NEW s, NEW k
    PROVE  Before(s, 1, k) = 0
<1>1. {j \in 1..(1 - 1) : s[j] = k} = {}
  OBVIOUS
<1>. QED
  BY <1>1, FS_EmptySet DEF Before

(* A call is counted when it is passed.                                    *)
LEMMA BeforeNext ==
    ASSUME NEW s, NEW i \in Nat \ {0}, NEW k
    PROVE  /\ Before(s, i, k) \in Nat
           /\ Before(s, i + 1, k) = Before(s, i, k) + (IF s[i] = k THEN 1 ELSE 0)
<1>. DEFINE A == {j \in 1..(i - 1) : s[j] = k}
            B == {j \in 1..((i + 1) - 1) : s[j] = k}
<1>1. IsFiniteSet(A)
  <2>1. IsFiniteSet(1..(i - 1))
    BY FS_Interval
  <2>. QED
    BY <2>1, FS_Subset
<1>2. Cardinality(A) \in Nat /\ i \notin A
  BY <1>1, FS_CardinalityType
<1>3. B = IF s[i] = k THEN A \cup {i} ELSE A
  OBVIOUS
<1>4. s[i] = k => Cardinality(B) = Cardinality(A) + 1
  BY <1>1, <1>2, <1>3, FS_AddElement
<1>5. s[i] # k => Cardinality(B) = Cardinality(A)
  BY <1>3
<1>. HIDE DEF A, B
<1>6. Before(s, i, k) = Cardinality(A) /\ Before(s, i + 1, k) = Cardinality(B)
  BY DEF Before, A, B
<1>. QED
  BY <1>2, <1>4, <1>5, <1>6

(* What a call does to the counts of a use case.                           *)
LEMMA Passing ==
    ASSUME NEW s, NEW i \in Nat \ {0}
    PROVE  /\ Nesting(s, i) \in Int
           /\ Before(s, i, "write") \in Nat
           /\ Nesting(s, 1) = 0 /\ Before(s, 1, "write") = 0
           /\ s[i] = "enter" => /\ Nesting(s, i + 1) = Nesting(s, i) + 1
                                /\ Before(s, i + 1, "write") = Before(s, i, "write")
           /\ s[i] = "leave" => /\ Nesting(s, i + 1) = Nesting(s, i) - 1
                                /\ Before(s, i + 1, "write") = Before(s, i, "write")
           /\ s[i] = "write" => /\ Nesting(s, i + 1) = Nesting(s, i)
                                /\ Before(s, i + 1, "write") = Before(s, i, "write") + 1
           /\ s[i] = "read"  => /\ Nesting(s, i + 1) = Nesting(s, i)
                                /\ Before(s, i + 1, "write") = Before(s, i, "write")
<1>1. \A k \in Calls :
         /\ Before(s, i, k) \in Nat /\ Before(s, 1, k) = 0
         /\ Before(s, i + 1, k) = Before(s, i, k) + (IF s[i] = k THEN 1 ELSE 0)
  BY BeforeFirst, BeforeNext
<1>. QED
  BY <1>1 DEF Nesting, Calls

(* What the use cases are like.                                            *)
LEMMA Scripts ==
    ASSUME NEW o \in Operations
    PROVE  /\ Script[o] \in Seq(Calls) /\ Len(Script[o]) \in Nat
           /\ WellFormed(Script[o])
BY ScriptAssumption DEF WellFormed

(* What a call says of the place it has in a use case.                     *)
LEMMA Formed ==
    ASSUME NEW s, WellFormed(s), NEW i \in 1..Len(s)
    PROVE  /\ s[i] = "write" => Nesting(s, i) > 0
           /\ s[i] = "enter" /\ Nesting(s, i) = 0 => Before(s, i, "write") = 0
           /\ s[i] = "leave" /\ Nesting(s, i) = 1 =>
                 /\ Before(s, i, "write") = Writes(s)
                 /\ \A j \in (i + 1)..Len(s) : s[j] # "error"
BY DEF WellFormed

(* What a request is about to do.                                          *)
LEMMA Position ==
    ASSUME ReqInv, NEW r \in Requests
    PROVE  /\ doing[r] \in Operations /\ WellFormed(Script[doing[r]])
           /\ Len(Script[doing[r]]) \in Nat
           /\ pos[r] \in Nat \ {0} /\ depth[r] \in Nat
           /\ written[r] \in Nat /\ stored[r] \in Nat
           /\ Follows(r) /\ Whole(r)
<1>1. doing[r] \in Operations
  BY DEF ReqInv, TransactorTypeOK
<1>2. WellFormed(Script[doing[r]]) /\ Len(Script[doing[r]]) \in Nat
  BY <1>1, Scripts
<1>3. pos[r] \in 1..(Len(Script[doing[r]]) + 1)
  BY DEF ReqInv, Follows
<1>. QED
  BY <1>1, <1>2, <1>3 DEF ReqInv, TransactorTypeOK
-----------------------------------------------------------------------------
(* The steps of a request.                                                 *)

(* A step of a request leaves the others alone.                            *)
LEMMA RequestFrame ==
    ASSUME TransactorTypeOK, NEW r \in Requests,
           RequestStep(r) \/ \E p \in Instances : Arrive(r, p),
           NEW q \in Requests \ {r}
    PROVE  /\ at'[q] = at[q] /\ doing'[q] = doing[q] /\ pos'[q] = pos[q]
           /\ depth'[q] = depth[q] /\ written'[q] = written[q]
           /\ stored'[q] = stored[q] /\ answer'[q] = answer[q]
<1>1. CASE Enter(r) \/ Read(r) \/ Write(r) \/ Leave(r) \/ Reply(r)
  BY <1>1 DEF TransactorTypeOK, Enter, Read, Write, Leave, Reply, Step, Answer
<1>2. CASE Commit(r) \/ CommitUnseen(r)
  BY <1>2 DEF TransactorTypeOK, Commit, CommitUnseen, EndTransaction, Step, Answer
<1>3. CASE Rollback(r)
  BY <1>3 DEF TransactorTypeOK, Rollback, EndTransaction, Answer
<1>4. CASE \E p \in Instances : Arrive(r, p)
  BY <1>4 DEF TransactorTypeOK, Arrive
<1>. QED
  BY <1>1, <1>2, <1>3, <1>4
     DEF RequestStep, Proceed, Refuse, TurnAway, Fail, Panic

(* The steps, by what they change.                                         *)
LEMMA RequestKinds ==
    ASSUME NEW r \in Requests, RequestStep(r)
    PROVE  /\ Working(r)
           /\ \/ Enter(r) \/ Read(r) \/ Write(r) \/ Leave(r) \/ Reply(r)
              \/ Commit(r) \/ CommitUnseen(r) \/ Rollback(r)
BY DEF RequestStep, Proceed, Refuse, TurnAway, Fail, Panic, About,
       Enter, Read, Write, Leave, Reply, Commit, CommitUnseen

(* A call that neither begins nor ends a transaction nor answers.          *)
LEMMA FollowsCall ==
    ASSUME ReqInv, NEW r \in Requests, Enter(r) \/ Read(r) \/ Write(r) \/ Leave(r)
    PROVE  Follows(r)' /\ Whole(r)'
<1>. DEFINE s == Script[doing[r]]
            i == pos[r]
<1>1. /\ WellFormed(s) /\ Len(s) \in Nat /\ i \in Nat \ {0} /\ depth[r] \in Nat
      /\ written[r] \in Nat /\ stored[r] \in Nat /\ Follows(r) /\ Whole(r)
  BY Position
<1>2. /\ Working(r) /\ i <= Len(s) /\ s[i] \in {"enter", "read", "write", "leave"}
      /\ i \in 1..Len(s)
  BY <1>1 DEF Enter, Read, Write, Leave, About, Call
<1>3. /\ pos'[r] = i + 1 /\ doing'[r] = doing[r] /\ at'[r] = at[r] /\ answer'[r] = answer[r]
      /\ Working(r)'
  BY <1>2 DEF Enter, Read, Write, Leave, Step, ReqInv, TransactorTypeOK, Working
<1>4. \A j \in 1..((i + 1) - 1) : s[j] # "error"
  BY <1>1, <1>2 DEF Follows
<1>5. depth[r] = Nesting(s, i)
  BY <1>1, <1>2 DEF Follows
<1>6. CASE Enter(r)
  <2>1. /\ s[i] = "enter" /\ depth'[r] = depth[r] + 1
        /\ written'[r] = written[r] /\ stored'[r] = stored[r]
    BY <1>6 DEF Enter, About, Call, ReqInv, TransactorTypeOK
  <2>2. depth[r] = 0 => Before(s, i, "write") = 0
    BY <1>1, <1>2, <1>5, <2>1, Formed
  <2>3. /\ Nesting(s, i + 1) = Nesting(s, i) + 1
        /\ Before(s, i + 1, "write") = Before(s, i, "write")
    BY <1>1, <2>1, Passing
  <2>. HIDE DEF s, i
  <2>4. Follows(r) => written[r] = Before(s, i, "write") /\ stored[r] = 0
    BY <1>1, <1>2, <2>2 DEF Follows, s, i
  <2>5. /\ depth'[r] = Nesting(s, i + 1) /\ depth'[r] > 0
        /\ written'[r] = Before(s, i + 1, "write") /\ stored'[r] = 0
    BY <1>1, <1>5, <2>1, <2>3, <2>4
  <2>6. s' = s /\ pos'[r] = i + 1 /\ i + 1 \in 1..(Len(s) + 1)
    BY <1>1, <1>2, <1>3 DEF s, i
  <2>7. at'[r] # None
    BY <1>3 DEF Working
  <2>. QED
    BY <1>1, <1>3, <1>4, <2>1, <2>5, <2>6, <2>7 DEF Follows, Whole, s
<1>7. CASE Read(r)
  <2>1. /\ s[i] = "read" /\ depth'[r] = depth[r]
        /\ written'[r] = written[r] /\ stored'[r] = stored[r]
    BY <1>7 DEF Read, About, Call
  <2>3. /\ Nesting(s, i + 1) = Nesting(s, i)
        /\ Before(s, i + 1, "write") = Before(s, i, "write")
    BY <1>1, <2>1, Passing
  <2>6. i + 1 \in 1..(Len(s) + 1)
    BY <1>1, <1>2
  <2>. QED
    BY <1>1, <1>2, <1>3, <1>4, <1>5, <2>1, <2>3, <2>6 DEF Follows, Whole, Working
<1>8. CASE Write(r)
  <2>1. s[i] = "write" /\ depth[r] > 0
    BY <1>1, <1>2, <1>5, <1>8, Formed DEF Write, About, Call
  <2>2. /\ depth'[r] = depth[r] /\ written'[r] = written[r] + 1 /\ stored'[r] = stored[r]
    BY <1>8, <2>1 DEF Write, ReqInv, TransactorTypeOK
  <2>3. /\ Nesting(s, i + 1) = Nesting(s, i)
        /\ Before(s, i + 1, "write") = Before(s, i, "write") + 1
    BY <1>1, <2>1, Passing
  <2>6. i + 1 \in 1..(Len(s) + 1)
    BY <1>1, <1>2
  <2>. QED
    BY <1>1, <1>2, <1>3, <1>4, <1>5, <2>1, <2>2, <2>3, <2>6 DEF Follows, Whole, Working
<1>9. CASE Leave(r)
  <2>1. /\ s[i] = "leave" /\ depth[r] > 1 /\ depth'[r] = depth[r] - 1
        /\ written'[r] = written[r] /\ stored'[r] = stored[r]
    BY <1>9 DEF Leave, About, Call, ReqInv, TransactorTypeOK
  <2>3. /\ Nesting(s, i + 1) = Nesting(s, i) - 1
        /\ Before(s, i + 1, "write") = Before(s, i, "write")
    BY <1>1, <2>1, Passing
  <2>6. i + 1 \in 1..(Len(s) + 1)
    BY <1>1, <1>2
  <2>. QED
    BY <1>1, <1>2, <1>3, <1>4, <1>5, <2>1, <2>3, <2>6 DEF Follows, Whole, Working
<1>. QED
  BY <1>6, <1>7, <1>8, <1>9
(* A call that ends a transaction, and the answer.                         *)
LEMMA FollowsEnd ==
    ASSUME ReqInv, NEW r \in Requests,
           Reply(r) \/ Commit(r) \/ CommitUnseen(r) \/ (Working(r) /\ Rollback(r))
    PROVE  Follows(r)' /\ Whole(r)'
<1>. DEFINE s == Script[doing[r]]
            i == pos[r]
<1>1. /\ WellFormed(s) /\ Len(s) \in Nat /\ i \in Nat \ {0} /\ depth[r] \in Nat
      /\ written[r] \in Nat /\ stored[r] \in Nat /\ Follows(r) /\ Whole(r)
  BY Position
<1>2. /\ Working(r) /\ doing'[r] = doing[r] /\ at'[r] = at[r] /\ at[r] # None
      /\ i \in 1..(Len(s) + 1)
  BY <1>1 DEF Reply, Commit, CommitUnseen, Rollback, About, Working, Follows
<1>3. CASE Reply(r)
  <2>1. /\ i = Len(s) + 1 /\ pos'[r] = i /\ answer'[r] = "ok"
        /\ depth'[r] = depth[r] /\ written'[r] = written[r] /\ stored'[r] = stored[r]
    BY <1>1, <1>2, <1>3 DEF Reply, Answer, ReqInv, TransactorTypeOK
  <2>2. depth[r] = 0
    BY <1>1, <1>2, <2>1 DEF Follows, WellFormed
  <2>3. stored[r] = Writes(s)
    BY <1>1, <1>2, <2>1, <2>2 DEF Follows, Writes
  <2>4. \A j \in 1..Len(s) : s[j] # "error"
    BY <1>1, <2>1 DEF Follows
  <2>. QED
    BY <1>1, <1>2, <2>1, <2>2, <2>3, <2>4 DEF Follows, Whole, Failing, Working
<1>4. CASE Commit(r) \/ CommitUnseen(r)
  <2>1. i \in 1..Len(s) /\ s[i] = "leave" /\ depth[r] = 1
    BY <1>1, <1>4 DEF Commit, CommitUnseen, About, Call
  <2>2. Nesting(s, i) = 1
    BY <1>1, <1>2, <2>1 DEF Follows
  <2>3. /\ Before(s, i, "write") = Writes(s)
        /\ \A j \in (i + 1)..Len(s) : s[j] # "error"
    BY <1>1, <2>1, <2>2, Formed
  <2>4. written[r] = Writes(s) /\ stored[r] = 0
    BY <1>1, <2>1, <2>3 DEF Follows
  <2>5. \A j \in 1..(i - 1) : s[j] # "error"
    BY <1>1 DEF Follows
  <2>6. ~Failing(s)
    <3>1. \A j \in 1..Len(s) : j \in 1..(i - 1) \/ j = i \/ j \in (i + 1)..Len(s)
      BY <1>1, <2>1
    <3>. QED
      BY <2>1, <2>3, <2>5, <3>1 DEF Failing
  <2>7. stored'[r] = Writes(s) /\ depth'[r] = 0 /\ written'[r] = 0
    BY <1>1, <1>4, <2>4 DEF Commit, CommitUnseen, EndTransaction, ReqInv, TransactorTypeOK
  <2>8. CASE Commit(r)
    <3>1. pos'[r] = i + 1 /\ answer'[r] = "none"
      BY <1>2, <2>8 DEF Commit, Step, ReqInv, TransactorTypeOK, Working
    <3>2. /\ Nesting(s, i + 1) = 0
          /\ Before(s, i + 1, "write") = Writes(s)
      BY <1>1, <2>1, <2>2, <2>3, Passing
    <3>3. i + 1 \in 1..(Len(s) + 1) /\ \A j \in 1..((i + 1) - 1) : s[j] # "error"
      BY <1>1, <2>1, <2>5
    <3>. HIDE DEF s, i
    <3>4. s' = s /\ pos'[r] = i + 1
      BY <1>2, <3>1 DEF s
    <3>5. Working(r)' /\ at'[r] # None
      BY <1>2, <3>1 DEF Working
    <3>. QED
      BY <2>6, <2>7, <3>1, <3>2, <3>3, <3>4, <3>5 DEF Follows, Whole, s
  <2>9. CASE CommitUnseen(r)
    <3>1. pos'[r] = i /\ answer'[r] = "error"
      BY <2>9 DEF CommitUnseen, Answer, ReqInv, TransactorTypeOK
    <3>. QED
      BY <1>1, <1>2, <2>5, <2>6, <2>7, <3>1 DEF Follows, Whole, Working
  <2>. QED
    BY <1>4, <2>8, <2>9
<1>5. CASE Rollback(r)
  <2>1. /\ pos'[r] = i /\ answer'[r] = "error" /\ stored'[r] = stored[r]
        /\ depth'[r] = 0 /\ written'[r] = 0
    BY <1>5 DEF Rollback, EndTransaction, Answer, ReqInv, TransactorTypeOK
  <2>. QED
    BY <1>1, <1>2, <2>1 DEF Follows, Whole, Working
<1>. QED
  BY <1>3, <1>4, <1>5

(* Who has a connection.                                                   *)
LEMMA HoldingStep ==
    ASSUME ReqInv, NEW r \in Requests, RequestStep(r)
    PROVE  Holding'
<1>. DEFINE C == ConnsOf(r)
<1>1. IsFiniteSet(held) /\ IsFiniteSet(held \ C) /\ IsFiniteSet(held \cup {<<r, 1>>})
  BY FS_Difference, FS_AddElement DEF ReqInv, Holding
<1>2. \A c \in held : c[1] \in Requests /\ Working(c[1]) /\ depth[c[1]] > 0
  BY DEF ReqInv, Holding
<1>3. \A q \in Requests \ {r} : Working(q) => Working(q)' /\ depth'[q] = depth[q]
  BY RequestFrame DEF ReqInv, Working
<1>4. \A c \in held \ C : c[1] # r
  BY DEF ConnsOf
<1>5. depth[r] \in Nat
  BY Position
<1>6. CASE Commit(r) \/ CommitUnseen(r) \/ Rollback(r)
  <2>1. held' = held \ C
    BY <1>6 DEF Commit, CommitUnseen, Rollback, EndTransaction
  <2>. QED
    BY <1>1, <1>2, <1>3, <1>4, <2>1 DEF Holding
<1>7. CASE Enter(r)
  <2>1. held' = held \/ held' = held \cup {<<r, 1>>}
    BY <1>7 DEF Enter
  <2>2. Working(r)' /\ depth'[r] > 0
    BY <1>5, <1>7 DEF Enter, About, Working, ReqInv, TransactorTypeOK
  <2>3. IsFiniteSet(held')
    BY <1>1, <2>1
  <2>4. \A c \in held' : c[1] = r \/ c \in held
    BY <2>1
  <2>5. \A c \in held' : c[1] \in Requests /\ Working(c[1])' /\ depth'[c[1]] > 0
    BY <1>2, <1>3, <2>2, <2>4
  <2>. QED
    BY <2>3, <2>5 DEF Holding
<1>8. CASE Read(r) \/ Write(r) \/ Leave(r)
  <2>1. held' = held /\ Working(r)' /\ (depth[r] > 0 => depth'[r] > 0)
    BY <1>5, <1>8 DEF Read, Write, Leave, About, Working, ReqInv, TransactorTypeOK
  <2>. QED
    BY <1>1, <1>2, <1>3, <2>1 DEF Holding
<1>9. CASE Reply(r)
  <2>1. depth[r] = 0
    <3>1. pos[r] = Len(Script[doing[r]]) + 1 /\ Working(r)
      BY <1>9, Position DEF Reply, Follows
    <3>. QED
      BY <3>1, Position DEF Follows, WellFormed
  <2>2. held' = held
    BY <1>9 DEF Reply
  <2>. QED
    BY <1>1, <1>2, <1>3, <2>1, <2>2 DEF Holding
<1>. QED
  BY <1>6, <1>7, <1>8, <1>9, RequestKinds
(* One more makes one more at most.                                        *)
LEMMA OneMore ==
    ASSUME NEW S, NEW x, IsFiniteSet(S)
    PROVE  Cardinality(S \cup {x}) \in Nat /\ Cardinality(S \cup {x}) <= Cardinality(S) + 1
<1>1. IsFiniteSet(S \cup {x}) /\ Cardinality(S) \in Nat
  BY FS_AddElement, FS_CardinalityType
<1>2. Cardinality(S \cup {x}) \in Nat
  BY <1>1, FS_CardinalityType
<1>3. Cardinality(S \cup {x}) = Cardinality(S) \/ Cardinality(S \cup {x}) = Cardinality(S) + 1
  BY FS_AddElement
<1>. QED
  BY <1>1, <1>2, <1>3

(* The connections of a process that is left at least as it was.           *)
LEMMA UseShrinks ==
    ASSUME ReqInv, NEW p \in Instances, NEW U, U \subseteq InUse(p)
    PROVE  IsFiniteSet(U) /\ Cardinality(U) \in Nat /\ Cardinality(U) <= MaxConns
<1>1. IsFiniteSet(InUse(p)) /\ Cardinality(InUse(p)) <= MaxConns
  BY FS_Subset DEF ReqInv, Holding, InUse, TransactorTypeOK
<1>2. IsFiniteSet(U) /\ Cardinality(U) <= Cardinality(InUse(p))
  BY <1>1, FS_Subset
<1>3. Cardinality(U) \in Nat /\ Cardinality(InUse(p)) \in Nat /\ MaxConns \in Nat
  BY <1>1, <1>2, FS_CardinalityType, ConnsAssumption
<1>. QED
  BY <1>1, <1>2, <1>3

(* A step of a request keeps the types, and the pool within its limit.     *)
LEMMA RequestTypes ==
    ASSUME ReqInv, NEW r \in Requests, RequestStep(r)
    PROVE  TransactorTypeOK'
<1>0. TransactorTypeOK
  BY DEF ReqInv
<1>1. CASE Enter(r)
  <2>1. at[r] # None /\ at[r] \in Instances /\ at' = at
    BY <1>0, <1>1 DEF Enter, About, Working, TransactorTypeOK
  <2>2. ASSUME NEW p \in Instances
        PROVE  Cardinality(InUse(p)') <= MaxConns
    <3>1. CASE InUse(p)' \subseteq InUse(p)
      BY <3>1, UseShrinks
    <3>2. CASE ~(InUse(p)' \subseteq InUse(p))
      <4>1. held' = held \cup {<<r, 1>>} /\ p = at[r] /\ Free(p)
        BY <1>1, <2>1, <3>2 DEF Enter, InUse
      <4>2. InUse(p)' = InUse(p) \cup {<<r, 1>>}
        BY <2>1, <4>1 DEF InUse
      <4>3. IsFiniteSet(InUse(p)) /\ Cardinality(InUse(p)) \in Nat
        BY UseShrinks
      <4>4. /\ Cardinality(InUse(p) \cup {<<r, 1>>}) <= Cardinality(InUse(p)) + 1
            /\ Cardinality(InUse(p) \cup {<<r, 1>>}) \in Nat
        BY <4>3, OneMore
      <4>. QED
        BY <4>1, <4>2, <4>3, <4>4, ConnsAssumption DEF Free
    <3>. QED
      BY <3>1, <3>2
  <2>. QED
    BY <1>0, <1>1, <2>2 DEF Enter, TransactorTypeOK, Step
<1>2. CASE ~Enter(r)
  <2>1. held' \subseteq held /\ at' = at
    BY <1>2, RequestKinds
       DEF Read, Write, Leave, Reply, Commit, CommitUnseen, Rollback, EndTransaction
  <2>2. ASSUME NEW p \in Instances
        PROVE  Cardinality(InUse(p)') <= MaxConns
    BY <2>1, UseShrinks DEF InUse
  <2>3. /\ doing' = doing /\ closed' = closed
        /\ pos' \in [Requests -> Nat] /\ depth' \in [Requests -> Nat]
        /\ written' \in [Requests -> Nat] /\ stored' \in [Requests -> Nat]
        /\ answer' \in [Requests -> Answers]
    <3>1. CASE Read(r) \/ Reply(r)
      <4>1. CASE Read(r)
        BY <1>0, <4>1 DEF TransactorTypeOK, Read, Step
      <4>2. CASE Reply(r)
        BY <1>0, <4>2 DEF TransactorTypeOK, Reply, Answer, Answers
      <4>. QED
        BY <3>1, <4>1, <4>2
    <3>2. CASE Write(r)
      <4>1. /\ written' = written \/ written' = [written EXCEPT ![r] = @ + 1]
            /\ stored' = stored \/ stored' = [stored EXCEPT ![r] = @ + 1]
        BY <3>2 DEF Write
      <4>2. written' \in [Requests -> Nat] /\ stored' \in [Requests -> Nat]
        BY <1>0, <4>1 DEF TransactorTypeOK
      <4>. QED
        BY <1>0, <3>2, <4>2 DEF TransactorTypeOK, Write, Step
    <3>3. CASE Leave(r)
      BY <1>0, <3>3 DEF TransactorTypeOK, Leave, Step
    <3>4. CASE Commit(r) \/ CommitUnseen(r) \/ Rollback(r)
      BY <1>0, <3>4 DEF TransactorTypeOK, Commit, CommitUnseen, Rollback, EndTransaction,
                        Step, Answer, Answers
    <3>. QED
      BY <1>2, <3>1, <3>2, <3>3, <3>4, RequestKinds
  <2>. QED
    BY <1>0, <2>1, <2>2, <2>3 DEF TransactorTypeOK
<1>. QED
  BY <1>1, <1>2

(* A step of a request keeps all of it.                                    *)
LEMMA RequestInv ==
    ASSUME ReqInv, NEW r \in Requests, RequestStep(r)
    PROVE  ReqInv'
<1>1. Follows(r)' /\ Whole(r)'
  BY FollowsCall, FollowsEnd, RequestKinds
<1>2. ASSUME NEW q \in Requests \ {r}
      PROVE  Follows(q)' /\ Whole(q)'
  <2>1. Follows(q) /\ Whole(q)
    BY DEF ReqInv
  <2>2. /\ at'[q] = at[q] /\ doing'[q] = doing[q] /\ pos'[q] = pos[q]
        /\ depth'[q] = depth[q] /\ written'[q] = written[q]
        /\ stored'[q] = stored[q] /\ answer'[q] = answer[q]
    BY RequestFrame DEF ReqInv
  <2>. QED
    BY <2>1, <2>2 DEF Follows, Whole, Working
<1>. QED
  BY <1>1, <1>2, RequestTypes, HoldingStep DEF ReqInv

(* A request arrives.                                                      *)
LEMMA ArriveInv ==
    ASSUME ReqInv, NEW r \in Requests, NEW p \in Instances, Arrive(r, p)
    PROVE  ReqInv'
<1>1. PICK o \in Received : doing' = [doing EXCEPT ![r] = o]
  BY DEF Arrive
<1>2. /\ at[r] = None /\ at' = [at EXCEPT ![r] = p] /\ p # None /\ o \in Operations
      /\ UNCHANGED <<pos, depth, held, written, stored, answer, closed>>
  BY NoneAssumption, ScriptAssumption DEF Arrive
<1>3. at'[r] = p /\ doing'[r] = o /\ ~Working(r) /\ Follows(r) /\ Whole(r)
  BY <1>1, <1>2 DEF ReqInv, TransactorTypeOK, Working
<1>4. \A c \in held : c[1] # r
  BY <1>3 DEF ReqInv, Holding
<1>5. \A q \in Requests \ {r} : at'[q] = at[q] /\ doing'[q] = doing[q]
  BY <1>1, <1>2 DEF ReqInv, TransactorTypeOK
<1>6. Holding'
  BY <1>2, <1>4, <1>5 DEF ReqInv, Holding, Working
<1>7. TransactorTypeOK'
  <2>1. ASSUME NEW i \in Instances
        PROVE  InUse(i)' = InUse(i)
    <3>1. \A c \in held : c[1] \in Requests /\ at'[c[1]] = at[c[1]]
      BY <1>4, <1>5 DEF ReqInv, Holding
    <3>. QED
      BY <1>2, <3>1 DEF InUse
  <2>. QED
    BY <1>1, <1>2, <2>1 DEF ReqInv, TransactorTypeOK
<1>8. Follows(r)' /\ Whole(r)'
  <2>1. /\ pos[r] = 1 /\ stored[r] = 0 /\ answer[r] = "none"
        /\ depth[r] = 0 /\ written[r] = 0
    BY <1>2, <1>3 DEF Follows
  <2>2. Nesting(Script[o], 1) = 0 /\ Before(Script[o], 1, "write") = 0
    BY Passing
  <2>3. Len(Script[o]) \in Nat
    BY <1>2, Scripts
  <2>. QED
    BY <1>2, <1>3, <2>1, <2>2, <2>3 DEF Follows, Whole, Working
<1>9. ASSUME NEW q \in Requests \ {r}
      PROVE  Follows(q)' /\ Whole(q)'
  <2>1. Follows(q) /\ Whole(q)
    BY DEF ReqInv
  <2>. QED
    BY <1>2, <1>5, <2>1 DEF Follows, Whole, Working
<1>. QED
  BY <1>6, <1>7, <1>8, <1>9 DEF ReqInv

(* A pool begins to close.                                                 *)
LEMMA CloseInv ==
    ASSUME ReqInv, NEW p \in Instances, ClosePool(p)
    PROVE  ReqInv'
BY DEF ReqInv, ClosePool, TransactorTypeOK, Holding, Follows, Whole, Working, InUse

(* A process is gone, and its requests with it.                            *)
LEMMA AbandonInv ==
    ASSUME ReqInv, NEW p \in Instances, NEW a \in {"cut", "lost"}, Abandon(p, a)
    PROVE  ReqInv'
<1>. USE DEF HandledBy
<1>1. /\ held' = held \ InUse(p) /\ at' = at /\ doing' = doing /\ pos' = pos
      /\ stored' = stored
  BY DEF Abandon
<1>2. \A r \in Requests :
         /\ at[r] # p => /\ depth'[r] = depth[r] /\ written'[r] = written[r]
                         /\ answer'[r] = answer[r]
         /\ at[r] = p => /\ depth'[r] = 0 /\ written'[r] = 0
                         /\ answer'[r] = IF answer[r] = "none" THEN a ELSE answer[r]
  BY NoneAssumption DEF Abandon, Working
<1>3. Holding'
  <2>1. IsFiniteSet(held')
    BY <1>1, FS_Difference DEF ReqInv, Holding
  <2>2. \A c \in held' : c \in held /\ at[c[1]] # p
    BY <1>1 DEF InUse
  <2>. QED
    BY <1>1, <1>2, <2>1, <2>2 DEF ReqInv, Holding, Working
<1>4. TransactorTypeOK'
  <2>1. ASSUME NEW i \in Instances
        PROVE  Cardinality(InUse(i)') <= MaxConns
    <3>1. InUse(i)' \subseteq InUse(i)
      BY <1>1 DEF InUse
    <3>. QED
      BY <3>1, UseShrinks
  <2>. QED
    BY <1>1, <2>1 DEF ReqInv, TransactorTypeOK, Abandon, Answers
<1>5. ASSUME NEW r \in Requests
      PROVE  Follows(r)' /\ Whole(r)'
  <2>1. Follows(r) /\ Whole(r)
    BY DEF ReqInv
  <2>2. CASE at[r] # p
    BY <1>1, <1>2, <2>1, <2>2 DEF Follows, Whole, Working
  <2>3. CASE at[r] = p
    <3>1. at[r] # None /\ ~Working(r)' /\ (answer'[r] = "ok" => answer[r] = "ok")
      BY <1>1, <1>2, <2>3, NoneAssumption DEF Working
    <3>. QED
      BY <1>1, <1>2, <2>1, <2>3, <3>1 DEF Follows, Whole
  <2>. QED
    BY <2>2, <2>3
<1>. QED
  BY <1>3, <1>4, <1>5 DEF ReqInv
-----------------------------------------------------------------------------
(* What makes the properties of Process inductive.                         *)

Early  == {"schema", "migrate", "find", "insert"}
Up     == {"listen", "close"} \cup Accepting
Rooted == {"invite", "print"} \cup Up

(* The types of what belongs to processes and to the database.             *)
LifeTypes ==
    /\ stage   \in [Instances -> Stages]
    /\ told    \in [Instances -> BOOLEAN]
    /\ version \in [Instances -> 0..Latest]
    /\ root    \in [Instances -> Instances \cup {None}]
    /\ made    \in [Instances -> 0..CountInvites]
    /\ starts  \in [Instances -> 0..MaxStarts]
    /\ schema  \in 0..Latest
    /\ roots   \subseteq Instances
    /\ invites \subseteq Instances \X (1..MaxStarts) \X (1..CountInvites)
    /\ printed \subseteq invites

(* How far a process is tells what the database holds of it.               *)
Life(p) ==
    /\ stage[p] # "off" => starts[p] >= 1
    /\ stage[p] = "migrate" => version[p] # Latest
    /\ stage[p] \in {"find", "insert"} \cup Rooted => schema = Latest
    /\ stage[p] \in Rooted => roots = {root[p]}
    /\ stage[p] \in Early => made[p] = 0 /\ \A v \in invites : v[1] = p => v[2] < starts[p]
    /\ stage[p] = "invite" =>
          \A k \in 1..CountInvites : Invite(p, k) \in invites <=> k <= made[p]
    /\ stage[p] \in Rooted \ {"invite"} => OwnInvites(p) \subseteq invites
    /\ stage[p] \in Up => OwnInvites(p) \subseteq printed
    /\ \A v \in invites : v[1] = p => v[2] <= starts[p]

LifeInv ==
    /\ LifeTypes
    /\ \A u, v \in roots : u = v
    /\ \A p \in Instances : Life(p)

(* A request is at work in a process that runs.                            *)
Placed == \A r \in Requests : Working(r) => stage[at[r]] \in Accepting \cup {"close"}

IInv == ReqInv /\ LifeInv /\ Placed

-----------------------------------------------------------------------------
(* The steps of a process.                                                 *)

(* What a process knows of itself is its own; the schema and the root are  *)
(* final once they are there, and an invite names the process it is of.    *)
LEMMA ProcessFrame ==
    ASSUME LifeInv, NEW p \in Instances, ProcessStep(p)
    PROVE  /\ \A q \in Instances \ {p} :
                 /\ stage'[q] = stage[q] /\ version'[q] = version[q] /\ root'[q] = root[q]
                 /\ made'[q] = made[q] /\ starts'[q] = starts[q]
           /\ schema' = schema \/ schema # Latest
           /\ roots' = roots \/ roots = {}
           /\ invites \subseteq invites' /\ printed \subseteq printed'
           /\ \A v \in invites' : v \in invites \/ v[1] = p
<1>. USE DEF LifeInv, LifeTypes, Goto, dbVars
<1>1. CASE Start(p) \/ ReadVersion(p) \/ FindRoot(p)
  BY <1>1 DEF Start, ReadVersion, FindRoot, AtStage
<1>2. CASE Migrate(p)
  BY <1>2 DEF Migrate, AtStage, Life
<1>3. CASE InsertRoot(p) \/ InsertUnseen(p)
  BY <1>3 DEF InsertRoot, InsertUnseen, AtStage
<1>4. CASE MakeInvite(p) \/ MakeInviteUnseen(p)
  BY <1>4 DEF MakeInvite, MakeInviteUnseen, AtStage, Invite
<1>5. CASE PrintInvites(p)
  BY <1>5 DEF PrintInvites
<1>6. CASE InvitesMade(p) \/ Listen(p) \/ Await(p) \/ StartFails(p) \/ Signal(p)
  BY <1>6 DEF InvitesMade, Listen, Await, StartFails, Signal
<1>7. CASE StopServer(p) \/ Exit(p) \/ Kill(p)
  BY <1>7 DEF StopServer, Exit, Kill
<1>. QED
  BY <1>1, <1>2, <1>3, <1>4, <1>5, <1>6, <1>7 DEF ProcessStep, Advance, MustFail

(* The other processes.                                                    *)
LEMMA LifeOther ==
    ASSUME LifeInv, NEW p \in Instances, ProcessStep(p), NEW q \in Instances \ {p}
    PROVE  Life(q)'
<1>1. Life(q)
  BY DEF LifeInv
<1>2. /\ stage'[q] = stage[q] /\ version'[q] = version[q] /\ root'[q] = root[q]
      /\ made'[q] = made[q] /\ starts'[q] = starts[q]
      /\ schema' = schema \/ schema # Latest
      /\ roots' = roots \/ roots = {}
      /\ invites \subseteq invites' /\ printed \subseteq printed'
      /\ \A v \in invites' : v \in invites \/ v[1] = p
  BY ProcessFrame
<1>3. /\ OwnInvites(q)' = OwnInvites(q)
      /\ \A k \in 1..CountInvites : Invite(q, k)' = Invite(q, k)
  BY <1>2 DEF OwnInvites, Invite
<1>4. \A k \in 1..CountInvites : Invite(q, k) \in invites' => Invite(q, k) \in invites
  BY <1>2 DEF Invite
<1>5. \A v \in invites' : v[1] = q => v \in invites
  BY <1>2
<1>6. /\ stage[q] \in {"find", "insert"} \cup Rooted => schema' = Latest
      /\ stage[q] \in Rooted => roots' = {root[q]}
  BY <1>1, <1>2 DEF Life
<1>. QED
  BY <1>1, <1>2, <1>3, <1>4, <1>5, <1>6 DEF Life
(* The types.                                                              *)
LEMMA LifeTypesStep ==
    ASSUME LifeInv, NEW p \in Instances, ProcessStep(p)
    PROVE  LifeTypes' /\ \A u, v \in roots' : u = v
<1>. USE DEF LifeInv, LifeTypes, Goto, dbVars, Stages, Starting, Accepting
<1>1. CASE Start(p)
  BY <1>1, StartAssumption DEF Start
<1>2. CASE ReadVersion(p) \/ FindRoot(p)
  BY <1>2 DEF ReadVersion, FindRoot, AtStage
<1>3. CASE Migrate(p)
  <2>1. version[p] # Latest /\ version[p] \in 0..Latest
    BY <1>3 DEF Migrate, AtStage, Life
  <2>2. schema' \in 0..Latest
    BY <1>3, <2>1, StartAssumption DEF Migrate
  <2>. QED
    BY <1>3, <2>2 DEF Migrate, AtStage
<1>4. CASE InsertRoot(p) \/ InsertUnseen(p)
  BY <1>4 DEF InsertRoot, InsertUnseen, AtStage
<1>5. CASE MakeInvite(p) \/ MakeInviteUnseen(p)
  <2>1. /\ stage[p] = "invite" /\ made[p] < CountInvites /\ made[p] \in 0..CountInvites
        /\ starts[p] \in 1..MaxStarts
    BY <1>5, StartAssumption DEF MakeInvite, MakeInviteUnseen, AtStage, Life
  <2>2. made[p] + 1 \in 1..CountInvites /\ made[p] + 1 \in 0..CountInvites
    BY <2>1, StartAssumption
  <2>3. Invite(p, made[p] + 1) \in Instances \X (1..MaxStarts) \X (1..CountInvites)
    BY <2>1, <2>2 DEF Invite
  <2>4. invites' = invites \cup {Invite(p, made[p] + 1)}
    BY <1>5 DEF MakeInvite, MakeInviteUnseen
  <2>. QED
    BY <1>5, <2>2, <2>3, <2>4 DEF MakeInvite, MakeInviteUnseen, AtStage
<1>6. CASE PrintInvites(p)
  BY <1>6 DEF PrintInvites, Life, Rooted, Up
<1>7. CASE InvitesMade(p) \/ Listen(p) \/ Await(p) \/ StartFails(p) \/ Signal(p)
  BY <1>7 DEF InvitesMade, Listen, Await, StartFails, Signal
<1>8. CASE StopServer(p) \/ Exit(p) \/ Kill(p)
  BY <1>8 DEF StopServer, Exit, Kill
<1>. QED
  BY <1>1, <1>2, <1>3, <1>4, <1>5, <1>6, <1>7, <1>8 DEF ProcessStep, Advance, MustFail

(* The process that takes the step.                                        *)
LEMMA LifeOwn ==
    ASSUME LifeInv, NEW p \in Instances, ProcessStep(p)
    PROVE  Life(p)'
<1>0. LifeTypes /\ Life(p) /\ starts[p] \in Nat /\ (\A v \in invites : v[2] \in Nat)
  BY DEF LifeInv, LifeTypes
<1>. USE DEF Early, Rooted, Up, Accepting, Goto, dbVars
<1>1. CASE Start(p)
  <2>1. /\ stage'[p] = "schema" /\ starts'[p] = starts[p] + 1 /\ made'[p] = 0
        /\ invites' = invites
    BY <1>0, <1>1 DEF Start, LifeTypes
  <2>2. \A v \in invites' : v[1] = p => v[2] < starts'[p]
    BY <1>0, <2>1 DEF Life
  <2>. QED
    BY <1>0, <2>1, <2>2 DEF Life
<1>2. CASE ReadVersion(p)
  BY <1>0, <1>2 DEF ReadVersion, AtStage, LifeTypes, Life
<1>3. CASE Migrate(p)
  BY <1>0, <1>3 DEF Migrate, AtStage, LifeTypes, Life
<1>4. CASE FindRoot(p)
  <2>1. stage[p] = "find" /\ UNCHANGED <<version, made, starts, dbVars>>
    BY <1>4 DEF FindRoot, AtStage
  <2>2. CASE roots = {}
    <3>1. stage'[p] = "insert"
      BY <1>0, <1>4, <2>2 DEF FindRoot, LifeTypes
    <3>. QED
      BY <1>0, <2>1, <3>1 DEF Life
  <2>3. CASE roots # {}
    <3>1. stage'[p] = "invite" /\ root'[p] \in roots
      BY <1>0, <1>4, <2>3 DEF FindRoot, LifeTypes
    <3>2. roots = {root'[p]}
      BY <3>1 DEF LifeInv
    <3>3. \A k \in 1..CountInvites : Invite(p, k) \notin invites
      BY <1>0, <2>1 DEF Life, Invite
    <3>. QED
      BY <1>0, <2>1, <3>1, <3>2, <3>3 DEF Life, Invite
  <2>. QED
    BY <2>2, <2>3
<1>5. CASE InsertRoot(p)
  <2>1. /\ stage[p] = "insert" /\ stage'[p] = "invite" /\ root'[p] = p /\ roots' = {p}
        /\ UNCHANGED <<version, made, starts, schema, invites, printed>>
    BY <1>0, <1>5 DEF InsertRoot, AtStage, LifeTypes
  <2>2. \A k \in 1..CountInvites : Invite(p, k) \notin invites
    BY <1>0, <2>1 DEF Life, Invite
  <2>. QED
    BY <1>0, <2>1, <2>2 DEF Life, Invite
<1>6. CASE MakeInvite(p)
  <2>1. /\ stage[p] = "invite" /\ stage'[p] = "invite" /\ made'[p] = made[p] + 1
        /\ invites' = invites \cup {Invite(p, made[p] + 1)}
        /\ UNCHANGED <<version, root, starts, schema, roots, printed>>
    BY <1>0, <1>6 DEF MakeInvite, AtStage, LifeTypes
  <2>2. made[p] \in Nat
    BY <1>0 DEF LifeTypes
  <2>3. ASSUME NEW k \in 1..CountInvites
        PROVE  Invite(p, k)' \in invites' <=> k <= made'[p]
    <3>1. Invite(p, k) = Invite(p, made[p] + 1) <=> k = made[p] + 1
      BY DEF Invite
    <3>2. Invite(p, k)' = Invite(p, k)
      BY <2>1 DEF Invite
    <3>3. Invite(p, k) \in invites <=> k <= made[p]
      BY <1>0, <2>1 DEF Life
    <3>. QED
      BY <2>1, <2>2, <3>1, <3>2, <3>3
  <2>4. \A v \in invites' : v[1] = p => v[2] <= starts'[p]
    BY <1>0, <2>1 DEF Life, Invite
  <2>. QED
    BY <1>0, <2>1, <2>3, <2>4 DEF Life
<1>7. CASE InvitesMade(p)
  <2>1. /\ stage[p] = "invite" /\ made[p] = CountInvites
        /\ stage'[p] = IF CountInvites > 0 THEN "print" ELSE "listen"
        /\ UNCHANGED <<version, root, made, starts, schema, roots, invites, printed>>
    BY <1>0, <1>7 DEF InvitesMade, LifeTypes
  <2>2. OwnInvites(p) \subseteq invites
    BY <1>0, <2>1, StartAssumption DEF Life, OwnInvites
  <2>3. ~(CountInvites > 0) => OwnInvites(p) = {}
    BY StartAssumption DEF OwnInvites
  <2>4. OwnInvites(p)' = OwnInvites(p)
    BY <2>1 DEF OwnInvites, Invite
  <2>. QED
    BY <1>0, <2>1, <2>2, <2>3, <2>4 DEF Life
<1>8. CASE PrintInvites(p)
  <2>1. /\ stage[p] = "print" /\ stage'[p] = "listen"
        /\ printed' = printed \cup OwnInvites(p)
        /\ UNCHANGED <<version, root, made, starts, schema, roots, invites>>
    BY <1>0, <1>8 DEF PrintInvites, LifeTypes
  <2>2. OwnInvites(p)' = OwnInvites(p)
    BY <2>1 DEF OwnInvites, Invite
  <2>. QED
    BY <1>0, <2>1, <2>2 DEF Life
<1>9. ASSUME stage'[p] = "off", starts' = starts, \A v \in invites' : v[1] = p => v[2] <= starts[p]
      PROVE  Life(p)'
  BY <1>9 DEF Life
<1>10. CASE InsertUnseen(p) \/ StartFails(p) \/ Exit(p) \/ Kill(p)
  <2>1. stage'[p] = "off" /\ UNCHANGED <<starts, invites>>
    BY <1>0, <1>10 DEF InsertUnseen, AtStage, StartFails, Exit, Kill, LifeTypes
  <2>. QED
    BY <1>0, <1>9, <2>1 DEF Life
<1>11. CASE MakeInviteUnseen(p)
  <2>1. /\ stage'[p] = "off" /\ UNCHANGED starts
        /\ invites' = invites \cup {Invite(p, made[p] + 1)}
    BY <1>0, <1>11 DEF MakeInviteUnseen, AtStage, LifeTypes
  <2>. QED
    BY <1>0, <1>9, <2>1 DEF Life, Invite
<1>12. CASE Listen(p) \/ Await(p) \/ StopServer(p)
  <2>1. /\ UNCHANGED <<version, root, made, starts, dbVars>>
        /\ stage[p] \in Up /\ stage'[p] \in Up
    BY <1>0, <1>12 DEF Listen, Await, StopServer, LifeTypes
  <2>2. OwnInvites(p)' = OwnInvites(p)
    BY <2>1 DEF OwnInvites, Invite
  <2>. QED
    BY <1>0, <2>1, <2>2 DEF Life
<1>13. CASE Signal(p)
  <2>1. /\ UNCHANGED <<version, root, made, starts, dbVars>>
        /\ stage'[p] = stage[p] \/ (stage[p] = "serve" /\ stage'[p] = "stop")
    BY <1>0, <1>13 DEF Signal, LifeTypes
  <2>2. /\ OwnInvites(p)' = OwnInvites(p)
        /\ \A k \in 1..CountInvites : Invite(p, k)' = Invite(p, k)
    BY <2>1 DEF OwnInvites, Invite
  <2>. QED
    BY <1>0, <2>1, <2>2 DEF Life
<1>. QED
  BY <1>1, <1>2, <1>3, <1>4, <1>5, <1>6, <1>7, <1>8, <1>10, <1>11, <1>12, <1>13
     DEF ProcessStep, Advance, MustFail
(* A process that goes has nothing at work.                                *)
LEMMA PlacedStep ==
    ASSUME IInv, NEW p \in Instances, ProcessStep(p)
    PROVE  Placed'
<1> SUFFICES ASSUME NEW r \in Requests, Working(r)'
             PROVE  stage'[at'[r]] \in Accepting \cup {"close"}
  BY DEF Placed
<1>1. at[r] # None => at[r] \in Instances
  BY DEF IInv, ReqInv, TransactorTypeOK
<1>2. LifeTypes /\ (Working(r) => stage[at[r]] \in Accepting \cup {"close"})
  BY DEF IInv, Placed, LifeInv
<1>3. CASE Exit(p) \/ Kill(p)
  <2>1. at' = at /\ at[r] # p /\ Working(r)
    BY <1>3, NoneAssumption DEF Exit, Kill, Abandon, HandledBy, Working
  <2>2. stage'[at[r]] = stage[at[r]]
    BY <1>1, <1>2, <1>3, <2>1 DEF Exit, Kill, Goto, LifeTypes, Working
  <2>. QED
    BY <1>2, <2>1, <2>2
<1>4. CASE ~(Exit(p) \/ Kill(p))
  <2>1. at' = at /\ answer' = answer
    BY <1>4 DEF ProcessStep, Advance, MustFail, AtStage, reqVars, Start, ReadVersion,
                Migrate, FindRoot, InsertRoot, InsertUnseen, MakeInvite, MakeInviteUnseen,
                InvitesMade, PrintInvites, Listen, Await, StartFails, Signal, StopServer,
                ClosePool
  <2>2. Working(r)
    BY <2>1 DEF Working
  <2>3. stage[p] \in Accepting \cup {"close"} => stage'[p] \in Accepting \cup {"close"}
    BY <1>2, <1>4
       DEF ProcessStep, Advance, MustFail, AtStage, Start, ReadVersion,
           Migrate, FindRoot, InsertRoot, InsertUnseen, MakeInvite, MakeInviteUnseen,
           InvitesMade, PrintInvites, Listen, Await, StartFails, Signal, StopServer,
           Goto, LifeTypes, Starting, Accepting
  <2>4. LifeInv /\ \A q \in Instances \ {p} : stage'[q] = stage[q]
    BY ProcessFrame DEF IInv
  <2>. QED
    BY <1>1, <1>2, <2>1, <2>2, <2>3, <2>4 DEF Working
<1>. QED
  BY <1>3, <1>4

(* A step of a process leaves requests to Abandon and ClosePool.           *)
LEMMA RequestsKept ==
    ASSUME ReqInv, NEW p \in Instances, ProcessStep(p)
    PROVE  ReqInv'
<1>1. CASE Exit(p) \/ Kill(p)
  BY <1>1, AbandonInv DEF Exit, Kill
<1>2. CASE StopServer(p)
  BY <1>2, CloseInv DEF StopServer
<1>3. CASE UNCHANGED reqVars
  BY <1>3 DEF ReqInv, reqVars, TransactorTypeOK, Holding, Follows, Whole, Working, InUse
<1>. QED
  BY <1>1, <1>2, <1>3
     DEF ProcessStep, Advance, MustFail, AtStage, Start, ReadVersion,
         Migrate, FindRoot, InsertRoot, InsertUnseen, MakeInvite, MakeInviteUnseen,
         InvitesMade, PrintInvites, Listen, Await, StartFails, Signal

-----------------------------------------------------------------------------
(* Theorems.                                                               *)

(* The initial state satisfies the invariant.                              *)
LEMMA InvariantInit == Init => IInv
<1> SUFFICES ASSUME Init PROVE IInv
  OBVIOUS
<1>1. "begin" \in Operations /\ "begin" \in DOMAIN Script
  BY DEF Operations, Script
<1>2. IsFiniteSet({}) /\ Cardinality({}) = 0
  BY FS_EmptySet
<1>3. TransactorTypeOK
  <2>1. \A p \in Instances : InUse(p) = {}
    BY DEF Init, TransactorInit, InUse
  <2>2. /\ at \in [Requests -> Instances \cup {None}] /\ doing \in [Requests -> Operations]
        /\ pos \in [Requests -> Nat] /\ depth \in [Requests -> Nat]
    BY <1>1 DEF Init, TransactorInit
  <2>3. /\ held \subseteq Requests \X Nat /\ closed \subseteq Instances
        /\ written \in [Requests -> Nat] /\ stored \in [Requests -> Nat]
        /\ answer \in [Requests -> Answers]
    BY DEF Init, TransactorInit, Answers
  <2>4. \A p \in Instances : Cardinality(InUse(p)) <= MaxConns
    BY <1>2, <2>1, ConnsAssumption
  <2>. QED
    BY <2>2, <2>3, <2>4 DEF TransactorTypeOK
<1>4. Holding
  BY <1>2 DEF Init, TransactorInit, Holding
<1>5. ASSUME NEW r \in Requests
      PROVE  Follows(r) /\ Whole(r)
  <2>1. ~Working(r) /\ doing[r] = "begin" /\ Len(Script["begin"]) \in Nat
    BY <1>1, Scripts DEF Init, TransactorInit, Working
  <2>. QED
    BY <2>1 DEF Init, TransactorInit, Follows, Whole
<1>6. LifeInv
  BY StartAssumption
     DEF Init, LifeInv, LifeTypes, Life, Stages, Early, Rooted, Up, Accepting
<1>7. Placed
  BY DEF Init, TransactorInit, Placed, Working
<1>. QED
  BY <1>3, <1>4, <1>5, <1>6, <1>7 DEF IInv, ReqInv

(* Every step keeps it.                                                    *)
LEMMA InvariantNext == IInv /\ [Next]_vars => IInv'
<1> SUFFICES ASSUME IInv, [Next]_vars PROVE IInv'
  OBVIOUS
<1>1. ASSUME NEW p \in Instances, ProcessStep(p)
      PROVE  IInv'
  <2>1. Life(p)' /\ \A q \in Instances \ {p} : Life(q)'
    BY <1>1, LifeOwn, LifeOther DEF IInv
  <2>2. LifeTypes' /\ \A u, v \in roots' : u = v
    BY <1>1, LifeTypesStep DEF IInv
  <2>. QED
    BY <1>1, <2>1, <2>2, RequestsKept, PlacedStep DEF IInv, LifeInv
<1>2. ASSUME UNCHANGED lifeVars
      PROVE  LifeInv'
  BY <1>2 DEF IInv, LifeInv, LifeTypes, Life, OwnInvites, Invite, lifeVars, dbVars
<1>3. ASSUME NEW r \in Requests, Accept(r)
      PROVE  IInv'
  <2>1. PICK p \in Instances : stage[p] \in Accepting /\ Arrive(r, p)
    BY <1>3 DEF Accept
  <2>2. UNCHANGED lifeVars /\ stage' = stage
    BY <1>3 DEF Accept, lifeVars
  <2>3. at'[r] = p /\ \A q \in Requests \ {r} : at'[q] = at[q] /\ answer'[q] = answer[q]
    BY <2>1 DEF Arrive, IInv, ReqInv, TransactorTypeOK
  <2>4. Placed'
    BY <2>1, <2>2, <2>3 DEF IInv, Placed, Working
  <2>. QED
    BY <1>2, <2>1, <2>2, <2>4, ArriveInv DEF IInv
<1>4. ASSUME NEW r \in Requests, Serve(r)
      PROVE  IInv'
  <2>1. UNCHANGED lifeVars /\ stage' = stage /\ RequestStep(r)
    BY <1>4 DEF Serve, lifeVars
  <2>2. at' = at /\ Working(r)
    BY <2>1, RequestKinds
       DEF Enter, Read, Write, Leave, Reply, Commit, CommitUnseen, Rollback
  <2>3. \A q \in Requests \ {r} : answer'[q] = answer[q]
    BY <2>1, RequestFrame DEF IInv, ReqInv
  <2>4. Placed'
    BY <2>1, <2>2, <2>3 DEF IInv, Placed, Working
  <2>. QED
    BY <1>2, <2>1, <2>4, RequestInv DEF IInv
<1>5. CASE UNCHANGED vars
  <2>1. UNCHANGED lifeVars /\ UNCHANGED reqVars
    BY <1>5 DEF vars
  <2>2. ReqInv' /\ Placed'
    BY <2>1 DEF IInv, ReqInv, Placed, reqVars, lifeVars, TransactorTypeOK, Holding,
                Follows, Whole, Working, InUse
  <2>. QED
    BY <1>2, <2>1, <2>2 DEF IInv
<1>. QED
  BY <1>1, <1>3, <1>4, <1>5 DEF Next, Finished

(* The invariant, of every state the processes reach.                      *)
THEOREM InvariantHolds == Spec => []IInv
BY InvariantInit, InvariantNext, PTL DEF Spec

(* Types: the pool of a process is never overdrawn, no schema is ahead of  *)
(* the migrations, and only a process that runs has requests               *)
(* (RunInTransaction, GetQueries, Run).                                    *)
THEOREM TypeCorrect == Spec => []ProcessTypeOK
<1>1. IInv => ProcessTypeOK
  BY DEF IInv, ReqInv, LifeInv, LifeTypes, Placed, ProcessTypeOK
<1>. QED
  BY <1>1, InvariantHolds, PTL

(* Whatever joins whatever, whatever fails and whoever dies, a use case    *)
(* keeps all that it wrote or nothing (RunInTransaction).                  *)
THEOREM WritesWhole == Spec => []CommittedWhole
<1>1. IInv => CommittedWhole
  BY DEF IInv, ReqInv, Whole, CommittedWhole
<1>. QED
  BY <1>1, InvariantHolds, PTL

(* However processes overlap while they start, they serve one root on the  *)
(* latest schema (BootstrapRoot.Execute).                                  *)
THEOREM RootServed == Spec => []ServesTheRoot
<1>1. IInv => ServesTheRoot
  BY DEF IInv, LifeInv, Life, ServesTheRoot, Rooted, Up
<1>. QED
  BY <1>1, InvariantHolds, PTL

(* A process that listens has printed the code of every invite it made,    *)
(* however many it was asked for and however often it had to start         *)
(* (createRootInvites).                                                    *)
THEOREM CodesPrinted == Spec => []CodesHandedOut
<1>1. ASSUME IInv, NEW p \in Instances, stage[p] \in Up
      PROVE  /\ OwnInvites(p) \subseteq printed
             /\ {v \in invites : v[1] = p /\ v[2] = starts[p]} = OwnInvites(p)
  <2>1. OwnInvites(p) \subseteq invites /\ OwnInvites(p) \subseteq printed
    <3>1. Life(p)
      BY <1>1 DEF IInv, LifeInv
    <3>2. stage[p] \in Rooted \ {"invite"}
      BY <1>1 DEF Rooted, Up, Accepting
    <3>. QED
      BY <1>1, <3>1, <3>2 DEF Life
  <2>2. ASSUME NEW v \in invites, v[1] = p, v[2] = starts[p]
        PROVE  v \in OwnInvites(p)
    <3>1. v \in Instances \X (1..MaxStarts) \X (1..CountInvites)
      BY <1>1 DEF IInv, LifeInv, LifeTypes
    <3>2. v = Invite(p, v[3]) /\ v[3] \in 1..CountInvites
      BY <2>2, <3>1 DEF Invite
    <3>. QED
      BY <3>2 DEF OwnInvites
  <2>3. \A v \in OwnInvites(p) : v[1] = p /\ v[2] = starts[p]
    BY DEF OwnInvites, Invite
  <2>. QED
    BY <2>1, <2>2, <2>3
<1>2. IInv => CodesHandedOut
  BY <1>1 DEF IInv, LifeInv, LifeTypes, CodesHandedOut, Up
<1>. QED
  BY <1>2, InvariantHolds, PTL
=============================================================================
