----------------------------- MODULE GroupProofs -----------------------------
(***************************************************************************)
(* What Group guarantees for any number of functions and final functions,  *)
(* whoever gives them to it and however they end, with proofs.             *)
(***************************************************************************)
EXTENDS Group, FiniteSetTheorems, FunctionTheorems, SequenceTheorems, TLAPS

Failures  == Functions \X (1..2)
GroupError == [set : BOOLEAN, errors : Seq(Failures)]

(* Where a goroutine can be, and where the owner can be in Wait.           *)
GroupTypeOK ==
    /\ task       \in [Tasks -> {"idle", "run", "lock", "store", "done"}]
    /\ outcome    \in [Functions -> Outcomes \cup {"pending"}]
    /\ mutex      \subseteq Runners
    /\ err        \in GroupError
    /\ read       \in [Runners -> GroupError]
    /\ finally    \in Seq(Finals)
    /\ waiting    \in {"no", "tasks", "finals", "lock", "store", "returned", "panicked"}
    /\ list       \in Seq(Finals)
    /\ registered \subseteq Finals

(* Whoever is between AddLock and AddStore has the mutex to itself, and    *)
(* has read what is still there.                                           *)
MutexInv ==
    /\ \A x \in mutex : mutex = {x} /\ read[x] = err
    /\ \A t \in Tasks : task[t] = "store" <=> t \in mutex
    /\ waiting = "store" <=> Owner \in mutex

(* A goroutine has an outcome just if it has ended, and one that returned  *)
(* nil has nothing to add.                                                 *)
TaskInv ==
    \A t \in Tasks :
        /\ outcome[t] = "pending" <=> task[t] \in {"idle", "run"}
        /\ outcome[t] = "nil" => task[t] = "done"

(* Before Wait takes the final functions, those registered are those in    *)
(* g.finally, each of them once, and none has run.                         *)
Early  == waiting \in {"no", "tasks"}
Entries(s) == {s[i] : i \in 1..Len(s)}
Listed == Entries(list)

FinallyInv ==
    /\ \A i, j \in 1..Len(finally) : finally[i] = finally[j] => i = j
    /\ \A i \in 1..Len(finally) : finally[i] \in registered
    /\ Early =>
          /\ list = << >>
          /\ \A f \in Finals : outcome[f] = "pending"
          /\ \A f \in registered :
                By[f] \in Runners /\ \E i \in 1..Len(finally) : finally[i] = f

(* Afterwards no goroutine runs, and what Wait took and has not run yet is *)
(* what is left of those registered before; the first may have ended.      *)
ListInv ==
    /\ \A i, j \in 1..Len(list) : list[i] = list[j] => i = j
    /\ ~Early =>
          /\ \A t \in Tasks : task[t] \in {"idle", "done"}
          /\ \A f \in Finals : f \in registered /\ By[f] \in Runners <=>
                                  outcome[f] # "pending" \/ f \in Listed
    /\ \A i \in 1..Len(list) : i > 1 \/ waiting = "finals" => outcome[list[i]] = "pending"
    /\ waiting \in {"lock", "store"} =>
          list # << >> /\ outcome[Head(list)] \notin {"pending", "nil"}
    /\ waiting = "panicked" => list # << >>
    /\ waiting = "returned" => list = << >> /\ result = err

(* The function has ended, and its failures are in g.err if it had any.    *)
Added(x) ==
    IF x \in Tasks THEN task[x] = "done"
    ELSE /\ outcome[x] # "pending"
         /\ waiting \in {"lock", "store", "panicked"} => Head(list) # x

Failed(x) == outcome[x] \notin {"pending", "nil"}

Told(x) ==
    \A k \in 1..2 :
        Times(err.errors, <<x, k>>) = IF Added(x) THEN Times(Errors(x, outcome[x]), <<x, k>>)
                                                  ELSE 0

TellsInv ==
    /\ \A x \in Functions : Told(x)
    /\ err.set <=> \E x \in Functions : Added(x) /\ Failed(x)

(* The inductive invariant.                                                *)
GroupInv == GroupTypeOK /\ MutexInv /\ TaskInv /\ FinallyInv /\ ListInv /\ TellsInv

-----------------------------------------------------------------------------
(* Lists of errors.                                                        *)

(* How often an entry is in a list is a number, none in an empty list.     *)
LEMMA TimesType ==
    ASSUME NEW S, NEW s \in Seq(S), NEW e
    PROVE  /\ IsFiniteSet({k \in 1..Len(s) : s[k] = e})
           /\ Times(s, e) \in Nat
           /\ (\A k \in 1..Len(s) : s[k] # e) => Times(s, e) = 0
<1>. DEFINE A == {k \in 1..Len(s) : s[k] = e}
<1>1. IsFiniteSet(1..Len(s)) /\ A \in SUBSET (1..Len(s))
  BY FS_Interval
<1>2. IsFiniteSet(A)
  BY <1>1, FS_Subset
<1>3. Cardinality(A) \in Nat
  BY <1>2, FS_CardinalityType
<1>4. (\A k \in 1..Len(s) : s[k] # e) => A = {}
  OBVIOUS
<1>. QED
  BY <1>2, <1>3, <1>4, FS_EmptySet DEF Times

(* Nothing occurs in an empty list.                                        *)
LEMMA EmptyTimes ==
    ASSUME NEW e
    PROVE  Times(<< >>, e) = 0
<1>1. << >> \in Seq(STRING) /\ Len(<< >>) = 0
  OBVIOUS
<1>2. \A k \in 1..Len(<< >>) : << >>[k] # e
  <2>1. 1..Len(<< >>) = {}
    BY <1>1
  <2>. QED
    BY <2>1
<1>. QED
  BY <1>1, <1>2, TimesType

(* Entries of two lists add up.                                            *)
LEMMA TimesConcat ==
    ASSUME NEW S, NEW s \in Seq(S), NEW t \in Seq(S), NEW e
    PROVE  Times(s \o t, e) = Times(s, e) + Times(t, e)
<1>. DEFINE A == {k \in 1..Len(s) : s[k] = e}
            B == {k \in 1..Len(t) : t[k] = e}
            C == {k \in 1..Len(s \o t) : (s \o t)[k] = e}
            D == {k \in C : k > Len(s)}
            f == [k \in B |-> k + Len(s)]
<1>1. /\ Len(s) \in Nat /\ Len(t) \in Nat /\ Len(s \o t) = Len(s) + Len(t)
      /\ \A k \in 1..(Len(s) + Len(t)) :
            (s \o t)[k] = IF k <= Len(s) THEN s[k] ELSE t[k - Len(s)]
  BY ConcatProperties
<1>2. C = A \cup D
  BY <1>1
<1>3. A \cap D = {}
  BY <1>1
<1>4. IsFiniteSet(A) /\ IsFiniteSet(B) /\ Times(s, e) = Cardinality(A)
      /\ Times(t, e) = Cardinality(B)
  BY TimesType DEF Times
<1>5. f \in Bijection(B, D)
  <2>1. f \in [B -> D]
    BY <1>1
  <2>2. \A j, k \in B : f[j] = f[k] => j = k
    BY <1>1
  <2>3. \A d \in D : \E k \in B : f[k] = d
    <3>. SUFFICES ASSUME NEW d \in D PROVE d - Len(s) \in B /\ f[d - Len(s)] = d
      OBVIOUS
    <3>1. d \in 1..(Len(s) + Len(t)) /\ d > Len(s) /\ (s \o t)[d] = e
      BY <1>1
    <3>. QED
      BY <1>1, <3>1
  <2>. HIDE DEF B, D, f
  <2>. QED
    BY <2>1, <2>2, <2>3, Fun_IsBij
<1>6. IsFiniteSet(D) /\ Cardinality(D) = Cardinality(B)
  <2>. HIDE DEF B, D, f
  <2>1. ExistsBijection(B, D)
    BY <1>5 DEF ExistsBijection
  <2>. QED
    BY <1>4, <2>1, FS_Bijection
<1>7. Cardinality(C) = Cardinality(A) + Cardinality(D) - Cardinality(A \cap D)
  <2>. HIDE DEF A, B, C, D, f
  <2>. QED
    BY <1>2, <1>4, <1>6, FS_Union
<1>8. Cardinality(A) \in Nat /\ Cardinality(B) \in Nat /\ Cardinality(A \cap D) = 0
  BY <1>3, <1>4, FS_CardinalityType, FS_EmptySet
<1>9. Times(s \o t, e) = Cardinality(C)
  BY DEF Times
<1>. HIDE DEF A, B, C, D, f
<1>. QED
  BY <1>4, <1>6, <1>7, <1>8, <1>9

(* The entries an error consists of are of the function that has returned  *)
(* it; nil and a function that has not ended have none.                    *)
LEMMA ErrorsType ==
    ASSUME NEW x \in Functions, NEW o \in Outcomes \cup {"pending"}
    PROVE  /\ Errors(x, o) \in Seq(Failures)
           /\ o \in {"pending", "nil"} => Errors(x, o) = << >>
           /\ \A y \in Functions \ {x}, k \in 1..2 : Times(Errors(x, o), <<y, k>>) = 0
<1>1. Errors(x, o) \in {<< >>, << <<x, 1>> >>, << <<x, 1>>, <<x, 2>> >>}
  BY DEF Errors, Outcomes
<1>2. <<x, 1>> \in Failures /\ <<x, 2>> \in Failures
  BY DEF Failures
<1>3. Errors(x, o) \in Seq(Failures)
  <2>1. << >> \in Seq(Failures)
    OBVIOUS
  <2>2. << <<x, 1>> >> \in Seq(Failures)
    BY <1>2
  <2>3. << <<x, 1>>, <<x, 2>> >> \in Seq(Failures)
    BY <1>2
  <2>. QED
    BY <1>1, <2>1, <2>2, <2>3, Zenon
<1>4. ASSUME NEW y \in Functions \ {x}, NEW k \in 1..2
      PROVE  Times(Errors(x, o), <<y, k>>) = 0
  <2>1. \A i \in 1..Len(Errors(x, o)) : Errors(x, o)[i] # <<y, k>>
    BY <1>1
  <2>. QED
    BY <1>3, <2>1, TimesType
<1>5. o \in {"pending", "nil"} => Errors(x, o) = << >>
  BY DEF Errors
<1>. QED
  BY <1>3, <1>4, <1>5

(* Adding the error of a function adds its entries and nothing else.       *)
LEMMA WithAdds ==
    ASSUME GroupTypeOK, NEW e \in GroupError, NEW x \in Functions
    PROVE  /\ With(e, x) \in GroupError /\ With(e, x).set
           /\ \A y \in Functions, k \in 1..2 :
                 Times(With(e, x).errors, <<y, k>>) =
                    Times(e.errors, <<y, k>>)
                       + IF y = x THEN Times(Errors(x, outcome[x]), <<y, k>>) ELSE 0
<1>1. Errors(x, outcome[x]) \in Seq(Failures) /\ e.errors \in Seq(Failures)
  BY ErrorsType DEF GroupTypeOK, GroupError
<1>2. With(e, x) \in GroupError /\ With(e, x).set
      /\ With(e, x).errors = e.errors \o Errors(x, outcome[x])
  BY <1>1, ConcatProperties DEF With, GroupError
<1>3. ASSUME NEW y \in Functions, NEW k \in 1..2
      PROVE  /\ Times(With(e, x).errors, <<y, k>>)
                  = Times(e.errors, <<y, k>>) + Times(Errors(x, outcome[x]), <<y, k>>)
             /\ y # x => Times(Errors(x, outcome[x]), <<y, k>>) = 0
  <2>1. Times(With(e, x).errors, <<y, k>>)
           = Times(e.errors, <<y, k>>) + Times(Errors(x, outcome[x]), <<y, k>>)
    BY <1>1, <1>2, TimesConcat
  <2>2. outcome[x] \in Outcomes \cup {"pending"}
    BY DEF GroupTypeOK
  <2>3. y # x => Times(Errors(x, outcome[x]), <<y, k>>) = 0
    BY <2>2, ErrorsType
  <2>. QED
    BY <2>1, <2>3
<1>4. \A y \in Functions, k \in 1..2 : Times(e.errors, <<y, k>>) \in Nat
  BY <1>1, TimesType
<1>. QED
  BY <1>2, <1>3, <1>4

-----------------------------------------------------------------------------
(* What steps leave as it is.                                              *)

(* What g.err tells stays true while it is not written, if whoever has     *)
(* ended meanwhile either had nothing to add or has yet to add it.         *)
LEMMA TellsKept ==
    ASSUME GroupTypeOK, TellsInv, UNCHANGED err,
           \A x \in Functions :
              \/ (Added(x)' <=> Added(x)) /\ (Added(x) => outcome'[x] = outcome[x])
              \/ ~Added(x) /\ outcome'[x] = "nil"
    PROVE  TellsInv'
<1>1. ASSUME NEW x \in Functions
      PROVE  Told(x)'
  <2>1. Errors(x, "nil") = << >> /\ << >> \in Seq(Failures)
    BY ErrorsType DEF Outcomes
  <2>2. \A k \in 1..2 : Times(Errors(x, "nil"), <<x, k>>) = 0
    BY <2>1, EmptyTimes
  <2>3. ASSUME NEW k \in 1..2
        PROVE  Times(err'.errors, <<x, k>>) =
                  IF Added(x)' THEN Times(Errors(x, outcome'[x]), <<x, k>>) ELSE 0
    <3>1. Times(err.errors, <<x, k>>) =
             IF Added(x) THEN Times(Errors(x, outcome[x]), <<x, k>>) ELSE 0
      BY DEF TellsInv, Told
    <3>2. CASE (Added(x)' <=> Added(x)) /\ (Added(x) => outcome'[x] = outcome[x])
      BY <3>1, <3>2
    <3>3. CASE ~Added(x) /\ outcome'[x] = "nil"
      BY <2>2, <3>1, <3>3
    <3>. QED
      BY <3>2, <3>3
  <2>. QED
    BY <2>3 DEF Told
<1>2. (\E x \in Functions : Added(x)' /\ Failed(x)')
         <=> (\E x \in Functions : Added(x) /\ Failed(x))
  <2>1. \A x \in Functions : Added(x)' /\ Failed(x)' <=> Added(x) /\ Failed(x)
    BY DEF Failed
  <2>. QED
    BY <2>1
<1>. QED
  BY <1>1, <1>2 DEF TellsInv

(* Whoever stores has the mutex, so that g.err gains its entries.          *)
LEMMA TellsStored ==
    ASSUME GroupTypeOK, TellsInv, NEW x \in Functions, ~Added(x), Failed(x),
           err' = With(err, x), UNCHANGED outcome,
           Added(x)', \A y \in Functions \ {x} : Added(y)' <=> Added(y)
    PROVE  TellsInv'
<1>1. /\ err'.set
      /\ \A y \in Functions, k \in 1..2 :
            Times(err'.errors, <<y, k>>) =
               Times(err.errors, <<y, k>>)
                  + IF y = x THEN Times(Errors(x, outcome[x]), <<y, k>>) ELSE 0
  BY WithAdds DEF GroupTypeOK
<1>2. \A y \in Functions, k \in 1..2 :
         /\ Times(err.errors, <<y, k>>) =
               IF Added(y) THEN Times(Errors(y, outcome[y]), <<y, k>>) ELSE 0
         /\ Times(err.errors, <<y, k>>) \in Nat
         /\ Times(Errors(y, outcome[y]), <<y, k>>) \in Nat
  BY ErrorsType, TimesType DEF TellsInv, Told, GroupTypeOK, GroupError
<1>3. ASSUME NEW y \in Functions
      PROVE  Told(y)'
  <2>. SUFFICES ASSUME NEW k \in 1..2
                PROVE  Times(err'.errors, <<y, k>>) =
                          IF Added(y)' THEN Times(Errors(y, outcome[y]), <<y, k>>) ELSE 0
    BY DEF Told
  <2>. DEFINE before == Times(err.errors, <<y, k>>)
              own    == Times(Errors(y, outcome[y]), <<y, k>>)
              after  == Times(err'.errors, <<y, k>>)
  <2>1. /\ after = before + IF y = x THEN own ELSE 0
        /\ before = IF Added(y) THEN own ELSE 0
        /\ before \in Nat /\ own \in Nat
    BY <1>1, <1>2
  <2>2. Added(y)' <=> (Added(y) \/ y = x)
    OBVIOUS
  <2>. HIDE DEF before, own, after
  <2>3. CASE y = x
    <3>1. before = 0 /\ after = before + own /\ Added(y)'
      BY <2>1, <2>2, <2>3
    <3>2. after = own
      BY <2>1, <3>1
    <3>. QED
      BY <3>1, <3>2 DEF after, own
  <2>4. CASE y # x
    <3>1. after = before /\ (Added(y)' <=> Added(y))
      BY <2>1, <2>2, <2>4
    <3>. QED
      BY <2>1, <3>1 DEF after, own
  <2>. QED
    BY <2>3, <2>4
<1>4. Failed(x)'
  BY DEF Failed
<1>. QED
  BY <1>1, <1>3, <1>4 DEF TellsInv

(* Functions, final functions, and the owner are told apart.               *)
LEMMA Kinds ==
    /\ \A t \in Tasks : t \notin Finals /\ t # Owner /\ t \in Functions /\ t \in Runners
    /\ \A f \in Finals : f \notin Tasks /\ f # Owner /\ f \in Functions /\ f \notin Runners
    /\ Owner \in Runners /\ Owner \notin Tasks
BY GroupAssumption DEF Functions, Runners

-----------------------------------------------------------------------------
(* The goroutines.                                                         *)

(* A goroutine begins while somebody runs who may call Go: Wait still      *)
(* waits, or has not been called.                                          *)
LEMMA GoInv ==
    ASSUME GroupInv, NEW t \in Tasks, Go(t)
    PROVE  GroupInv'
<1>. USE Kinds
<1>1. GroupTypeOK /\ MutexInv /\ TaskInv /\ FinallyInv /\ ListInv /\ TellsInv
  BY DEF GroupInv
<1>2. Early
  <2>1. By[t] \in Tasks \/ By[t] = Owner
    BY GroupAssumption DEF Runners
  <2>. QED
    BY <1>1, <2>1 DEF Go, Active, ListInv, Early
<1>3. /\ task[t] = "idle" /\ task' = [task EXCEPT ![t] = "run"]
      /\ UNCHANGED <<outcome, mutex, err, read, finally, waiting, list, registered, result>>
  BY DEF Go
<1>4. GroupTypeOK'
  BY <1>1, <1>3 DEF GroupTypeOK
<1>5. MutexInv'
  BY <1>1, <1>3 DEF GroupTypeOK, MutexInv
<1>6. TaskInv'
  BY <1>1, <1>3 DEF GroupTypeOK, TaskInv
<1>7. FinallyInv' /\ ListInv'
  BY <1>1, <1>2, <1>3 DEF FinallyInv, ListInv, Early, Listed
<1>8. TellsInv'
  <2>1. \A x \in Functions : Added(x)' <=> Added(x)
    BY <1>1, <1>3 DEF Added, GroupTypeOK
  <2>. QED
    BY <1>1, <1>3, <2>1, TellsKept
<1>. QED
  BY <1>4, <1>5, <1>6, <1>7, <1>8 DEF GroupInv

(* One that ends has its errors, if any, still to add.                     *)
LEMMA EndTaskInv ==
    ASSUME GroupInv, NEW t \in Tasks, NEW o \in Outcomes, EndTask(t, o)
    PROVE  GroupInv'
<1>. USE Kinds
<1>1. GroupTypeOK /\ MutexInv /\ TaskInv /\ FinallyInv /\ ListInv /\ TellsInv
  BY DEF GroupInv
<1>2. /\ task[t] = "run" /\ outcome' = [outcome EXCEPT ![t] = o]
      /\ task' = [task EXCEPT ![t] = IF o = "nil" THEN "done" ELSE "lock"]
      /\ UNCHANGED <<mutex, err, read, finally, waiting, list, registered, result>>
      /\ o # "pending" /\ Early
  BY <1>1 DEF EndTask, Outcomes, ListInv
<1>3. GroupTypeOK'
  BY <1>1, <1>2 DEF GroupTypeOK
<1>4. MutexInv'
  BY <1>1, <1>2 DEF GroupTypeOK, MutexInv
<1>5. TaskInv'
  BY <1>1, <1>2 DEF GroupTypeOK, TaskInv
<1>6. \A f \in Functions \ {t} : outcome'[f] = outcome[f]
  BY <1>1, <1>2 DEF GroupTypeOK
<1>7. FinallyInv' /\ ListInv'
  BY <1>1, <1>2, <1>6 DEF FinallyInv, ListInv, Early, GroupTypeOK
<1>8. TellsInv'
  <2>1. \A x \in Functions \ {t} : Added(x)' <=> Added(x)
    BY <1>1, <1>2, <1>6 DEF Added, GroupTypeOK
  <2>2. ~Added(t) /\ (Added(t)' => outcome'[t] = "nil")
    BY <1>1, <1>2 DEF Added, GroupTypeOK
  <2>. QED
    BY <1>1, <1>2, <1>6, <2>1, <2>2, TellsKept
<1>. QED
  BY <1>3, <1>4, <1>5, <1>7, <1>8 DEF GroupInv

(* It takes the mutex when nobody has it.                                  *)
LEMMA TaskLocksInv ==
    ASSUME GroupInv, NEW t \in Tasks, TaskLocks(t)
    PROVE  GroupInv'
<1>. USE Kinds
<1>1. GroupTypeOK /\ MutexInv /\ TaskInv /\ FinallyInv /\ ListInv /\ TellsInv
  BY DEF GroupInv
<1>2. /\ task[t] = "lock" /\ task' = [task EXCEPT ![t] = "store"]
      /\ mutex = {} /\ mutex' = {t} /\ read' = [read EXCEPT ![t] = err]
      /\ UNCHANGED <<outcome, err, finally, waiting, list, registered, result>>
      /\ Early
  BY <1>1 DEF TaskLocks, AddLock, ListInv
<1>3. GroupTypeOK'
  BY <1>1, <1>2 DEF GroupTypeOK
<1>4. MutexInv'
  BY <1>1, <1>2 DEF GroupTypeOK, MutexInv
<1>5. TaskInv'
  BY <1>1, <1>2 DEF GroupTypeOK, TaskInv
<1>6. FinallyInv' /\ ListInv'
  BY <1>1, <1>2 DEF FinallyInv, ListInv, Early, Listed
<1>7. TellsInv'
  <2>1. \A x \in Functions : Added(x)' <=> Added(x)
    BY <1>1, <1>2 DEF Added, GroupTypeOK
  <2>. QED
    BY <1>1, <1>2, <2>1, TellsKept
<1>. QED
  BY <1>3, <1>4, <1>5, <1>6, <1>7 DEF GroupInv

(* What it stores is what was there, and its own errors.                   *)
LEMMA TaskStoresInv ==
    ASSUME GroupInv, NEW t \in Tasks, TaskStores(t)
    PROVE  GroupInv'
<1>. USE Kinds
<1>1. GroupTypeOK /\ MutexInv /\ TaskInv /\ FinallyInv /\ ListInv /\ TellsInv
  BY DEF GroupInv
<1>2. /\ task[t] = "store" /\ task' = [task EXCEPT ![t] = "done"]
      /\ t \in mutex /\ mutex' = mutex \ {t} /\ read' = [read EXCEPT ![t] = Unset]
      /\ err' = With(read[t], t)
      /\ UNCHANGED <<outcome, finally, waiting, list, registered, result>>
  BY DEF TaskStores, AddStore
<1>3. mutex = {t} /\ read[t] = err /\ Early
  BY <1>1, <1>2 DEF MutexInv, ListInv
<1>4. GroupTypeOK'
  <2>1. err' \in GroupError /\ Unset \in GroupError
    BY <1>1, <1>2, <1>3, WithAdds DEF GroupTypeOK, GroupError, Unset
  <2>. QED
    BY <1>1, <1>2, <2>1 DEF GroupTypeOK
<1>5. MutexInv'
  BY <1>1, <1>2, <1>3 DEF GroupTypeOK, MutexInv
<1>6. TaskInv'
  BY <1>1, <1>2 DEF GroupTypeOK, TaskInv
<1>7. FinallyInv' /\ ListInv'
  BY <1>1, <1>2, <1>3 DEF FinallyInv, ListInv, Early, Listed
<1>8. TellsInv'
  <2>1. ~Added(t) /\ Added(t)' /\ Failed(t)
    BY <1>1, <1>2 DEF Added, Failed, GroupTypeOK, TaskInv
  <2>2. \A x \in Functions \ {t} : Added(x)' <=> Added(x)
    BY <1>1, <1>2 DEF Added, GroupTypeOK
  <2>. QED
    BY <1>1, <1>2, <1>3, <2>1, <2>2, TellsStored
<1>. QED
  BY <1>4, <1>5, <1>6, <1>7, <1>8 DEF GroupInv

-----------------------------------------------------------------------------
(* The final functions, and Wait.                                          *)

(* A function registers a final one: those that run before Wait takes them *)
(* add to what it will take, a final function to what nobody will.         *)
LEMMA RegisterInv ==
    ASSUME GroupInv, NEW f \in Finals, Finally(f)
    PROVE  GroupInv'
<1>. USE Kinds
<1>1. GroupTypeOK /\ MutexInv /\ TaskInv /\ FinallyInv /\ ListInv /\ TellsInv
  BY DEF GroupInv
<1>2. /\ f \notin registered /\ Active(By[f])
      /\ finally' = Append(finally, f) /\ registered' = registered \cup {f}
      /\ UNCHANGED <<task, outcome, mutex, err, read, waiting, list, result>>
  BY DEF Finally
<1>3. /\ Len(finally) \in Nat /\ Len(finally') = Len(finally) + 1
      /\ \A i \in 1..Len(finally) : finally'[i] = finally[i]
      /\ finally'[Len(finally) + 1] = f
      /\ finally' \in Seq(Finals)
  BY <1>1, <1>2, AppendProperties DEF GroupTypeOK
<1>4. IF By[f] \in Runners THEN Early ELSE ~Early
  <2>1. By[f] \in Runners \/ By[f] \in Finals
    BY GroupAssumption
  <2>2. CASE By[f] \in Tasks
    BY <1>1, <1>2, <2>2 DEF Active, ListInv, Runners
  <2>3. CASE By[f] = Owner
    BY <1>2, <2>3 DEF Active, Early, Runners
  <2>4. CASE By[f] \in Finals
    BY <1>2, <2>4 DEF Active, Early
  <2>. QED
    BY <2>1, <2>2, <2>3, <2>4 DEF Runners
<1>5. GroupTypeOK'
  BY <1>1, <1>2, <1>3 DEF GroupTypeOK
<1>6. MutexInv' /\ TaskInv'
  BY <1>1, <1>2 DEF MutexInv, TaskInv
<1>7. FinallyInv'
  <2>1. \A i \in 1..Len(finally) : finally[i] \in registered
    BY <1>1 DEF FinallyInv
  <2>2. \A i \in 1..Len(finally') :
           \/ i \in 1..Len(finally) /\ finally'[i] = finally[i]
           \/ i = Len(finally) + 1 /\ finally'[i] = f
    BY <1>3
  <2>3. \A i, j \in 1..Len(finally') : finally'[i] = finally'[j] => i = j
    BY <1>1, <1>2, <2>1, <2>2 DEF FinallyInv
  <2>4. \A i \in 1..Len(finally') : finally'[i] \in registered'
    BY <1>2, <2>1, <2>2
  <2>5. ASSUME Early
        PROVE  /\ list' = << >>
               /\ \A g \in Finals : outcome'[g] = "pending"
               /\ \A g \in registered' :
                     By[g] \in Runners /\ \E i \in 1..Len(finally') : finally'[i] = g
    <3>1. /\ list = << >> /\ \A g \in Finals : outcome[g] = "pending"
          /\ \A g \in registered :
                By[g] \in Runners /\ \E i \in 1..Len(finally) : finally[i] = g
      BY <1>1, <2>5 DEF FinallyInv
    <3>2. By[f] \in Runners
      BY <1>4, <2>5
    <3>3. ASSUME NEW g \in registered'
          PROVE  By[g] \in Runners /\ \E i \in 1..Len(finally') : finally'[i] = g
      <4>1. CASE g = f
        <5>1. Len(finally) + 1 \in 1..Len(finally')
          BY <1>3
        <5>. QED
          BY <1>3, <3>2, <4>1, <5>1
      <4>2. CASE g \in registered
        <5>1. PICK i \in 1..Len(finally) : finally[i] = g
          BY <3>1, <4>2
        <5>2. i \in 1..Len(finally') /\ finally'[i] = g
          BY <1>3, <5>1
        <5>. QED
          BY <3>1, <4>2, <5>2
      <4>. QED
        BY <1>2, <4>1, <4>2
    <3>. QED
      BY <1>2, <3>1, <3>3
  <2>6. Early' <=> Early
    BY <1>2 DEF Early
  <2>. QED
    BY <2>3, <2>4, <2>5, <2>6 DEF FinallyInv
<1>8. ListInv'
  <2>1. ASSUME ~Early, NEW g \in Finals
        PROVE  g \in registered' /\ By[g] \in Runners <=> outcome'[g] # "pending" \/ g \in Listed'
    <3>1. g \in registered /\ By[g] \in Runners <=> outcome[g] # "pending" \/ g \in Listed
      BY <1>1, <2>1 DEF ListInv
    <3>2. g \in registered' /\ By[g] \in Runners <=> g \in registered /\ By[g] \in Runners
      BY <1>2, <1>4, <2>1
    <3>3. Listed' = Listed
      BY <1>2 DEF Listed
    <3>. QED
      BY <1>2, <3>1, <3>2, <3>3
  <2>2. Early' <=> Early
    BY <1>2 DEF Early
  <2>. QED
    BY <1>1, <1>2, <2>1, <2>2 DEF ListInv
<1>9. TellsInv'
  <2>1. \A x \in Functions : Added(x)' <=> Added(x)
    BY <1>2 DEF Added
  <2>. QED
    BY <1>1, <1>2, <2>1, TellsKept
<1>. QED
  BY <1>5, <1>6, <1>7, <1>8, <1>9 DEF GroupInv

(* The owner calls Wait.                                                   *)
LEMMA WaitInv ==
    ASSUME GroupInv, Wait
    PROVE  GroupInv'
<1>. USE Kinds
<1>1. GroupTypeOK /\ MutexInv /\ TaskInv /\ FinallyInv /\ ListInv /\ TellsInv
  BY DEF GroupInv
<1>2. /\ waiting = "no" /\ waiting' = "tasks"
      /\ UNCHANGED <<task, outcome, mutex, err, read, finally, list, registered, result>>
  BY DEF Wait
<1>3. GroupTypeOK' /\ MutexInv' /\ TaskInv'
  BY <1>1, <1>2 DEF GroupTypeOK, MutexInv, TaskInv
<1>4. FinallyInv' /\ ListInv'
  BY <1>1, <1>2 DEF FinallyInv, ListInv, Early, Listed
<1>5. TellsInv'
  <2>1. \A x \in Functions : Added(x)' <=> Added(x)
    BY <1>2 DEF Added
  <2>. QED
    BY <1>1, <1>2, <2>1, TellsKept
<1>. QED
  BY <1>3, <1>4, <1>5 DEF GroupInv

(* The WaitGroup is empty: nobody runs any more, and what Wait takes is    *)
(* all that was registered.                                                *)
LEMMA TakeFinalsInv ==
    ASSUME GroupInv, TakeFinals
    PROVE  GroupInv'
<1>. USE Kinds
<1>1. GroupTypeOK /\ MutexInv /\ TaskInv /\ FinallyInv /\ ListInv /\ TellsInv
  BY DEF GroupInv
<1>2. /\ waiting = "tasks" /\ waiting' = "finals"
      /\ \A t \in Tasks : task[t] \in {"idle", "done"}
      /\ list' = finally /\ finally' = << >>
      /\ UNCHANGED <<task, outcome, mutex, err, read, registered, result>>
  BY DEF TakeFinals
<1>3. Early /\ ~Early'
  BY <1>2 DEF Early
<1>4. GroupTypeOK' /\ MutexInv' /\ TaskInv'
  BY <1>1, <1>2 DEF GroupTypeOK, MutexInv, TaskInv
<1>5. FinallyInv'
  <2>1. Len(finally') = 0
    BY <1>2
  <2>2. 1..Len(finally') = {}
    BY <2>1
  <2>. QED
    BY <1>3, <2>2 DEF FinallyInv
<1>6. ListInv'
  <2>1. ASSUME NEW f \in Finals
        PROVE  f \in registered' /\ By[f] \in Runners <=> outcome'[f] # "pending" \/ f \in Listed'
    <3>1. outcome'[f] = "pending"
      BY <1>1, <1>2, <1>3 DEF FinallyInv
    <3>2. f \in Listed' <=> \E i \in 1..Len(finally) : finally[i] = f
      BY <1>2 DEF Listed, Entries
    <3>3. (\E i \in 1..Len(finally) : finally[i] = f) <=> f \in registered
      BY <1>1, <1>3 DEF FinallyInv
    <3>4. f \in registered => By[f] \in Runners
      BY <1>1, <1>3 DEF FinallyInv
    <3>. QED
      BY <1>2, <3>1, <3>2, <3>3, <3>4
  <2>2. \A i \in 1..Len(list') : outcome'[list'[i]] = "pending"
    <3>1. \A i \in 1..Len(finally) : finally[i] \in Finals
      BY <1>1 DEF GroupTypeOK
    <3>. QED
      BY <1>1, <1>2, <1>3, <3>1 DEF FinallyInv
  <2>. QED
    BY <1>1, <1>2, <2>1, <2>2 DEF ListInv, FinallyInv
<1>7. TellsInv'
  <2>1. \A f \in Finals : ~Added(f) /\ ~Added(f)'
    BY <1>1, <1>2, <1>3 DEF Added, FinallyInv
  <2>2. \A t \in Tasks : Added(t)' <=> Added(t)
    BY <1>2 DEF Added
  <2>. QED
    BY <1>1, <1>2, <2>1, <2>2, TellsKept DEF Functions
<1>. QED
  BY <1>4, <1>5, <1>6, <1>7 DEF GroupInv

(* What is left of a list without its first entry.                         *)
LEMMA TailOf ==
    ASSUME GroupTypeOK, ListInv, list # << >>
    PROVE  /\ Tail(list) \in Seq(Finals) /\ Head(list) \in Finals
           /\ Len(list) \in Nat \ {0} /\ Len(Tail(list)) = Len(list) - 1
           /\ Head(list) = list[1] /\ 1 \in 1..Len(list)
           /\ \A i \in 1..Len(Tail(list)) :
                 Tail(list)[i] = list[i + 1] /\ i + 1 \in 1..Len(list)
           /\ \A i, j \in 1..Len(Tail(list)) : Tail(list)[i] = Tail(list)[j] => i = j
           /\ Entries(Tail(list)) = Listed \ {Head(list)}
<1>1. list \in Seq(Finals)
  BY DEF GroupTypeOK
<1>2. /\ Tail(list) \in Seq(Finals) /\ Head(list) \in Finals
      /\ Len(list) \in Nat \ {0} /\ Len(Tail(list)) = Len(list) - 1
      /\ Head(list) = list[1]
      /\ \A i \in 1..Len(Tail(list)) : Tail(list)[i] = list[i + 1]
  BY <1>1, HeadTailProperties, EmptySeq, LenProperties
<1>3. 1 \in 1..Len(list) /\ \A i \in 1..Len(Tail(list)) : i + 1 \in 1..Len(list)
  BY <1>2
<1>4. \A i, j \in 1..Len(list) : list[i] = list[j] => i = j
  BY DEF ListInv
<1>5. \A i, j \in 1..Len(Tail(list)) : Tail(list)[i] = Tail(list)[j] => i = j
  BY <1>2, <1>3, <1>4
<1>6. Entries(Tail(list)) = Listed \ {Head(list)}
  <2>1. ASSUME NEW i \in 1..Len(Tail(list))
        PROVE  Tail(list)[i] \in Listed /\ Tail(list)[i] # Head(list)
    <3>1. i + 1 \in 1..Len(list) /\ Tail(list)[i] = list[i + 1] /\ i + 1 # 1
      BY <1>2, <1>3
    <3>. QED
      BY <1>2, <1>3, <1>4, <3>1 DEF Listed, Entries
  <2>2. ASSUME NEW f \in Listed \ {Head(list)}
        PROVE  \E i \in 1..Len(Tail(list)) : Tail(list)[i] = f
    <3>1. PICK j \in 1..Len(list) : list[j] = f
      BY <2>2 DEF Listed, Entries
    <3>2. j # 1
      BY <1>2, <2>2, <3>1
    <3>3. j - 1 \in 1..Len(Tail(list)) /\ (j - 1) + 1 = j
      BY <1>2, <3>1, <3>2
    <3>4. Tail(list)[j - 1] = list[j]
      BY <1>2, <3>3
    <3>. QED
      BY <3>1, <3>3, <3>4
  <2>. QED
    BY <2>1, <2>2 DEF Listed, Entries
<1>. QED
  BY <1>2, <1>3, <1>5, <1>6

(* A final function ends: it leaves the list if it has nothing to add; if  *)
(* it has, or has panicked, it stays the first.                            *)
LEMMA EndFinalInv ==
    ASSUME GroupInv, NEW o \in Outcomes, EndFinal(o)
    PROVE  GroupInv'
<1>. USE Kinds
<1>1. GroupTypeOK /\ MutexInv /\ TaskInv /\ FinallyInv /\ ListInv /\ TellsInv
  BY DEF GroupInv
<1>0. PICK h \in Finals : h = Head(list)
  BY <1>1, TailOf DEF EndFinal
<1>2. /\ waiting = "finals" /\ list # << >>
      /\ outcome' = [outcome EXCEPT ![h] = o]
      /\ \/ o = "nil" /\ waiting' = "finals" /\ list' = Tail(list)
         \/ o = "panic" /\ waiting' = "panicked" /\ list' = list
         \/ o \notin {"nil", "panic"} /\ waiting' = "lock" /\ list' = list
      /\ UNCHANGED <<task, mutex, err, read, finally, registered, result>>
      /\ o # "pending"
  BY <1>0 DEF EndFinal, Outcomes
<1>3. /\ Tail(list) \in Seq(Finals) /\ h \in Finals
      /\ h = list[1] /\ 1 \in 1..Len(list) /\ Len(list) \in Nat
      /\ \A i \in 1..Len(Tail(list)) : Tail(list)[i] = list[i + 1] /\ i + 1 \in 1..Len(list)
      /\ \A i, j \in 1..Len(Tail(list)) : Tail(list)[i] = Tail(list)[j] => i = j
      /\ Entries(Tail(list)) = Listed \ {h}
      /\ Len(Tail(list)) \in Nat
  BY <1>0, <1>1, <1>2, TailOf, LenProperties
<1>4. /\ outcome[h] = "pending" /\ outcome'[h] = o
      /\ \A x \in Functions \ {h} : outcome'[x] = outcome[x]
      /\ ~Early /\ ~Early'
  BY <1>0, <1>1, <1>2, <1>3 DEF ListInv, GroupTypeOK, Early
<1>5. GroupTypeOK'
  BY <1>1, <1>2, <1>3 DEF GroupTypeOK
<1>6. MutexInv'
  BY <1>1, <1>2 DEF MutexInv
<1>7. TaskInv'
  BY <1>1, <1>2, <1>3, <1>4 DEF TaskInv
<1>8. FinallyInv'
  BY <1>1, <1>2, <1>4 DEF FinallyInv
<1>9. ListInv'
  <2>1. \A i, j \in 1..Len(list) : list[i] = list[j] => i = j
    BY <1>1 DEF ListInv
  <2>2. \A i, j \in 1..Len(list') : list'[i] = list'[j] => i = j
    BY <1>2, <1>3, <2>1
  <2>3. ASSUME NEW f \in Finals
        PROVE  f \in registered' /\ By[f] \in Runners <=> outcome'[f] # "pending" \/ f \in Listed'
    <3>1. f \in registered /\ By[f] \in Runners <=> outcome[f] # "pending" \/ f \in Listed
      BY <1>1, <1>4 DEF ListInv
    <3>2. h \in Listed
      BY <1>3 DEF Listed, Entries
    <3>3. Listed' = Listed \/ Listed' = Listed \ {h}
      BY <1>2, <1>3 DEF Listed
    <3>4. CASE f = h
      BY <1>2, <1>4, <3>1, <3>2, <3>4
    <3>5. CASE f # h
      BY <1>2, <1>4, <3>1, <3>3, <3>5
    <3>. QED
      BY <3>4, <3>5
  <2>4. ASSUME NEW i \in 1..Len(list'), i > 1 \/ waiting' = "finals"
        PROVE  outcome'[list'[i]] = "pending"
    <3>1. \A k \in 1..Len(list) : list[k] \in Finals /\ outcome[list[k]] = "pending"
      BY <1>1, <1>2 DEF ListInv, GroupTypeOK
    <3>2. \A k \in 1..Len(list) : k # 1 => list[k] # h
      BY <1>3, <2>1
    <3>3. PICK k \in 1..Len(list) : k # 1 /\ list'[i] = list[k]
      <4>1. CASE o = "nil"
        <5>1. i + 1 \in 1..Len(list) /\ list'[i] = list[i + 1] /\ i + 1 # 1
          BY <1>2, <1>3, <4>1
        <5>. QED
          BY <5>1
      <4>2. CASE o # "nil"
        <5>1. list' = list /\ i # 1
          BY <1>2, <2>4, <4>2
        <5>. QED
          BY <5>1
      <4>. QED
        BY <4>1, <4>2
    <3>. QED
      BY <1>4, <3>1, <3>2, <3>3
  <2>5. waiting' \in {"lock", "store"} =>
           list' # << >> /\ outcome'[Head(list')] \notin {"pending", "nil"}
    BY <1>0, <1>2, <1>4
  <2>6. waiting' = "panicked" => list' # << >>
    BY <1>2
  <2>7. waiting' # "returned"
    BY <1>2
  <2>8. \A t \in Tasks : task'[t] \in {"idle", "done"}
    BY <1>1, <1>2, <1>4 DEF ListInv
  <2>. QED
    BY <2>2, <2>3, <2>4, <2>5, <2>6, <2>7, <2>8 DEF ListInv
<1>10. TellsInv'
  <2>1. ASSUME NEW x \in Functions \ {h}
        PROVE  (Added(x)' <=> Added(x)) /\ outcome'[x] = outcome[x]
    BY <1>0, <1>2, <1>4 DEF Added
  <2>2. ~Added(h) /\ (Added(h)' => outcome'[h] = "nil")
    BY <1>0, <1>2, <1>3, <1>4 DEF Added
  <2>3. \A x \in Functions :
           \/ (Added(x)' <=> Added(x)) /\ (Added(x) => outcome'[x] = outcome[x])
           \/ ~Added(x) /\ outcome'[x] = "nil"
    BY <2>1, <2>2
  <2>. QED
    BY <1>1, <1>2, <2>3, TellsKept
<1>. QED
  BY <1>5, <1>6, <1>7, <1>8, <1>9, <1>10 DEF GroupInv

(* The owner takes the mutex for what the first one has returned.          *)
LEMMA OwnerLocksInv ==
    ASSUME GroupInv, OwnerLocks
    PROVE  GroupInv'
<1>. USE Kinds
<1>1. GroupTypeOK /\ MutexInv /\ TaskInv /\ FinallyInv /\ ListInv /\ TellsInv
  BY DEF GroupInv
<1>2. /\ waiting = "lock" /\ waiting' = "store"
      /\ mutex = {} /\ mutex' = {Owner} /\ read' = [read EXCEPT ![Owner] = err]
      /\ UNCHANGED <<task, outcome, err, finally, list, registered, result>>
  BY DEF OwnerLocks, AddLock
<1>3. GroupTypeOK' /\ MutexInv' /\ TaskInv'
  BY <1>1, <1>2 DEF GroupTypeOK, MutexInv, TaskInv
<1>4. FinallyInv' /\ ListInv'
  BY <1>1, <1>2 DEF FinallyInv, ListInv, Early, Listed
<1>5. TellsInv'
  <2>1. \A x \in Functions : Added(x)' <=> Added(x)
    BY <1>2 DEF Added
  <2>. QED
    BY <1>1, <1>2, <2>1, TellsKept
<1>. QED
  BY <1>3, <1>4, <1>5 DEF GroupInv

(* It stores it, and goes on with the next.                                *)
LEMMA OwnerStoresInv ==
    ASSUME GroupInv, OwnerStores
    PROVE  GroupInv'
<1>. USE Kinds
<1>1. GroupTypeOK /\ MutexInv /\ TaskInv /\ FinallyInv /\ ListInv /\ TellsInv
  BY DEF GroupInv
<1>0. PICK h \in Finals : h = Head(list)
  BY <1>1, TailOf DEF OwnerStores, ListInv
<1>2. /\ waiting = "store" /\ waiting' = "finals" /\ list' = Tail(list)
      /\ Owner \in mutex /\ mutex' = mutex \ {Owner} /\ err' = With(read[Owner], h)
      /\ read' = [read EXCEPT ![Owner] = Unset]
      /\ UNCHANGED <<task, outcome, finally, registered, result>>
  BY <1>0 DEF OwnerStores, AddStore
<1>3. mutex = {Owner} /\ read[Owner] = err /\ ~Early /\ ~Early'
  BY <1>1, <1>2 DEF MutexInv, Early
<1>4. list # << >> /\ outcome[h] \notin {"pending", "nil"}
  BY <1>0, <1>1, <1>2 DEF ListInv
<1>5. /\ Tail(list) \in Seq(Finals) /\ h \in Finals
      /\ h = list[1] /\ 1 \in 1..Len(list)
      /\ \A i \in 1..Len(Tail(list)) : Tail(list)[i] = list[i + 1] /\ i + 1 \in 1..Len(list)
      /\ \A i, j \in 1..Len(Tail(list)) : Tail(list)[i] = Tail(list)[j] => i = j
      /\ Entries(Tail(list)) = Listed \ {h}
      /\ Len(Tail(list)) \in Nat
  BY <1>0, <1>1, <1>4, TailOf, LenProperties
<1>6. GroupTypeOK'
  <2>1. err' \in GroupError /\ Unset \in GroupError
    <3>1. err \in GroupError /\ h \in Functions /\ err' = With(err, h)
      BY <1>1, <1>2, <1>3 DEF GroupTypeOK
    <3>2. Unset \in GroupError
      BY DEF GroupError, Unset
    <3>. QED
      BY <1>1, <3>1, <3>2, WithAdds
  <2>. QED
    BY <1>1, <1>2, <1>5, <2>1 DEF GroupTypeOK
<1>7. MutexInv'
  BY <1>1, <1>2, <1>3 DEF GroupTypeOK, MutexInv
<1>8. TaskInv' /\ FinallyInv'
  BY <1>1, <1>2, <1>3 DEF TaskInv, FinallyInv
<1>9. ListInv'
  <2>1. ASSUME NEW f \in Finals
        PROVE  f \in registered' /\ By[f] \in Runners <=> outcome'[f] # "pending" \/ f \in Listed'
    <3>1. f \in registered /\ By[f] \in Runners <=> outcome[f] # "pending" \/ f \in Listed
      BY <1>1, <1>3 DEF ListInv
    <3>2. Listed' = Listed \ {h}
      BY <1>2, <1>5 DEF Listed
    <3>. QED
      BY <1>2, <1>4, <3>1, <3>2
  <2>2. ASSUME NEW i \in 1..Len(list')
        PROVE  outcome'[list'[i]] = "pending"
    <3>1. i + 1 \in 1..Len(list) /\ list'[i] = list[i + 1] /\ i + 1 > 1
      BY <1>2, <1>5
    <3>. QED
      BY <1>1, <1>2, <3>1 DEF ListInv
  <2>3. \A t \in Tasks : task'[t] \in {"idle", "done"}
    BY <1>1, <1>2, <1>3 DEF ListInv
  <2>. QED
    BY <1>2, <1>5, <2>1, <2>2, <2>3 DEF ListInv
<1>10. TellsInv'
  <2>1. ~Added(h) /\ Added(h)' /\ Failed(h)
    BY <1>0, <1>2, <1>4, <1>5 DEF Added, Failed
  <2>2. \A x \in Functions \ {h} : Added(x)' <=> Added(x)
    BY <1>0, <1>2 DEF Added
  <2>. QED
    BY <1>1, <1>2, <1>3, <1>5, <2>1, <2>2, TellsStored
<1>. QED
  BY <1>6, <1>7, <1>8, <1>9, <1>10 DEF GroupInv

(* Wait returns what it reads of g.err.                                    *)
LEMMA ReturnsInv ==
    ASSUME GroupInv, Returns
    PROVE  GroupInv'
<1>. USE Kinds
<1>1. GroupTypeOK /\ MutexInv /\ TaskInv /\ FinallyInv /\ ListInv /\ TellsInv
  BY DEF GroupInv
<1>2. /\ waiting = "finals" /\ list = << >> /\ waiting' = "returned" /\ result' = err
      /\ UNCHANGED <<task, outcome, mutex, err, read, finally, list, registered>>
  BY DEF Returns
<1>3. GroupTypeOK' /\ MutexInv' /\ TaskInv'
  BY <1>1, <1>2 DEF GroupTypeOK, MutexInv, TaskInv
<1>4. FinallyInv' /\ ListInv'
  <2>1. Len(list) = 0 /\ 1..Len(list) = {}
    BY <1>2
  <2>. QED
    BY <1>1, <1>2, <2>1 DEF FinallyInv, ListInv, Early, Listed
<1>5. TellsInv'
  <2>1. \A x \in Functions : Added(x)' <=> Added(x)
    BY <1>2 DEF Added
  <2>. QED
    BY <1>1, <1>2, <2>1, TellsKept
<1>. QED
  BY <1>3, <1>4, <1>5 DEF GroupInv

-----------------------------------------------------------------------------
(* The theorems.                                                           *)

(* The invariant holds of a new group, before Go or Finally is called.     *)
LEMMA GroupBegins == GroupInit => GroupInv
<1>. USE Kinds
<1>. SUFFICES ASSUME GroupInit PROVE GroupInv
  OBVIOUS
<1>1. Unset \in GroupError
  BY DEF Unset, GroupError
<1>2. GroupTypeOK
  BY <1>1 DEF GroupInit, GroupTypeOK
<1>3. MutexInv /\ TaskInv
  BY DEF GroupInit, MutexInv, TaskInv
<1>4. FinallyInv /\ ListInv
  <2>1. Len(<< >>) = 0 /\ 1..Len(<< >>) = {}
    OBVIOUS
  <2>. QED
    BY <2>1 DEF GroupInit, FinallyInv, ListInv, Early, Functions
<1>5. TellsInv
  <2>1. \A x \in Functions : ~Added(x)
    BY DEF GroupInit, Added
  <2>2. err.errors = << >> /\ ~err.set
    BY DEF GroupInit, Unset
  <2>. QED
    BY <2>1, <2>2, EmptyTimes DEF TellsInv, Told
<1>. QED
  BY <1>2, <1>3, <1>4, <1>5 DEF GroupInv

(* Group, Go, Add, Finally and Wait: what a goroutine has read under the   *)
(* mutex is still there when it stores, whoever ends meanwhile, and g.err  *)
(* says what those that are done have failed with.                         *)
THEOREM GroupInvariance == GroupSpec => []GroupInv
<1>1. ASSUME GroupInv, GroupNext
      PROVE  GroupInv'
  BY <1>1, GoInv, TaskLocksInv, TaskStoresInv, EndTaskInv, RegisterInv, EndFinalInv, WaitInv,
     TakeFinalsInv, OwnerLocksInv, OwnerStoresInv, ReturnsInv DEF GroupNext
<1>2. ASSUME GroupInv, UNCHANGED groupVars
      PROVE  GroupInv'
  <2>. USE <1>2 DEF groupVars
  <2>1. GroupTypeOK' /\ MutexInv' /\ TaskInv'
    BY DEF GroupInv, GroupTypeOK, MutexInv, TaskInv
  <2>2. FinallyInv'
    BY DEF GroupInv, FinallyInv, Early
  <2>3. ListInv'
    BY DEF GroupInv, ListInv, Early, Listed
  <2>4. TellsInv'
    <3>1. \A x \in Functions : Added(x)' <=> Added(x)
      BY DEF Added
    <3>. QED
      BY <3>1, TellsKept DEF GroupInv
  <2>. QED
    BY <2>1, <2>2, <2>3, <2>4 DEF GroupInv
<1>. QED
  BY <1>1, <1>2, GroupBegins, PTL DEF GroupSpec

(* Wait (WaitTellsAll): when it returns, all that was given to Go or       *)
(* registered in time has ended, and its error says each of their failures *)
(* and panics once, and is nil just if there was none.                     *)
THEOREM WaitCorrect == GroupSpec => []WaitTellsAll
<1>1. ASSUME GroupInv
      PROVE  WaitTellsAll
  <2>. SUFFICES ASSUME waiting = "returned"
                PROVE  /\ \A x \in Functions : (outcome[x] # "pending") = AnswersFor(x)
                       /\ result.set = (\E x \in Functions : outcome[x] \notin {"pending", "nil"})
                       /\ \A x \in Functions, k \in 1..2 :
                             Times(result.errors, <<x, k>>)
                                = Times(Errors(x, outcome[x]), <<x, k>>)
    BY DEF WaitTellsAll
  <2>1. GroupTypeOK /\ TaskInv /\ ListInv /\ TellsInv
    BY <1>1 DEF GroupInv
  <2>2. result = err /\ list = << >> /\ ~Early /\ Listed = {}
    <3>1. result = err /\ list = << >> /\ ~Early
      BY <2>1 DEF ListInv, Early
    <3>2. Len(list) = 0 /\ 1..Len(list) = {}
      BY <3>1
    <3>. QED
      BY <3>1, <3>2 DEF Listed, Entries
  <2>3. ASSUME NEW x \in Functions
        PROVE  (outcome[x] # "pending") = AnswersFor(x) /\ (Added(x) <=> outcome[x] # "pending")
    <3>1. CASE x \in Tasks
      BY <2>1, <2>2, <3>1 DEF TaskInv, ListInv, AnswersFor, Added
    <3>2. CASE x \in Finals
      <4>1. x \notin Tasks
        BY <3>2, Kinds
      <4>. QED
        BY <2>1, <2>2, <3>2, <4>1 DEF ListInv, AnswersFor, Added
    <3>. QED
      BY <3>1, <3>2 DEF Functions
  <2>4. ASSUME NEW x \in Functions, NEW k \in 1..2
        PROVE  Times(err.errors, <<x, k>>) = Times(Errors(x, outcome[x]), <<x, k>>)
    <3>1. Times(err.errors, <<x, k>>) =
             IF Added(x) THEN Times(Errors(x, outcome[x]), <<x, k>>) ELSE 0
      BY <2>1 DEF TellsInv, Told
    <3>2. outcome[x] = "pending" => Times(Errors(x, outcome[x]), <<x, k>>) = 0
      BY ErrorsType, EmptyTimes
    <3>. QED
      BY <2>3, <3>1, <3>2
  <2>5. err.set = (\E x \in Functions : outcome[x] \notin {"pending", "nil"})
    <3>1. err.set \in BOOLEAN
      BY <2>1 DEF GroupTypeOK, GroupError
    <3>. QED
      BY <2>1, <2>3, <3>1 DEF TellsInv, Failed
  <2>. QED
    BY <2>2, <2>3, <2>4, <2>5
<1>. QED
  BY <1>1, GroupInvariance, PTL
=============================================================================
