----------------------------- MODULE PoolsProofs -----------------------------
(***************************************************************************)
(* Callers do not meet in a pooled object, for every number of callers, of *)
(* objects and of ids in a batch.  An object that is borrowed lies in no   *)
(* pool (Borrowed); so what its borrower has put into it is still there    *)
(* when it is read (Hashing), and what is left of a batch is nobody's yet  *)
(* (Drawing).                                                              *)
(***************************************************************************)
EXTENDS Pools, TLAPS

HashPhases == {"reset", "write", "sum", "encode", "putHolder"}
IdPhases   == {"refill", "take", "count", "putBuffer"}

PoolsTypeOK ==
    /\ alive  \subseteq Objects
    /\ pooled \subseteq alive
    /\ mac    \in [Holders -> Seq(Nat)]
    /\ buf    \in [Holders -> Seq(Nat)]
    /\ batch  \in [Buffers -> Seq(Nat)]
    /\ idx    \in [Buffers -> 0..BatchSize]
    /\ phase  \in [Callers -> Phases]
    /\ item   \in [Callers -> Objects \cup {NoObject}]
    /\ raw    \in [Callers -> Nat]
    /\ id     \in [Callers -> Nat]
    /\ hashes \in [Callers -> Seq(Nat \X Seq(Nat))]
    /\ ids    \in [Callers -> Seq(Nat)]
    /\ drawn  \in Nat

(* A caller at work on an object has it for itself.                        *)
Borrowed ==
    /\ \A c \in Callers :
          /\ phase[c] \in HashPhases => item[c] \in Holders
          /\ phase[c] \in IdPhases => item[c] \in Buffers
          /\ phase[c] \in HashPhases \cup IdPhases => item[c] \in alive \ pooled
          /\ phase[c] \in {"idle", "fallback"} => item[c] = NoObject
    /\ \A c, d \in Callers : item[c] = item[d] /\ item[c] # NoObject => c = d

Hashing ==
    /\ \A c \in Callers :
          /\ phase[c] = "write"  => mac[item[c]] = <<>>
          /\ phase[c] = "sum"    => mac[item[c]] = <<raw[c]>>
          /\ phase[c] = "encode" => buf[item[c]] = <<raw[c]>>
    /\ \A c \in Callers : \A k \in 1..Len(hashes[c]) :
          hashes[c][k][2] = <<hashes[c][k][1]>>

(* The ids are in three places: fresh in a batch, held by a caller that is *)
(* about to return, and given.                                             *)
Fresh(b) == (idx[b] + 1)..BatchSize
Held     == {c \in Callers : phase[c] = "putBuffer"}
Given(c) == 1..Len(ids[c])

Taking ==
    \A c \in Callers :
        /\ phase[c] \in {"take", "count"} => idx[item[c]] < BatchSize
        /\ phase[c] = "count" => id[c] = batch[item[c]][idx[item[c]] + 1]

FreshOnce ==
    /\ \A b \in Buffers : \A k \in Fresh(b) : batch[b][k] \in 1..drawn
    /\ \A b, e \in Buffers : \A k \in Fresh(b), m \in Fresh(e) :
          batch[b][k] = batch[e][m] => b = e /\ k = m

HeldOnce ==
    /\ \A c \in Held : id[c] \in 1..drawn
    /\ \A c, d \in Held : id[c] = id[d] => c = d
    /\ \A c \in Held, b \in Buffers : \A k \in Fresh(b) : batch[b][k] # id[c]

GivenOnce ==
    /\ \A c \in Callers : \A k \in Given(c) : ids[c][k] \in 1..drawn
    /\ \A c, d \in Callers : \A k \in Given(c), m \in Given(d) :
          ids[c][k] = ids[d][m] => c = d /\ k = m
    /\ \A c \in Callers, b \in Buffers : \A k \in Given(c), m \in Fresh(b) :
          ids[c][k] # batch[b][m]
    /\ \A c \in Callers, d \in Held : \A k \in Given(c) : ids[c][k] # id[d]

Drawing == Taking /\ FreshOnce /\ HeldOnce /\ GivenOnce

IInv == PoolsTypeOK /\ Borrowed /\ Hashing /\ Drawing

idVars == <<batch, idx, id, ids, drawn>>

-----------------------------------------------------------------------------
(* What sync.Pool gives away was in nobody's hands.                        *)
LEMMA GetGives ==
    ASSUME NEW c \in Callers, NEW S \in {Holders, Buffers},
           IInv, phase[c] = "idle", Get(c, S)
    PROVE  /\ item' = [item EXCEPT ![c] = item'[c]]
           /\ item'[c] \in S
           /\ item'[c] \in alive' \ pooled'
           /\ alive' \subseteq Objects /\ pooled' \subseteq alive'
           /\ \A d \in Callers : /\ item[d] # item'[c]
                                 /\ item[d] \in alive \ pooled => item[d] \in alive' \ pooled'
<1>1. PICK x \in (pooled \cap S) \cup New(S) :
          /\ alive'  = alive \cup {x}
          /\ pooled' = pooled \ {x}
          /\ item'   = [item EXCEPT ![c] = x]
  BY DEF Get
<1>2. x \in S /\ (x \in pooled \/ x \notin alive)
  BY <1>1 DEF New
<1>3. x \in Objects /\ x # NoObject
  BY <1>2, ObjectsAssumption DEF Objects
<1>4. item'[c] = x
  BY <1>1 DEF IInv, PoolsTypeOK
<1>5. \A d \in Callers : item[d] # x
  <2>. SUFFICES ASSUME NEW d \in Callers, item[d] = x PROVE FALSE
    OBVIOUS
  <2>1. phase[d] \in HashPhases \cup IdPhases \cup {"idle", "fallback"}
    BY DEF IInv, PoolsTypeOK, Phases, HashPhases, IdPhases
  <2>. QED
    BY <1>2, <1>3, <2>1 DEF IInv, Borrowed
<1>. QED
  BY <1>1, <1>2, <1>3, <1>4, <1>5 DEF IInv, PoolsTypeOK

(* A step of a hash leaves the ids alone.                                  *)
LEMMA DrawingKept ==
    ASSUME NEW c \in Callers, IInv, UNCHANGED <<batch, idx, id, ids>>,
           drawn' \in Nat, drawn' >= drawn,
           phase' = [phase EXCEPT ![c] = phase'[c]],
           phase'[c] \notin {"take", "count", "putBuffer"},
           \A d \in Callers : d # c => item'[d] = item[d]
    PROVE  Drawing'
<1>. USE DEF IInv, PoolsTypeOK
<1>1. \A d \in Callers : d # c => phase'[d] = phase[d]
  OBVIOUS
<1>2. Held' \subseteq Held
  BY <1>1 DEF Held
<1>3. \A b \in Buffers : Fresh(b)' = Fresh(b)
  BY DEF Fresh
<1>4. \A d \in Callers : Given(d)' = Given(d)
  BY DEF Given
<1>5. Taking'
  BY <1>1 DEF Drawing, Taking
<1>6. FreshOnce'
  BY <1>3 DEF Drawing, FreshOnce
<1>7. HeldOnce'
  BY <1>2, <1>3 DEF Drawing, HeldOnce, Held
<1>8. GivenOnce'
  BY <1>2, <1>3, <1>4 DEF Drawing, GivenOnce
<1>. QED
  BY <1>5, <1>6, <1>7, <1>8 DEF Drawing

-----------------------------------------------------------------------------
(* A hash.                                                                 *)
LEMMA HashKeeps ==
    ASSUME NEW c \in Callers, NEW text \in Nat, IInv, Hash(c, text),
           drawn' \in Nat, drawn' >= drawn
    PROVE  IInv'
<1>. USE DEF Hash, At, Then
<1>1. /\ item' = [item EXCEPT ![c] = item'[c]]
      /\ item'[c] \in Holders
      /\ item'[c] \in alive' \ pooled'
      /\ alive' \subseteq Objects /\ pooled' \subseteq alive'
      /\ \A d \in Callers : /\ item[d] # item'[c]
                            /\ item[d] \in alive \ pooled => item[d] \in alive' \ pooled'
  BY GetGives
<1>2. UNCHANGED <<mac, buf, batch, idx, id, hashes, ids>>
  BY DEF returned
<1>3. PoolsTypeOK'
  BY <1>1, <1>2 DEF IInv, PoolsTypeOK, Phases, Objects
<1>4. /\ phase'[c] = "reset"
      /\ \A d \in Callers : d # c => phase'[d] = phase[d] /\ item'[d] = item[d] /\ raw'[d] = raw[d]
  BY <1>1 DEF IInv, PoolsTypeOK
<1>5. Borrowed'
  BY <1>1, <1>4 DEF IInv, Borrowed, HashPhases, IdPhases
<1>6. Hashing'
  <2>1. \A d \in Callers : phase'[d] \in {"write", "sum", "encode"} =>
           phase'[d] = phase[d] /\ item'[d] = item[d] /\ raw'[d] = raw[d]
    BY <1>4
  <2>2. Hashing /\ UNCHANGED <<mac, buf, hashes>>
    BY <1>2 DEF IInv
  <2>. HIDE DEF Hash, At, Then
  <2>. QED
    BY <2>1, <2>2 DEF Hashing
<1>7. Drawing'
  BY <1>2, <1>4, DrawingKept
<1>. QED
  BY <1>3, <1>5, <1>6, <1>7 DEF IInv

(* Between Get and Put a hash touches no holder but the borrowed one.      *)
LEMMA HashStepKeeps ==
    ASSUME NEW c \in Callers, IInv,
           Reset(c) \/ WriteText(c) \/ Sum(c) \/ Encode(c)
    PROVE  IInv'
<1>. USE DEF At, Then, heap, returned
<1>1. /\ UNCHANGED <<alive, pooled, batch, idx, item, raw, id, ids, drawn>>
      /\ \A d \in Callers : d # c => phase'[d] = phase[d]
      /\ phase' = [phase EXCEPT ![c] = phase'[c]]
      /\ phase[c] \in HashPhases /\ phase'[c] \in HashPhases
  BY DEF IInv, PoolsTypeOK, Reset, WriteText, Sum, Encode, HashPhases
<1>2. item[c] \in Holders /\ \A d \in Callers : d # c => item[d] # item[c]
  BY <1>1, ObjectsAssumption DEF IInv, Borrowed
<1>3. PoolsTypeOK'
  <2>1. phase' \in [Callers -> Phases]
    BY <1>1 DEF IInv, PoolsTypeOK, Phases, HashPhases
  <2>2. mac' \in [Holders -> Seq(Nat)] /\ buf' \in [Holders -> Seq(Nat)]
    <3>1. /\ mac \in [Holders -> Seq(Nat)] /\ buf \in [Holders -> Seq(Nat)]
          /\ raw[c] \in Nat
      BY DEF IInv, PoolsTypeOK
    <3>2. CASE WriteText(c)
      <4>1. Append(mac[item[c]], raw[c]) \in Seq(Nat)
        BY <1>2, <3>1
      <4>. QED
        BY <3>1, <3>2, <4>1 DEF WriteText
    <3>3. CASE Reset(c)
      <4>1. <<>> \in Seq(Nat)
        OBVIOUS
      <4>. QED
        BY <3>1, <3>3, <4>1 DEF Reset
    <3>4. CASE Sum(c)
      BY <1>2, <3>1, <3>4 DEF Sum
    <3>5. CASE Encode(c)
      BY <3>1, <3>5 DEF Encode
    <3>. QED
      BY <3>2, <3>3, <3>4, <3>5
  <2>3. hashes' \in [Callers -> Seq(Nat \X Seq(Nat))]
    <3>1. CASE Encode(c)
      <4>1. <<raw[c], buf[item[c]]>> \in Nat \X Seq(Nat)
        BY <1>2 DEF IInv, PoolsTypeOK
      <4>. QED
        BY <3>1, <4>1 DEF IInv, PoolsTypeOK, Encode
    <3>2. CASE UNCHANGED hashes
      BY <3>2 DEF IInv, PoolsTypeOK
    <3>. QED
      BY <3>1, <3>2 DEF Reset, WriteText, Sum, Encode
  <2>. QED
    BY <1>1, <2>1, <2>2, <2>3 DEF IInv, PoolsTypeOK
<1>4. Borrowed'
  BY <1>1 DEF IInv, Borrowed, HashPhases, IdPhases
<1>5. Hashing'
  <2>1. \A d \in Callers : d # c =>
           /\ phase'[d] = "write"  => mac'[item'[d]] = <<>>
           /\ phase'[d] = "sum"    => mac'[item'[d]] = <<raw'[d]>>
           /\ phase'[d] = "encode" => buf'[item'[d]] = <<raw'[d]>>
    <3>1. ASSUME NEW d \in Callers, d # c, phase[d] \in HashPhases
          PROVE  mac'[item[d]] = mac[item[d]] /\ buf'[item[d]] = buf[item[d]]
      <4>1. item[d] \in Holders /\ item[d] # item[c]
        BY <1>2, <3>1 DEF IInv, Borrowed
      <4>. QED
        BY <1>2, <4>1 DEF IInv, PoolsTypeOK, Reset, WriteText, Sum, Encode
    <3>2. Hashing /\ UNCHANGED <<item, raw>>
      BY <1>1 DEF IInv
    <3>3. \A d \in Callers : d # c => phase'[d] = phase[d]
      BY <1>1
    <3>. QED
      BY <3>1, <3>2, <3>3 DEF Hashing, HashPhases
  <2>2. /\ phase'[c] = "write"  => mac'[item'[c]] = <<>>
        /\ phase'[c] = "sum"    => mac'[item'[c]] = <<raw'[c]>>
        /\ phase'[c] = "encode" => buf'[item'[c]] = <<raw'[c]>>
    <3>1. CASE Reset(c)
      BY <1>1, <1>2, <3>1 DEF IInv, PoolsTypeOK, Reset
    <3>2. CASE WriteText(c)
      <4>1. mac[item[c]] = <<>> /\ raw[c] \in Nat
        BY <3>2 DEF IInv, PoolsTypeOK, Hashing, WriteText
      <4>2. Append(<<>>, raw[c]) = <<raw[c]>>
        BY <4>1
      <4>3. phase'[c] = "sum" /\ mac'[item[c]] = Append(mac[item[c]], raw[c])
        BY <1>2, <3>2 DEF IInv, PoolsTypeOK, WriteText
      <4>. QED
        BY <1>1, <4>1, <4>2, <4>3
    <3>3. CASE Sum(c)
      BY <1>1, <1>2, <3>3 DEF IInv, PoolsTypeOK, Hashing, Sum
    <3>4. CASE Encode(c)
      BY <3>4 DEF IInv, PoolsTypeOK, Encode
    <3>. QED
      BY <3>1, <3>2, <3>3, <3>4
  <2>3. \A d \in Callers : \A k \in 1..Len(hashes'[d]) :
           hashes'[d][k][2] = <<hashes'[d][k][1]>>
    <3>1. CASE Encode(c)
      <4>. DEFINE new == <<raw[c], buf[item[c]]>>
      <4>1. new \in Nat \X Seq(Nat) /\ buf[item[c]] = <<raw[c]>>
        BY <1>2, <3>1 DEF IInv, PoolsTypeOK, Hashing, Encode
      <4>2. new[2] = <<new[1]>>
        BY <4>1
      <4>3. /\ hashes'[c] = Append(hashes[c], new)
            /\ \A d \in Callers : d # c => hashes'[d] = hashes[d]
        BY <3>1 DEF IInv, PoolsTypeOK, Encode
      <4>4. \A d \in Callers : hashes[d] \in Seq(Nat \X Seq(Nat))
        BY DEF IInv, PoolsTypeOK
      <4>. HIDE DEF new
      <4>5. \A k \in 1..Len(hashes'[c]) :
               \/ k \in 1..Len(hashes[c]) /\ hashes'[c][k] = hashes[c][k]
               \/ hashes'[c][k] = new
        BY <4>1, <4>3, <4>4
      <4>6. \A d \in Callers : \A k \in 1..Len(hashes[d]) : hashes[d][k][2] = <<hashes[d][k][1]>>
        BY DEF IInv, Hashing
      <4>. QED
        BY <4>2, <4>3, <4>5, <4>6
    <3>2. CASE UNCHANGED hashes
      BY <3>2 DEF IInv, Hashing
    <3>. QED
      BY <3>1, <3>2 DEF Reset, WriteText, Sum, Encode
  <2>. QED
    BY <2>1, <2>2, <2>3 DEF Hashing
<1>6. Drawing'
  <2>1. phase'[c] \notin {"take", "count", "putBuffer"} /\ drawn' \in Nat /\ drawn' >= drawn
    BY <1>1 DEF HashPhases, IInv, PoolsTypeOK
  <2>. QED
    BY <1>1, <2>1, DrawingKept
<1>. QED
  BY <1>3, <1>4, <1>5, <1>6 DEF IInv

(* Whoever returns, or gives up its buffer, disturbs no one.               *)
LEMMA HandBack ==
    ASSUME NEW c \in Callers, IInv, UNCHANGED <<alive, mac, buf, hashes>>,
           \/ pooled' = pooled
           \/ phase[c] \in HashPhases \cup IdPhases /\ pooled' = pooled \cup {item[c]},
           item' = [item EXCEPT ![c] = NoObject],
           phase' = [phase EXCEPT ![c] = phase'[c]],
           phase'[c] \in {"idle", "fallback"},
           \A d \in Callers : d # c => raw'[d] = raw[d]
    PROVE  /\ Borrowed' /\ Hashing'
           /\ pooled' \subseteq alive' /\ alive' \subseteq Objects
           /\ phase' \in [Callers -> Phases]
           /\ item' \in [Callers -> Objects \cup {NoObject}]
<1>1. \A d \in Callers : d # c => phase'[d] = phase[d] /\ item'[d] = item[d]
  BY DEF IInv, PoolsTypeOK
<1>2. item'[c] = NoObject
  BY DEF IInv, PoolsTypeOK
<1>3. Borrowed'
  <2>1. ASSUME NEW d \in Callers, d # c, item[d] \in alive \ pooled
        PROVE  item[d] \in alive' \ pooled'
    <3>1. item[d] # NoObject
      BY <2>1, ObjectsAssumption DEF IInv, PoolsTypeOK, Objects
    <3>. QED
      BY <2>1, <3>1 DEF IInv, Borrowed
  <2>. QED
    BY <1>1, <1>2, <2>1 DEF IInv, Borrowed, HashPhases, IdPhases
<1>4. Hashing'
  <2>1. \A d \in Callers : phase'[d] \in {"write", "sum", "encode"} =>
           phase'[d] = phase[d] /\ item'[d] = item[d] /\ raw'[d] = raw[d]
    BY <1>1
  <2>2. Hashing
    BY DEF IInv
  <2>. QED
    BY <2>1, <2>2 DEF Hashing
<1>5. pooled' \subseteq alive' /\ alive' \subseteq Objects
  BY DEF IInv, PoolsTypeOK, Borrowed
<1>6. phase' \in [Callers -> Phases]
  BY DEF IInv, PoolsTypeOK, Phases
<1>7. item' \in [Callers -> Objects \cup {NoObject}]
  BY DEF IInv, PoolsTypeOK
<1>. QED
  BY <1>3, <1>4, <1>5, <1>6, <1>7

(* A holder goes back when its hash is read (defer in generateHashBase32). *)
LEMMA PutHolderKeeps ==
    ASSUME NEW c \in Callers, IInv, PutHolder(c)
    PROVE  IInv'
<1>. USE DEF PutHolder, Put, Return, At, returned
<1>1. phase[c] \in HashPhases /\ phase'[c] = "idle"
  BY DEF HashPhases, IInv, PoolsTypeOK
<1>2. /\ Borrowed' /\ Hashing'
      /\ pooled' \subseteq alive' /\ alive' \subseteq Objects
      /\ phase' \in [Callers -> Phases]
      /\ item' \in [Callers -> Objects \cup {NoObject}]
  <2>1. \A d \in Callers : d # c => raw'[d] = raw[d]
    BY DEF IInv, PoolsTypeOK
  <2>. QED
    BY <1>1, <2>1, HandBack
<1>3. PoolsTypeOK'
  BY <1>2 DEF IInv, PoolsTypeOK
<1>4. Drawing'
  <2>1. Held' = Held
    BY DEF Held, IInv, PoolsTypeOK
  <2>2. \A d \in Held : id'[d] = id[d]
    BY DEF Held, IInv, PoolsTypeOK
  <2>3. \A d \in Callers : d # c => phase'[d] = phase[d] /\ item'[d] = item[d] /\ id'[d] = id[d]
    BY DEF IInv, PoolsTypeOK
  <2>4. \A b \in Buffers : Fresh(b)' = Fresh(b)
    BY DEF Fresh
  <2>5. \A d \in Callers : Given(d)' = Given(d)
    BY DEF Given
  <2>6. Taking'
    BY <1>1, <2>3 DEF IInv, Drawing, Taking
  <2>7. FreshOnce'
    BY <2>4 DEF IInv, Drawing, FreshOnce
  <2>8. HeldOnce'
    BY <2>1, <2>2, <2>4 DEF IInv, Drawing, HeldOnce
  <2>9. GivenOnce'
    BY <2>1, <2>2, <2>4, <2>5 DEF IInv, Drawing, GivenOnce
  <2>. QED
    BY <2>6, <2>7, <2>8, <2>9 DEF Drawing
<1>. QED
  BY <1>2, <1>3, <1>4 DEF IInv

(* What is collected is in nobody's hands, and is as good as new.          *)
LEMMA CollectKeeps ==
    ASSUME NEW x \in Objects, IInv, Collect(x)
    PROVE  IInv'
<1>. USE DEF Collect, frame, returned
<1>1. \A c \in Callers : phase[c] \in HashPhases \cup IdPhases => item[c] # x
  BY DEF IInv, Borrowed
<1>2. PoolsTypeOK'
  <2>1. <<>> \in Seq(Nat) /\ BatchSize \in 0..BatchSize
    BY BatchAssumption
  <2>. QED
    BY <2>1 DEF IInv, PoolsTypeOK
<1>3. Borrowed'
  BY <1>1 DEF IInv, Borrowed
<1>4. Hashing'
  <2>1. ASSUME NEW c \in Callers, phase[c] \in HashPhases
        PROVE  mac'[item[c]] = mac[item[c]] /\ buf'[item[c]] = buf[item[c]]
    BY <1>1, <2>1 DEF IInv, Borrowed
  <2>. QED
    BY <2>1 DEF IInv, Hashing, HashPhases
<1>5. Drawing'
  <2>1. \A b \in Buffers :
           \/ b = x /\ Fresh(b)' = {}
           \/ b # x /\ Fresh(b)' = Fresh(b) /\ batch'[b] = batch[b] /\ idx'[b] = idx[b]
    BY BatchAssumption DEF Fresh
  <2>2. Held' = Held
    BY DEF Held
  <2>3. \A d \in Callers : Given(d)' = Given(d)
    BY DEF Given
  <2>4. Taking'
    <3>1. ASSUME NEW c \in Callers, phase[c] \in {"take", "count"}
          PROVE  idx'[item[c]] = idx[item[c]] /\ batch'[item[c]] = batch[item[c]]
      BY <1>1, <3>1 DEF IInv, Borrowed, IdPhases
    <3>. QED
      BY <3>1 DEF IInv, Drawing, Taking
  <2>5. FreshOnce'
    BY <2>1 DEF IInv, Drawing, FreshOnce
  <2>6. HeldOnce'
    BY <2>1, <2>2 DEF IInv, Drawing, HeldOnce
  <2>7. GivenOnce'
    BY <2>1, <2>2, <2>3 DEF IInv, Drawing, GivenOnce
  <2>. QED
    BY <2>4, <2>5, <2>6, <2>7 DEF Drawing
<1>. QED
  BY <1>2, <1>3, <1>4, <1>5 DEF IInv

-----------------------------------------------------------------------------
(* An id.                                                                  *)
LEMMA NewIDKeeps ==
    ASSUME NEW c \in Callers, IInv, NewID(c)
    PROVE  IInv'
<1>1. /\ item' = [item EXCEPT ![c] = item'[c]]
      /\ item'[c] \in Buffers
      /\ item'[c] \in alive' \ pooled'
      /\ alive' \subseteq Objects /\ pooled' \subseteq alive'
      /\ \A d \in Callers : /\ item[d] # item'[c]
                            /\ item[d] \in alive \ pooled => item[d] \in alive' \ pooled'
  BY GetGives DEF NewID, At
<1>2. UNCHANGED <<mac, buf, batch, idx, raw, id, hashes, ids, drawn>>
  BY DEF NewID, returned
<1>3. /\ \/ phase'[c] = "refill"
         \/ phase'[c] = "take" /\ idx[item'[c]] < BatchSize
      /\ \A d \in Callers : d # c => phase'[d] = phase[d] /\ item'[d] = item[d]
  <2>1. idx[item'[c]] \in Nat /\ BatchSize \in Nat
    BY <1>1, BatchAssumption DEF IInv, PoolsTypeOK
  <2>. QED
    BY <1>1, <2>1 DEF IInv, PoolsTypeOK, NewID, Then
<1>4. PoolsTypeOK'
  <2>1. phase' \in [Callers -> Phases]
    BY DEF IInv, PoolsTypeOK, Phases, NewID, Then
  <2>2. item' \in [Callers -> Objects \cup {NoObject}]
    BY <1>1 DEF IInv, PoolsTypeOK, Objects
  <2>. QED
    BY <1>1, <1>2, <2>1, <2>2 DEF IInv, PoolsTypeOK
<1>5. Borrowed'
  BY <1>1, <1>3 DEF IInv, Borrowed, HashPhases, IdPhases
<1>6. Hashing'
  <2>1. \A d \in Callers : phase'[d] \in {"write", "sum", "encode"} =>
           phase'[d] = phase[d] /\ item'[d] = item[d]
    BY <1>3
  <2>2. UNCHANGED <<mac, buf, raw, hashes>>
    BY <1>2
  <2>. QED
    BY <2>1, <2>2 DEF IInv, Hashing
<1>7. Drawing'
  <2>1. Held' = Held
    BY <1>3 DEF Held, NewID, At
  <2>2. \A b \in Buffers : Fresh(b)' = Fresh(b)
    BY <1>2 DEF Fresh
  <2>3. \A d \in Callers : Given(d)' = Given(d)
    BY <1>2 DEF Given
  <2>4. Taking'
    BY <1>2, <1>3 DEF IInv, Drawing, Taking
  <2>5. FreshOnce' /\ HeldOnce' /\ GivenOnce'
    BY <1>2, <2>1, <2>2, <2>3 DEF IInv, Drawing, FreshOnce, HeldOnce, GivenOnce
  <2>. QED
    BY <2>4, <2>5 DEF Drawing
<1>. QED
  BY <1>4, <1>5, <1>6, <1>7 DEF IInv

(* A batch is refilled with ids that were never drawn before.              *)
LEMMA RefillKeeps ==
    ASSUME NEW c \in Callers, IInv, Refill(c)
    PROVE  IInv'
<1>. DEFINE new == [k \in 1..BatchSize |-> drawn + k]
<1>1. PICK b0 \in Buffers : b0 = item[c] /\ phase[c] = "refill"
  BY DEF IInv, Borrowed, IdPhases, Refill, At
<1>2. /\ phase' = [phase EXCEPT ![c] = "take"]
      /\ batch' = [batch EXCEPT ![b0] = new]
      /\ idx'   = [idx EXCEPT ![b0] = 0]
      /\ drawn' = drawn + BatchSize
      /\ UNCHANGED <<alive, pooled, mac, buf, item, raw, id, hashes, ids>>
  BY <1>1 DEF Refill, Then, returned
<1>3. BatchSize \in Nat /\ BatchSize > 0 /\ drawn \in Nat /\ drawn' \in Nat
  BY <1>2, BatchAssumption DEF IInv, PoolsTypeOK
<1>4. /\ phase'[c] = "take"
      /\ \A d \in Callers : d # c => /\ phase'[d] = phase[d]
                                     /\ phase[d] \in IdPhases => item[d] # b0
  <2>1. b0 # NoObject
    BY ObjectsAssumption
  <2>. QED
    BY <1>1, <1>2, <2>1 DEF IInv, PoolsTypeOK, Borrowed
<1>5. /\ batch'[b0] = new /\ idx'[b0] = 0
      /\ \A b \in Buffers : b # b0 => batch'[b] = batch[b] /\ idx'[b] = idx[b]
  BY <1>2 DEF IInv, PoolsTypeOK
<1>6. PoolsTypeOK'
  <2>1. new \in Seq(Nat)
    BY <1>3
  <2>. HIDE DEF new
  <2>2. batch' \in [Buffers -> Seq(Nat)]
    BY <1>2, <2>1 DEF IInv, PoolsTypeOK
  <2>3. idx' \in [Buffers -> 0..BatchSize]
    BY <1>2, <1>3 DEF IInv, PoolsTypeOK
  <2>4. phase' \in [Callers -> Phases]
    BY <1>2 DEF IInv, PoolsTypeOK, Phases
  <2>. QED
    BY <1>2, <1>3, <2>2, <2>3, <2>4 DEF IInv, PoolsTypeOK
<1>7. Borrowed'
  BY <1>1, <1>2, <1>4 DEF IInv, Borrowed, HashPhases, IdPhases
<1>8. Hashing'
  BY <1>2, <1>4 DEF IInv, Hashing
<1>9. Drawing'
  <2>1. Held' = Held /\ UNCHANGED <<id, ids>>
    BY <1>1, <1>2, <1>4 DEF Held
  <2>2. ASSUME NEW k \in Fresh(b0)'
        PROVE  batch'[b0][k] = drawn + k /\ k \in 1..BatchSize
    BY <1>3, <1>5, <2>2 DEF Fresh
  <2>. HIDE DEF new
  <2>3. ASSUME NEW b \in Buffers, NEW k \in Fresh(b)'
        PROVE  \/ b = b0 /\ batch'[b][k] = drawn + k /\ k \in 1..BatchSize
               \/ b # b0 /\ k \in Fresh(b) /\ batch'[b][k] = batch[b][k]
    <3>1. CASE b = b0
      BY <2>2, <3>1
    <3>2. CASE b # b0
      BY <1>5, <3>2 DEF Fresh
    <3>. QED
      BY <3>1, <3>2
  <2>4. /\ \A b \in Buffers : \A k \in Fresh(b) : batch[b][k] \in 1..drawn
        /\ \A d \in Held : id[d] \in 1..drawn
        /\ \A d \in Callers : \A k \in Given(d) : ids[d][k] \in 1..drawn
    BY DEF IInv, Drawing, FreshOnce, HeldOnce, GivenOnce, Given, Fresh
  <2>5. Taking'
    <3>. SUFFICES ASSUME NEW d \in Callers, phase'[d] \in {"take", "count"}
                  PROVE  /\ idx'[item[d]] < BatchSize
                         /\ phase'[d] = "count" => id[d] = batch'[item[d]][idx'[item[d]] + 1]
      BY <1>2 DEF Taking
    <3>1. CASE d = c
      BY <1>1, <1>3, <1>4, <1>5, <3>1
    <3>2. CASE d # c
      <4>1. item[d] \in Buffers /\ item[d] # b0 /\ phase'[d] = phase[d]
        BY <1>4, <3>2 DEF IInv, Borrowed, IdPhases
      <4>. QED
        BY <1>5, <4>1 DEF IInv, Drawing, Taking
    <3>. QED
      BY <3>1, <3>2
  <2>6. FreshOnce'
    <3>1. ASSUME NEW b \in Buffers, NEW k \in Fresh(b)'
          PROVE  batch'[b][k] \in 1..drawn'
      <4>1. CASE b = b0
        <5>1. batch'[b][k] = drawn + k /\ k \in 1..BatchSize
          BY <2>3, <4>1
        <5>. QED
          BY <1>2, <1>3, <5>1
      <4>2. CASE b # b0
        <5>1. k \in Fresh(b) /\ batch'[b][k] = batch[b][k]
          BY <2>3, <4>2
        <5>2. batch[b][k] \in 1..drawn
          BY <2>4, <5>1
        <5>. QED
          BY <1>2, <1>3, <5>1, <5>2
      <4>. QED
        BY <4>1, <4>2
    <3>2. ASSUME NEW b \in Buffers, NEW e \in Buffers,
                 NEW k \in Fresh(b)', NEW m \in Fresh(e)',
                 batch'[b][k] = batch'[e][m]
          PROVE  b = e /\ k = m
      <4>1. CASE b = b0
        <5>1. batch'[b][k] = drawn + k /\ k \in 1..BatchSize
          BY <2>3, <4>1
        <5>2. e = b0 /\ batch'[e][m] = drawn + m /\ m \in 1..BatchSize
          <6>1. batch'[e][m] \notin 1..drawn
            BY <1>3, <3>2, <5>1
          <6>. QED
            BY <2>3, <2>4, <6>1
        <5>. QED
          BY <1>3, <3>2, <4>1, <5>1, <5>2
      <4>2. CASE b # b0
        <5>1. k \in Fresh(b) /\ batch'[b][k] = batch[b][k] /\ batch[b][k] \in 1..drawn
          BY <2>3, <2>4, <4>2
        <5>2. e # b0 /\ m \in Fresh(e) /\ batch'[e][m] = batch[e][m]
          <6>1. \A n \in 1..BatchSize : batch'[e][m] # drawn + n
            BY <1>3, <3>2, <5>1
          <6>. QED
            BY <2>3, <6>1
        <5>3. batch[b][k] = batch[e][m]
          BY <3>2, <5>1, <5>2
        <5>4. FreshOnce
          BY DEF IInv, Drawing
        <5>. QED
          BY <5>1, <5>2, <5>3, <5>4 DEF FreshOnce, Fresh
      <4>. QED
        BY <4>1, <4>2
    <3>. QED
      BY <3>1, <3>2 DEF FreshOnce, Fresh
  <2>7. ASSUME NEW x \in 1..drawn, NEW b \in Buffers, NEW k \in Fresh(b)',
               k \in Fresh(b) => batch[b][k] # x
        PROVE  batch'[b][k] # x
    <3>1. \A n \in 1..BatchSize : drawn + n # x
      BY <1>3
    <3>. QED
      BY <2>3, <2>7, <3>1
  <2>8. HeldOnce'
    <3>1. ASSUME NEW d \in Held, NEW b \in Buffers, NEW k \in Fresh(b)'
          PROVE  batch'[b][k] # id[d]
      <4>1. k \in Fresh(b) => batch[b][k] # id[d]
        BY DEF IInv, Drawing, HeldOnce, Fresh
      <4>. QED
        BY <2>4, <2>7, <4>1
    <3>2. \A d \in Held : id[d] \in 1..drawn'
      BY <1>2, <1>3, <2>4
    <3>. QED
      BY <2>1, <3>1, <3>2 DEF IInv, Drawing, HeldOnce, Fresh
  <2>9. GivenOnce'
    <3>1. ASSUME NEW d \in Callers, NEW m \in Given(d), NEW b \in Buffers, NEW k \in Fresh(b)'
          PROVE  ids[d][m] # batch'[b][k]
      <4>1. k \in Fresh(b) => ids[d][m] # batch[b][k]
        BY DEF IInv, Drawing, GivenOnce, Fresh, Given
      <4>2. ids[d][m] \in 1..drawn
        BY <2>4
      <4>. QED
        BY <2>7, <4>1, <4>2
    <3>2. \A d \in Callers : \A k \in Given(d) : ids[d][k] \in 1..drawn'
      BY <1>2, <1>3, <2>4 DEF Given
    <3>. QED
      BY <2>1, <3>1, <3>2 DEF IInv, Drawing, GivenOnce, Fresh, Given
  <2>. QED
    BY <2>5, <2>6, <2>8, <2>9 DEF Drawing
<1>. QED
  BY <1>6, <1>7, <1>8, <1>9 DEF IInv

(* A refill that fails gives the buffer back and draws no id (NewID).      *)
LEMMA RefillFailsKeeps ==
    ASSUME NEW c \in Callers, IInv, RefillFails(c)
    PROVE  IInv'
<1>. USE DEF RefillFails, Put, At, Then, returned
<1>1. phase[c] \in IdPhases /\ phase'[c] = "fallback" /\ phase' = [phase EXCEPT ![c] = phase'[c]]
  BY DEF IdPhases, IInv, PoolsTypeOK
<1>2. /\ Borrowed' /\ Hashing'
      /\ pooled' \subseteq alive' /\ alive' \subseteq Objects
      /\ phase' \in [Callers -> Phases]
      /\ item' \in [Callers -> Objects \cup {NoObject}]
  BY <1>1, HandBack
<1>3. PoolsTypeOK'
  BY <1>2 DEF IInv, PoolsTypeOK
<1>4. Drawing'
  <2>1. \A d \in Callers : d # c => item'[d] = item[d]
    BY DEF IInv, PoolsTypeOK
  <2>2. drawn' \in Nat /\ drawn' >= drawn
    BY DEF IInv, PoolsTypeOK
  <2>. QED
    BY <1>1, <2>1, <2>2, DrawingKept
<1>. QED
  BY <1>2, <1>3, <1>4 DEF IInv

(* Whoever returns an id that nobody has adds it to those given.           *)
LEMMA GivenGrows ==
    ASSUME NEW c \in Callers, NEW x \in 1..drawn', IInv,
           UNCHANGED batch, drawn' \in Nat, drawn' >= drawn,
           ids' = [ids EXCEPT ![c] = Append(@, x)],
           phase' = [phase EXCEPT ![c] = "idle"],
           \A d \in Callers : d # c => id'[d] = id[d],
           UNCHANGED idx,
           \A d \in Callers : \A k \in Given(d) : ids[d][k] # x,
           \A b \in Buffers : \A k \in Fresh(b) : batch[b][k] # x,
           \A d \in Held \ {c} : id[d] # x
    PROVE  FreshOnce' /\ HeldOnce' /\ GivenOnce' /\ ids' \in [Callers -> Seq(Nat)]
<1>. USE DEF Given, Fresh
<1>1. \A d \in Callers : d # c => phase'[d] = phase[d] /\ ids'[d] = ids[d]
  BY DEF IInv, PoolsTypeOK
<1>2. /\ x \in Nat /\ ids[c] \in Seq(Nat)
      /\ ids'[c] = Append(ids[c], x)
  BY DEF IInv, PoolsTypeOK
<1>3. /\ \A d \in Callers : d # c => Given(d)' = Given(d)
      /\ Given(c)' = 1..(Len(ids[c]) + 1)
      /\ ids'[c][Len(ids[c]) + 1] = x
      /\ \A k \in Given(c) : ids'[c][k] = ids[c][k]
  BY <1>1, <1>2 DEF Given
<1>4. \A k \in Given(c)' : k \in Given(c) \/ k = Len(ids[c]) + 1
  BY <1>2, <1>3 DEF Given
<1>5. Held' = Held \ {c} /\ \A b \in Buffers : Fresh(b)' = Fresh(b)
  BY <1>1 DEF Held, Fresh, IInv, PoolsTypeOK
<1>6. FreshOnce'
  BY <1>5 DEF IInv, PoolsTypeOK, Drawing, FreshOnce
<1>7. HeldOnce'
  <2>1. \A d \in Held' : d \in Held /\ id'[d] = id[d]
    BY <1>5 DEF Held
  <2>2. HeldOnce /\ drawn \in Nat
    BY DEF IInv, PoolsTypeOK, Drawing
  <2>. QED
    BY <1>5, <2>1, <2>2 DEF HeldOnce
<1>8. \A d \in Callers : \A k \in Given(d)' :
         \/ k \in Given(d) /\ ids'[d][k] = ids[d][k]
         \/ d = c /\ k = Len(ids[c]) + 1 /\ ids'[d][k] = x
  BY <1>1, <1>3, <1>4
<1>9. GivenOnce'
  <2>1. ASSUME NEW d \in Callers, NEW k \in Given(d)'
        PROVE  \/ k \in Given(d) /\ ids'[d][k] = ids[d][k]
               \/ d = c /\ k = Len(ids[c]) + 1 /\ ids'[d][k] = x
    BY <1>8
  <2>2. ASSUME NEW d \in Callers, NEW k \in Given(d)'
        PROVE  ids'[d][k] \in 1..drawn'
    <3>1. CASE k \in Given(d) /\ ids'[d][k] = ids[d][k]
      <4>1. GivenOnce /\ drawn \in Nat
        BY DEF IInv, Drawing, PoolsTypeOK
      <4>2. ids[d][k] \in 1..drawn
        BY <3>1, <4>1 DEF GivenOnce
      <4>. QED
        BY <3>1, <4>1, <4>2
    <3>. QED
      BY <2>1, <3>1
  <2>3. ASSUME NEW d \in Callers, NEW e \in Callers,
               NEW k \in Given(d)', NEW m \in Given(e)', ids'[d][k] = ids'[e][m]
        PROVE  d = e /\ k = m
    <3>1. \/ m \in Given(e) /\ ids'[e][m] = ids[e][m]
          \/ e = c /\ m = Len(ids[c]) + 1 /\ ids'[e][m] = x
      BY <2>1
    <3>2. CASE k \in Given(d) /\ ids'[d][k] = ids[d][k] /\ m \in Given(e) /\ ids'[e][m] = ids[e][m]
      BY <2>3, <3>2 DEF IInv, Drawing, GivenOnce
    <3>. QED
      BY <2>1, <2>3, <3>1, <3>2
  <2>4. ASSUME NEW d \in Callers, NEW b \in Buffers, NEW k \in Given(d)', NEW m \in Fresh(b)'
        PROVE  ids'[d][k] # batch'[b][m]
    <3>1. m \in Fresh(b) /\ batch'[b][m] = batch[b][m]
      BY <1>5
    <3>2. CASE k \in Given(d) /\ ids'[d][k] = ids[d][k]
      BY <3>1, <3>2 DEF IInv, Drawing, GivenOnce
    <3>. QED
      BY <2>1, <3>1, <3>2
  <2>5. ASSUME NEW d \in Callers, NEW e \in Held', NEW k \in Given(d)'
        PROVE  ids'[d][k] # id'[e]
    <3>1. e \in Held \ {c} /\ id'[e] = id[e]
      BY <1>5 DEF Held
    <3>2. CASE k \in Given(d) /\ ids'[d][k] = ids[d][k]
      BY <3>1, <3>2 DEF IInv, Drawing, GivenOnce
    <3>. QED
      BY <2>1, <3>1, <3>2
  <2>. QED
    BY <2>2, <2>3, <2>4, <2>5 DEF GivenOnce
<1>10. ids' \in [Callers -> Seq(Nat)]
  BY <1>2 DEF IInv, PoolsTypeOK
<1>. QED
  BY <1>6, <1>7, <1>9, <1>10

(* Without a buffer the id is drawn for this caller alone (NewID).         *)
LEMMA FallbackKeeps ==
    ASSUME NEW c \in Callers, IInv, Fallback(c)
    PROVE  IInv'
<1>. USE DEF Fallback, Return, At, heap
<1>1. /\ item[c] = NoObject /\ item' = item
      /\ \A d \in Callers : d # c => /\ phase'[d] = phase[d] /\ raw'[d] = raw[d]
                                     /\ id'[d] = id[d]
      /\ phase' = [phase EXCEPT ![c] = "idle"] /\ phase'[c] = "idle"
  BY DEF IInv, PoolsTypeOK, Borrowed
<1>2. /\ Borrowed' /\ Hashing'
      /\ phase' \in [Callers -> Phases]
  BY <1>1, HandBack
<1>3. raw' \in [Callers -> Nat] /\ id' \in [Callers -> Nat]
  BY DEF IInv, PoolsTypeOK
<1>4. Taking'
  BY <1>1 DEF IInv, Drawing, Taking
<1>5. ids' \in [Callers -> Seq(Nat)] /\ drawn' \in Nat /\ FreshOnce' /\ HeldOnce' /\ GivenOnce'
  <2>1. CASE ids' = [ids EXCEPT ![c] = Append(@, drawn + 1)] /\ drawn' = drawn + 1
    <3>. DEFINE x == drawn + 1
    <3>1. x \in 1..drawn' /\ drawn' \in Nat /\ drawn' >= drawn /\ x \notin 1..drawn
      BY <2>1 DEF IInv, PoolsTypeOK
    <3>2. /\ \A d \in Callers : \A k \in Given(d) : ids[d][k] # x
          /\ \A b \in Buffers : \A k \in Fresh(b) : batch[b][k] # x
          /\ \A d \in Held : id[d] # x
      BY <3>1 DEF IInv, Drawing, GivenOnce, FreshOnce, HeldOnce
    <3>3. ids' = [ids EXCEPT ![c] = Append(@, x)]
      BY <2>1
    <3>4. /\ \A d \in Callers : d # c => id'[d] = id[d]
          /\ UNCHANGED batch /\ UNCHANGED idx
          /\ \A d \in Held \ {c} : id[d] # x
      BY <1>1, <3>2
    <3>5. ids' \in [Callers -> Seq(Nat)] /\ FreshOnce' /\ HeldOnce' /\ GivenOnce'
      <4>. HIDE DEF x, Fallback, Return, At, heap
      <4>. QED
        BY <1>1, <3>1, <3>2, <3>3, <3>4, GivenGrows
    <3>. QED
      BY <3>1, <3>5
  <2>2. CASE UNCHANGED <<ids, drawn>>
    <3>1. Held' = Held
      BY <1>1 DEF Held
    <3>2. /\ \A b \in Buffers : Fresh(b)' = Fresh(b)
          /\ \A d \in Callers : Given(d)' = Given(d)
          /\ \A d \in Held : id'[d] = id[d]
      BY <1>1, <2>2 DEF Fresh, Given, Held
    <3>3. FreshOnce /\ HeldOnce /\ GivenOnce /\ UNCHANGED <<batch, ids, drawn>>
      BY <2>2 DEF IInv, Drawing
    <3>4. FreshOnce'
      BY <3>2, <3>3 DEF FreshOnce
    <3>5. HeldOnce'
      BY <3>1, <3>2, <3>3 DEF HeldOnce
    <3>6. GivenOnce'
      BY <3>1, <3>2, <3>3 DEF GivenOnce
    <3>. QED
      BY <2>2, <3>4, <3>5, <3>6 DEF IInv, PoolsTypeOK
  <2>. QED
    BY <2>1, <2>2
<1>6. PoolsTypeOK'
  BY <1>1, <1>2, <1>3, <1>5 DEF IInv, PoolsTypeOK
<1>. QED
  BY <1>2, <1>4, <1>5, <1>6 DEF IInv, Drawing

(* Taking reads the next id of the batch; counting it is a step of its own.*)
LEMMA TakeKeeps ==
    ASSUME NEW c \in Callers, IInv, Take(c)
    PROVE  IInv'
<1>. USE DEF Take, Then, At, heap, returned
<1>. DEFINE b == item[c]
            k == idx[b] + 1
<1>1. /\ b \in Buffers /\ k \in Fresh(b)
      /\ batch[b][k] \in Nat
  <2>1. b \in Buffers /\ idx[b] \in Nat /\ idx[b] < BatchSize /\ BatchSize \in Nat
    BY BatchAssumption DEF IInv, PoolsTypeOK, Borrowed, IdPhases, Drawing, Taking
  <2>2. k \in Fresh(b)
    BY <2>1 DEF Fresh
  <2>. QED
    BY <2>1, <2>2 DEF IInv, PoolsTypeOK, Drawing, FreshOnce
<1>2. /\ phase'[c] = "count" /\ id'[c] = batch[b][k]
      /\ \A d \in Callers : d # c => phase'[d] = phase[d] /\ id'[d] = id[d]
  BY DEF IInv, PoolsTypeOK
<1>3. PoolsTypeOK'
  BY <1>1 DEF IInv, PoolsTypeOK, Phases
<1>4. Borrowed'
  BY <1>2 DEF IInv, Borrowed, HashPhases, IdPhases
<1>5. Hashing'
  BY <1>2 DEF IInv, Hashing
<1>6. Drawing'
  <2>1. Held' = Held /\ \A d \in Held : id'[d] = id[d]
    BY <1>2 DEF Held
  <2>2. /\ \A e \in Buffers : Fresh(e)' = Fresh(e)
        /\ \A d \in Callers : Given(d)' = Given(d)
    BY DEF Fresh, Given
  <2>3. Taking'
    BY <1>2 DEF IInv, Drawing, Taking
  <2>. QED
    BY <2>1, <2>2, <2>3 DEF IInv, Drawing, FreshOnce, HeldOnce, GivenOnce
<1>. QED
  BY <1>3, <1>4, <1>5, <1>6 DEF IInv

(* An id that is counted as taken is no longer fresh, and is held.         *)
LEMMA CountKeeps ==
    ASSUME NEW c \in Callers, IInv, Count(c)
    PROVE  IInv'
<1>. USE DEF Given, Fresh, Count, Then, At, returned
<1>a. PICK b \in Buffers : b = item[c]
  BY DEF IInv, Borrowed, IdPhases
<1>b. PICK k \in Nat : k = idx[b] + 1
  BY DEF IInv, PoolsTypeOK
<1>1. /\ b \in Buffers /\ k \in Fresh(b) /\ k \in 0..BatchSize
      /\ id[c] = batch[b][k] /\ id[c] \in 1..drawn
      /\ idx[b] \in Nat /\ BatchSize \in Nat
  <2>1. b \in Buffers /\ idx[b] \in Nat /\ idx[b] < BatchSize /\ BatchSize \in Nat
    BY <1>a, BatchAssumption DEF IInv, PoolsTypeOK, Drawing, Taking
  <2>2. k \in Fresh(b) /\ k \in 0..BatchSize
    BY <1>b, <2>1 DEF Fresh
  <2>3. id[c] = batch[b][k]
    BY <1>a, <1>b DEF IInv, Drawing, Taking
  <2>. QED
    BY <2>1, <2>2, <2>3 DEF IInv, Drawing, FreshOnce
<1>2. /\ phase'[c] = "putBuffer"
      /\ \A d \in Callers : d # c => /\ phase'[d] = phase[d]
                                     /\ phase[d] \in IdPhases => item[d] # b
  BY <1>a, <1>1, ObjectsAssumption DEF IInv, PoolsTypeOK, Borrowed, Objects
<1>3. /\ idx'[b] = k
      /\ \A e \in Buffers : e # b => idx'[e] = idx[e]
  BY <1>a, <1>b, <1>1 DEF IInv, PoolsTypeOK
<1>4. PoolsTypeOK'
  BY <1>a, <1>b, <1>1 DEF IInv, PoolsTypeOK, Phases
<1>5. Borrowed'
  BY <1>2 DEF IInv, Borrowed, HashPhases, IdPhases
<1>6. Hashing'
  BY <1>2 DEF IInv, Hashing
<1>7. Drawing'
  <2>1. Held' = Held \cup {c} /\ c \notin Held
    BY <1>2 DEF Held
  <2>2. Fresh(b)' \subseteq Fresh(b) /\ k \notin Fresh(b)'
    BY <1>1, <1>3 DEF Fresh
  <2>3. /\ \A e \in Buffers : Fresh(e)' \subseteq Fresh(e)
        /\ \A e \in Buffers : \A m \in Fresh(e)' : e # b \/ m # k
    <3>1. \A e \in Buffers : e # b => Fresh(e)' = Fresh(e)
      BY <1>3 DEF Fresh
    <3>. QED
      BY <2>2, <3>1
  <2>4. \A d \in Callers : Given(d)' = Given(d)
    BY DEF Given
  <2>5. Taking'
    <3>. SUFFICES ASSUME NEW d \in Callers, d # c, phase[d] \in {"take", "count"}
                  PROVE  /\ idx'[item[d]] < BatchSize
                         /\ phase[d] = "count" => id[d] = batch[item[d]][idx'[item[d]] + 1]
      BY <1>2 DEF Taking
    <3>1. item[d] \in Buffers /\ item[d] # b
      BY <1>2 DEF IInv, Borrowed, IdPhases
    <3>. QED
      BY <1>3, <3>1 DEF IInv, Drawing, Taking
  <2>6. FreshOnce'
    BY <2>3 DEF IInv, Drawing, FreshOnce
  <2>7. HeldOnce'
    <3>1. \A e \in Buffers : \A m \in Fresh(e)' : batch[e][m] # id[c]
      BY <1>1, <2>3 DEF IInv, Drawing, FreshOnce
    <3>2. \A d \in Held : id[d] # id[c]
      BY <1>1 DEF IInv, Drawing, HeldOnce
    <3>. QED
      BY <1>1, <2>1, <2>3, <3>1, <3>2 DEF IInv, Drawing, HeldOnce
  <2>8. GivenOnce'
    <3>1. \A d \in Callers : \A m \in Given(d) : ids[d][m] # id[c]
      BY <1>1 DEF IInv, Drawing, GivenOnce
    <3>. QED
      BY <2>1, <2>3, <2>4, <3>1 DEF IInv, Drawing, GivenOnce
  <2>. QED
    BY <2>5, <2>6, <2>7, <2>8 DEF Drawing
<1>. QED
  BY <1>4, <1>5, <1>6, <1>7 DEF IInv

(* Returning moves the id from the hands of the caller to those given.     *)
LEMMA PutBufferKeeps ==
    ASSUME NEW c \in Callers, IInv, PutBuffer(c)
    PROVE  IInv'
<1>. USE DEF PutBuffer, Put, Return, At
<1>1. /\ phase[c] \in IdPhases /\ phase'[c] = "idle" /\ c \in Held
      /\ phase' = [phase EXCEPT ![c] = "idle"]
      /\ \A d \in Callers : d # c => /\ phase'[d] = phase[d] /\ raw'[d] = raw[d]
                                     /\ id'[d] = id[d] /\ item'[d] = item[d]
  BY DEF IdPhases, Held, IInv, PoolsTypeOK
<1>2. /\ Borrowed' /\ Hashing'
      /\ pooled' \subseteq alive' /\ alive' \subseteq Objects
      /\ phase' \in [Callers -> Phases]
      /\ item' \in [Callers -> Objects \cup {NoObject}]
  BY <1>1, HandBack
<1>3. FreshOnce' /\ HeldOnce' /\ GivenOnce' /\ ids' \in [Callers -> Seq(Nat)]
  <2>1. id[c] \in 1..drawn' /\ drawn' \in Nat /\ drawn' >= drawn
    BY <1>1 DEF IInv, PoolsTypeOK, Drawing, HeldOnce
  <2>2. /\ \A d \in Callers : \A k \in Given(d) : ids[d][k] # id[c]
        /\ \A b \in Buffers : \A k \in Fresh(b) : batch[b][k] # id[c]
        /\ \A d \in Held \ {c} : id[d] # id[c]
    BY <1>1 DEF IInv, Drawing, GivenOnce, HeldOnce, Given, Fresh
  <2>3. PICK x \in 1..drawn' : x = id[c]
    BY <2>1
  <2>4. ids' = [ids EXCEPT ![c] = Append(@, x)] /\ UNCHANGED batch /\ UNCHANGED idx
    BY <2>3
  <2>5. /\ \A d \in Callers : \A k \in Given(d) : ids[d][k] # x
        /\ \A b \in Buffers : \A k \in Fresh(b) : batch[b][k] # x
        /\ \A d \in Held \ {c} : id[d] # x
    BY <2>2, <2>3 DEF Given, Fresh
  <2>6. \A d \in Callers : d # c => id'[d] = id[d]
    BY <1>1
  <2>. QED
    BY <1>1, <2>1, <2>4, <2>5, <2>6, GivenGrows
<1>4. PoolsTypeOK'
  BY <1>2, <1>3 DEF IInv, PoolsTypeOK
<1>5. Taking'
  BY <1>1 DEF IInv, Drawing, Taking
<1>. QED
  BY <1>2, <1>3, <1>4, <1>5 DEF IInv, Drawing

-----------------------------------------------------------------------------
(* The pools start empty, and nobody holds anything.                       *)
LEMMA InitHolds == PoolsInit => IInv
<1>. SUFFICES ASSUME PoolsInit PROVE IInv
  OBVIOUS
<1>. USE DEF PoolsInit
<1>1. PoolsTypeOK
  <2>1. BatchSize \in 0..BatchSize
    BY BatchAssumption
  <2>2. <<>> \in Seq(Nat) /\ <<>> \in Seq(Nat \X Seq(Nat))
    OBVIOUS
  <2>. QED
    BY <2>1, <2>2 DEF PoolsTypeOK, Phases, Objects
<1>2. Borrowed
  BY DEF Borrowed, HashPhases, IdPhases
<1>3. Hashing
  BY DEF Hashing
<1>4. Drawing
  <2>1. \A b \in Buffers : Fresh(b) = {}
    BY BatchAssumption DEF Fresh
  <2>2. \A c \in Callers : Given(c) = {}
    BY DEF Given
  <2>3. Held = {}
    BY DEF Held
  <2>4. Taking
    BY DEF Taking
  <2>. QED
    BY <2>1, <2>2, <2>3, <2>4 DEF Drawing, FreshOnce, HeldOnce, GivenOnce
<1>. QED
  BY <1>1, <1>2, <1>3, <1>4 DEF IInv

(* Every step keeps the invariant, by the lemma of its action.             *)
LEMMA StepKeeps == IInv /\ [PoolsNext]_poolVars => IInv'
<1>. SUFFICES ASSUME IInv, [PoolsNext]_poolVars PROVE IInv'
  OBVIOUS
<1>1. ASSUME NEW c \in Callers, GenerateToken(c) PROVE IInv'
  <2>1. drawn \in Nat /\ drawn + 1 \in Nat /\ drawn' = drawn + 1
    BY <1>1 DEF GenerateToken, IInv, PoolsTypeOK
  <2>. QED
    BY <1>1, <2>1, HashKeeps DEF GenerateToken
<1>2. ASSUME NEW c \in Callers, GenerateHash(c) PROVE IInv'
  <2>1. PICK text \in 1..drawn : Hash(c, text) /\ UNCHANGED drawn
    BY <1>2 DEF GenerateHash
  <2>2. text \in Nat /\ drawn' \in Nat /\ drawn' >= drawn
    BY <2>1 DEF IInv, PoolsTypeOK
  <2>. QED
    BY <2>1, <2>2, HashKeeps
<1>3. CASE UNCHANGED poolVars
  <2>1. UNCHANGED <<alive, pooled, mac, buf, batch, idx, phase, item, raw, id, hashes, ids, drawn>>
    BY <1>3 DEF poolVars, heap, frame, returned
  <2>2. PoolsTypeOK'
    BY <2>1 DEF IInv, PoolsTypeOK
  <2>3. Borrowed' /\ Hashing'
    BY <2>1 DEF IInv, Borrowed, Hashing
  <2>4. Drawing'
    BY <2>1 DEF IInv, Drawing, Taking, FreshOnce, HeldOnce, GivenOnce, Fresh, Held, Given
  <2>. QED
    BY <2>2, <2>3, <2>4 DEF IInv
<1>. QED
  BY <1>1, <1>2, <1>3, HashStepKeeps, PutHolderKeeps, NewIDKeeps, RefillKeeps,
     RefillFailsKeeps, FallbackKeeps, TakeKeeps, CountKeeps, PutBufferKeeps, CollectKeeps
     DEF PoolsNext

(* The invariant, for every number of callers, of objects and of ids in a  *)
(* batch.                                                                  *)
THEOREM InvariantHolds == PoolsSpec => []IInv
BY InitHolds, StepKeeps, PTL DEF PoolsSpec

(* Callers never meet in a pooled object: every hash is that of the text   *)
(* its caller gave, and no id is given out twice (generateHashBase32,      *)
(* NewID).                                                                 *)
THEOREM Apart == PoolsSpec => []CallersApart
<1>1. IInv => CallersApart
  BY DEF IInv, Hashing, Drawing, GivenOnce, Given, CallersApart
<1>. QED
  BY <1>1, InvariantHolds, PTL
=============================================================================
