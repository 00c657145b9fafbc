-------------------------------- MODULE Pools --------------------------------
(***************************************************************************)
(* The two pools that all requests of a process share: SecretManager keeps *)
(* keyed hashes with a buffer for the sum, PooledGenerator keeps batches   *)
(* of random ids.  A caller borrows an object of a sync.Pool, uses it step *)
(* by step while others use theirs, and puts it back; an object is nobody  *)
(* else's meanwhile only because it is put back after the last use.        *)
(*                                                                         *)
(* Random data are numbers never drawn before.  A hash is what went into   *)
(* it: HMAC is a library, and taken for injective.                         *)
(***************************************************************************)
EXTENDS Naturals, Sequences, FiniteSets

CONSTANTS
    Callers,   \* goroutines
    Holders,   \* bound: the hmacHolders that exist at a time
    Buffers,   \* bound: the batchBuffers that exist at a time
    BatchSize, \* ids in a batch
    MaxCalls,  \* bound: calls of all of them
    NoObject   \* no object

ASSUME BatchAssumption == BatchSize \in Nat \ {0}
ASSUME ObjectsAssumption == Holders \cap Buffers = {} /\ NoObject \notin Holders \cup Buffers

Objects == Holders \cup Buffers

VARIABLES
    alive,  \* the objects that exist
    pooled, \* those that lie in a pool
    mac,    \* what a hash was given since its last Reset
    buf,    \* the sum in the buffer of a holder
    batch,  \* the ids of a buffer
    idx,    \* how many of them are taken
    phase,  \* the next step of a caller
    item,   \* the object it has borrowed
    raw,    \* the text it hashes
    id,     \* the id it has read
    hashes, \* what each call of a caller has returned: text and hash,
    ids,    \* or an id
    drawn   \* random data drawn so far

heap     == <<alive, pooled, mac, buf, batch, idx>>
frame    == <<phase, item, raw, id>>
returned == <<hashes, ids>>
poolVars == <<heap, frame, returned, drawn>>

Phases == {"idle", "reset", "write", "sum", "encode", "putHolder",
           "refill", "fallback", "take", "count", "putBuffer"}

PoolsInit ==
    /\ alive  = {}
    /\ pooled = {}
    /\ mac    = [h \in Holders |-> <<>>]
    /\ buf    = [h \in Holders |-> <<>>]
    /\ batch  = [b \in Buffers |-> <<>>]
    /\ idx    = [b \in Buffers |-> BatchSize]
    /\ phase  = [c \in Callers |-> "idle"]
    /\ item   = [c \in Callers |-> NoObject]
    /\ raw    = [c \in Callers |-> 0]
    /\ id     = [c \in Callers |-> 0]
    /\ hashes = [c \in Callers |-> <<>>]
    /\ ids    = [c \in Callers |-> <<>>]
    /\ drawn  = 0

At(c, p)   == phase[c] = p
Then(c, p) == phase' = [phase EXCEPT ![c] = p]
CallsOf(c) == Len(hashes[c]) + Len(ids[c]) + (IF At(c, "idle") THEN 0 ELSE 1)
Begun      == Cardinality({p \in Callers \X (1..MaxCalls) : p[2] <= CallsOf(p[1])})

Return(c) ==
    /\ phase' = [phase EXCEPT ![c] = "idle"]
    /\ item'  = [item EXCEPT ![c] = NoObject]
    /\ raw'   = [raw EXCEPT ![c] = 0]
    /\ id'    = [id EXCEPT ![c] = 0]

-----------------------------------------------------------------------------
(* sync.Pool: Get returns an object that lies in the pool or a new one,    *)
(* whose name is of no importance; what lies there may be collected as     *)
(* garbage at any time.                                                    *)

New(S) == IF S \subseteq alive THEN {} ELSE {CHOOSE x \in S : x \notin alive}

Get(c, S) ==
    \E x \in (pooled \cap S) \cup New(S) :
        /\ alive'  = alive \cup {x}
        /\ pooled' = pooled \ {x}
        /\ item'   = [item EXCEPT ![c] = x]

Put(c) == pooled' = pooled \cup {item[c]}

(* What is collected is as good as new: its name is used for the next.     *)
Collect(x) ==
    /\ x \in pooled
    /\ pooled' = pooled \ {x}
    /\ alive'  = alive \ {x}
    /\ mac'    = [h \in Holders |-> IF h = x THEN <<>> ELSE mac[h]]
    /\ buf'    = [h \in Holders |-> IF h = x THEN <<>> ELSE buf[h]]
    /\ batch'  = [b \in Buffers |-> IF b = x THEN <<>> ELSE batch[b]]
    /\ idx'    = [b \in Buffers |-> IF b = x THEN BatchSize ELSE idx[b]]
    /\ UNCHANGED <<frame, returned, drawn>>

-----------------------------------------------------------------------------
(* SecretManager.                                                          *)

(* GenerateToken draws the text, GenerateHash is given one; both borrow a  *)
(* holder.  A draw that fails returns an error and changes nothing.        *)
Hash(c, text) ==
    /\ At(c, "idle") /\ Begun < MaxCalls
    /\ Get(c, Holders)
    /\ raw' = [raw EXCEPT ![c] = text]
    /\ Then(c, "reset")
    /\ UNCHANGED <<mac, buf, batch, idx, id, returned>>

GenerateToken(c) == Hash(c, drawn + 1) /\ drawn' = drawn + 1
GenerateHash(c)  == \E text \in 1..drawn : Hash(c, text) /\ UNCHANGED drawn

Reset(c) ==
    /\ At(c, "reset")
    /\ mac' = [mac EXCEPT ![item[c]] = <<>>]
    /\ Then(c, "write")
    /\ UNCHANGED <<alive, pooled, buf, batch, idx, item, raw, id, returned, drawn>>

WriteText(c) ==
    /\ At(c, "write")
    /\ mac' = [mac EXCEPT ![item[c]] = Append(@, raw[c])]
    /\ Then(c, "sum")
    /\ UNCHANGED <<alive, pooled, buf, batch, idx, item, raw, id, returned, drawn>>

\* Mutant: the holder is put back as soon as the sum is there.
SumAndPut(c) ==
    /\ At(c, "sum")
    /\ buf' = [buf EXCEPT ![item[c]] = mac[item[c]]]
    /\ Put(c)
    /\ Then(c, "encode")
    /\ UNCHANGED <<alive, mac, batch, idx, item, raw, id, returned, drawn>>

Sum(c) ==
    /\ At(c, "sum")
    /\ buf' = [buf EXCEPT ![item[c]] = mac[item[c]]]
    /\ Then(c, "encode")
    /\ UNCHANGED <<alive, pooled, mac, batch, idx, item, raw, id, returned, drawn>>

(* EncodeToString copies the buffer; the deferred Put comes after it.      *)
Encode(c) ==
    /\ At(c, "encode")
    /\ hashes' = [hashes EXCEPT ![c] = Append(@, <<raw[c], buf[item[c]]>>)]
    /\ Then(c, "putHolder")
    /\ UNCHANGED <<heap, item, raw, id, ids, drawn>>

PutHolder(c) ==
    /\ At(c, "putHolder")
    /\ Put(c)
    /\ Return(c)
    /\ UNCHANGED <<alive, mac, buf, batch, idx, returned, drawn>>

-----------------------------------------------------------------------------
(* PooledGenerator.                                                        *)

NewID(c) ==
    /\ At(c, "idle") /\ Begun < MaxCalls
    /\ Get(c, Buffers)
    /\ Then(c, IF idx[item'[c]] >= BatchSize THEN "refill" ELSE "take")
    /\ UNCHANGED <<mac, buf, batch, idx, raw, id, returned, drawn>>

Refill(c) ==
    /\ At(c, "refill")
    /\ batch' = [batch EXCEPT ![item[c]] = [k \in 1..BatchSize |-> drawn + k]]
    /\ idx'   = [idx EXCEPT ![item[c]] = 0]
    /\ drawn' = drawn + BatchSize
    /\ Then(c, "take")
    /\ UNCHANGED <<alive, pooled, mac, buf, item, raw, id, returned>>

(* The random source fails: the buffer goes back as it was, but for bytes  *)
(* of ids that are all taken, and the id is made without it.               *)
RefillFails(c) ==
    /\ At(c, "refill")
    /\ Put(c)
    /\ Then(c, "fallback")
    /\ item' = [item EXCEPT ![c] = NoObject]
    /\ UNCHANGED <<alive, mac, buf, batch, idx, raw, id, returned, drawn>>

(* uuid.New draws for itself, or panics.                                   *)
Fallback(c) ==
    /\ At(c, "fallback")
    /\ \/ ids' = [ids EXCEPT ![c] = Append(@, drawn + 1)] /\ drawn' = drawn + 1
       \/ UNCHANGED <<ids, drawn>>
    /\ Return(c)
    /\ UNCHANGED <<heap, hashes>>

Take(c) ==
    /\ At(c, "take")
    /\ id' = [id EXCEPT ![c] = batch[item[c]][idx[item[c]] + 1]]
    /\ Then(c, "count")
    /\ UNCHANGED <<heap, item, raw, returned, drawn>>

Count(c) ==
    /\ At(c, "count")
    /\ idx' = [idx EXCEPT ![item[c]] = @ + 1]
    /\ Then(c, "putBuffer")
    /\ UNCHANGED <<alive, pooled, mac, buf, batch, item, raw, id, returned, drawn>>

PutBuffer(c) ==
    /\ At(c, "putBuffer")
    /\ Put(c)
    /\ ids' = [ids EXCEPT ![c] = Append(@, id[c])]
    /\ Return(c)
    /\ UNCHANGED <<alive, mac, buf, batch, idx, hashes, drawn>>

PoolsNext ==
    \/ \E c \in Callers :
          \/ GenerateToken(c) \/ GenerateHash(c)
          \/ Reset(c) \/ WriteText(c) \/ Sum(c) \/ Encode(c) \/ PutHolder(c)
          \/ NewID(c) \/ Refill(c) \/ RefillFails(c) \/ Fallback(c)
          \/ Take(c) \/ Count(c) \/ PutBuffer(c)
    \/ \E x \in Objects : Collect(x)

PoolsSpec == PoolsInit /\ [][PoolsNext]_poolVars

PoolsDone == Begun = MaxCalls /\ \A c \in Callers : At(c, "idle")

-----------------------------------------------------------------------------
(* Callers never meet in a pooled object: every hash is that of the text   *)
(* its caller gave, whatever was hashed in that holder before or since,    *)
(* and no id is given out twice (generateHashBase32, NewID).               *)
CallersApart ==
    /\ \A c \in Callers : \A k \in 1..Len(hashes[c]) :
          hashes[c][k][2] = <<hashes[c][k][1]>>
    /\ \A c, d \in Callers : \A k \in 1..Len(ids[c]), m \in 1..Len(ids[d]) :
          ids[c][k] = ids[d][m] => c = d /\ k = m
=============================================================================
