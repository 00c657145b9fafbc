--------------------------- MODULE SessionsProofs ---------------------------
(***************************************************************************)
(* What Sessions guarantees for any number of users, sessions and          *)
(* overlapping requests, and what more for as long as none overlap, with   *)
(* proofs.                                                                 *)
(***************************************************************************)
EXTENDS SessionsAlone, TLAPS

-----------------------------------------------------------------------------
(* The session entity.                                                     *)

(* Revoking an entity sets revoked_at and nothing else.                    *)
LEMMA RevokedFields ==
    ASSUME NEW row \in Row
    PROVE  /\ Revoked(row) \in Row
           /\ Revoked(row).user = row.user
           /\ Revoked(row).expires = row.expires
           /\ Revoked(row).revoked = TRUE
BY DEF Revoked, Row

(* Rotating an entity keeps its owner and expiry.                          *)
LEMMA RotatedFields ==
    ASSUME NEW row \in Row
    PROVE  /\ Rotated(row) \in Row
           /\ Rotated(row).user = row.user
           /\ Rotated(row).expires = row.expires
           /\ Rotated(row).revoked = FALSE
BY DEF Rotated, Row

(* A row that takes over a revoked_at is the revoked row.                  *)
LEMMA UpsertedRevoked ==
    ASSUME NEW s \in Tokens, Exists(s), table[s] \in Row,
           NEW row \in Row, row.revoked = TRUE
    PROVE  Upserted(s, row) = Revoked(table[s])
BY DEF Upserted, Revoked, Row

(* Revoking a row that is revoked changes nothing.                         *)
LEMMA RevokedTwice ==
    ASSUME NEW row \in Row
    PROVE  Revoked(Revoked(row)) = Revoked(row)
BY DEF Revoked, Row

(* A new session is live, and expires a TTL after the time it is given.    *)
LEMMA NewFields ==
    ASSUME NEW u \in Users, NEW t \in 0..MaxTime
    PROVE  New(u, t) \in Row /\ New(u, t).revoked = FALSE
BY ConstantsAssumption DEF New, Row, Expiries

-----------------------------------------------------------------------------
(* Transactions.                                                           *)

(* What Save writes, and that it is typed.                                 *)
LEMMA SaveWrites ==
    ASSUME TypeOK, NEW r \in Requests, NEW rows, Save(r, rows),
           DOMAIN rows \subseteq Tokens,
           \A s \in DOMAIN rows : rows[s] \in Row
    PROVE  /\ pend' \in [Requests -> [Tokens -> Row \cup {NoRow}]]
           /\ \A q \in Requests \ {r} : pend'[q] = pend[q]
           /\ \A s \in Tokens :
                 pend'[r][s] = IF s \in DOMAIN rows THEN Upserted(s, rows[s])
                                                    ELSE pend[r][s]
           /\ \A s \in DOMAIN rows : Upserted(s, rows[s]) \in Row
<1>1. ASSUME NEW s \in DOMAIN rows
      PROVE  Upserted(s, rows[s]) \in Row
  <2>1. CASE Exists(s)
    <3>1. table[s] \in Row
      BY <2>1 DEF TypeOK, Exists
    <3>2. [table[s] EXCEPT !.revoked = rows[s].revoked] \in Row
      BY <3>1 DEF Row
    <3>. QED
      BY <2>1, <3>2 DEF Upserted
  <2>2. CASE ~Exists(s)
    BY <2>2 DEF Upserted
  <2>. QED
    BY <2>1, <2>2
<1>2. pend \in [Requests -> [Tokens -> Row \cup {NoRow}]]
  BY DEF TypeOK
<1>. QED
  BY <1>1, <1>2 DEF Save

(* A transaction that ends leaves its request typed.                       *)
LEMMA FinishType ==
    ASSUME TypeOK, NEW r \in Requests, NEW v \in Verdicts, Finish(r, v),
           table' \in [Tokens -> Row \cup {NoRow}]
    PROVE  TypeOK'
<1>1. NoWrites \in [Tokens -> Row \cup {NoRow}]
  BY DEF NoWrites
<1>2. 0 \in 0..MaxTime
  BY ConstantsAssumption
<1>. QED
  BY <1>1, <1>2 DEF TypeOK, Finish, arguments, Labels

(* A commit leaves the table typed.                                        *)
LEMMA InstallType ==
    ASSUME TypeOK, NEW r \in Requests, Install(r)
    PROVE  table' \in [Tokens -> Row \cup {NoRow}]
BY DEF TypeOK, Install

(* Every value a step assigns has its type.                                *)
LEMMA TypeInit == Init => TypeOK
<1>. SUFFICES ASSUME Init PROVE TypeOK
  OBVIOUS
<1>1. NoWrites \in [Tokens -> Row \cup {NoRow}]
  BY DEF NoWrites
<1>2. 0 \in 0..MaxTime
  BY ConstantsAssumption
<1>. QED
  BY <1>1, <1>2, ConstantsAssumption DEF Init, TypeOK, Labels, AllHandlers, Verdicts

(* Beginning a request keeps the types.                                    *)
LEMMA TypeBegin ==
    ASSUME TypeOK, NEW r \in Requests, Start(r)
    PROVE  TypeOK'
<1>1. ASSUME NEW h \in AllHandlers, NEW t \in Tokens \cup {None},
             NEW u \in Users \cup {None}, NEW l \in Labels,
             Begin(r, h, t, u, l)
      PROVE  TypeOK'
  BY <1>1 DEF TypeOK, Begin
<1>. QED
  BY <1>1 DEF Start, StartLogin, StartClone, StartRefresh, StartRevokeSession,
              StartRevokeChain,
              AllHandlers, Labels, InTx

(* Refusing, and moving on without touching a local.                       *)
LEMMA TypeRefuse ==
    ASSUME TypeOK, NEW r \in Requests, NEW v \in Refusals, Refuse(r, v)
    PROVE  TypeOK'
BY DEF TypeOK, Refuse, arguments, locals, Labels, InTx, Verdicts

(* Writing typed rows, and moving on, keeps the types.                     *)
LEMMA TypeWrite ==
    ASSUME TypeOK, NEW r \in Requests, NEW l \in Labels, Goto(r, l),
           pend' \in [Requests -> [Tokens -> Row \cup {NoRow}]],
           UNCHANGED <<clock, table, arguments, locals, verdict>>
    PROVE  TypeOK'
BY DEF TypeOK, Goto, arguments, locals

(* Every step of a request that has begun keeps the types.                 *)
LEMMA TypeProceed ==
    ASSUME TypeOK, NEW r \in Requests, AtWork(r), Proceed(r)
    PROVE  TypeOK'
<1>. USE DEF Labels, InTx
<1>1. CASE Issue(r)
  <2>1. New(who[r], now[r]) \in Row
    BY <1>1, NewFields DEF TypeOK, AtWork, Issue
  <2>2. NewID[r] \in Tokens
    BY NewIDAssumption
  <2>. QED
    BY <1>1, <2>1, <2>2, SaveWrites, TypeWrite DEF Issue
<1>2. CASE LookupUnknown(r) \/ LookupExpired(r)
  BY <1>2, TypeRefuse DEF LookupUnknown, LookupExpired, Refusals
<1>3. CASE LookupValid(r)
  BY <1>3 DEF TypeOK, AtWork, LookupValid, Goto, arguments
<1>4. CASE LookupReused(r)
  <2>1. table[tok[r]] \in Row
    BY <1>4 DEF TypeOK, AtWork, LookupReused, Exists
  <2>2. table[tok[r]].user \in Users
    BY <2>1 DEF Row
  <2>3. "reuse" \in Verdicts
    BY DEF Verdicts, Refusals
  <2>. QED
    BY <1>4, <2>2, <2>3 DEF TypeOK, LookupReused, Goto
<1>5. CASE Rotate(r)
  <2>1. seen[r] \in Row /\ tok[r] \in Tokens /\ NewID[r] \in Tokens
    BY <1>5, NewIDAssumption DEF AtWork, Rotate
  <2>2. Revoked(seen[r]) \in Row /\ Rotated(seen[r]) \in Row
    BY <2>1, RevokedFields, RotatedFields
  <2>. QED
    BY <1>5, <2>1, <2>2, SaveWrites, TypeWrite DEF Rotate
<1>6. CASE FindUnknown(r) \/ FindForeign(r)
  BY <1>6, TypeRefuse DEF FindUnknown, FindForeign, Refusals
<1>7. CASE FindOwn(r)
  <2>1. tok[r] \in Tokens /\ table[tok[r]] \in Row
    BY <1>7 DEF TypeOK, AtWork, FindOwn, Exists
  <2>2. pend' \in [Requests -> [Tokens -> Row \cup {NoRow}]]
    BY <1>7, <2>1, RevokedFields, SaveWrites DEF FindOwn, TypeOK
  <2>. QED
    BY <1>7, <2>2, TypeWrite DEF FindOwn
<1>8. CASE ListActive(r)
  <2>1. AfterRevokeAll(r) \in Labels
    BY DEF AfterRevokeAll
  <2>. QED
    BY <1>8, <2>1 DEF TypeOK, ListActive, Goto, arguments
<1>9. CASE SaveRevoked(r)
  <2>1. cur[r] \in Tokens /\ table[cur[r]] \in Row
    BY <1>9 DEF TypeOK, AtWork, SaveRevoked, Exists
  <2>2. pend' \in [Requests -> [Tokens -> Row \cup {NoRow}]]
    BY <1>9, <2>1, RevokedFields, SaveWrites DEF SaveRevoked
  <2>3. AfterRevokeAll(r) \in Labels
    BY DEF AfterRevokeAll
  <2>4. /\ UNCHANGED pc \/ Goto(r, AfterRevokeAll(r))
        /\ UNCHANGED cur \/ \E s \in listed[r] : cur' = [cur EXCEPT ![r] = s]
    BY <1>9 DEF SaveRevoked
  <2>5. listed[r] \subseteq Tokens /\ pc \in [Requests -> Labels]
        /\ cur \in [Requests -> Tokens \cup {None}]
    BY DEF TypeOK
  <2>6. pc' \in [Requests -> Labels] /\ cur' \in [Requests -> Tokens \cup {None}]
    BY <2>3, <2>4, <2>5 DEF Goto
  <2>. QED
    BY <1>9, <2>2, <2>6 DEF TypeOK, SaveRevoked, arguments
<1>10. CASE Commit(r)
  BY <1>10, InstallType, FinishType DEF Commit, Answer, Verdicts
<1>11. CASE Rollback(r)
  BY <1>11, FinishType DEF Rollback, TypeOK
<1>. QED
  BY <1>1, <1>2, <1>3, <1>4, <1>5, <1>6, <1>7, <1>8, <1>9, <1>10, <1>11
     DEF Proceed, Lookup, Find

(* Every step keeps the types.                                             *)
LEMMA TypeNext ==
    ASSUME TypeOK, \A r \in Requests : AtWork(r), [Next]_vars
    PROVE  TypeOK'
<1>1. CASE Tick
  BY <1>1, ConstantsAssumption DEF TypeOK, Tick, arguments, locals
<1>2. ASSUME NEW r \in Requests, Step(r)
      PROVE  TypeOK'
  <2>1. CASE Fail(r) \/ CommitUnseen(r) \/ DeadlockVictim(r)
    BY <2>1, InstallType, FinishType
       DEF Fail, CommitUnseen, DeadlockVictim, Verdicts, TypeOK
  <2>. QED
    BY <1>2, <2>1, TypeBegin, TypeProceed DEF Step
<1>3. CASE UNCHANGED vars
  BY <1>3 DEF TypeOK, vars
<1>. QED
  BY <1>1, <1>2, <1>3 DEF Next, Finished

-----------------------------------------------------------------------------
(* What a step of one request means to the others.                         *)

(* The table as every step leaves it: rows stay, with their owner and      *)
(* expiry, and revoked rows stay revoked.                                  *)
Grows ==
    \A s \in Tokens : Exists(s) =>
        /\ table'[s] = table[s] \/ table'[s] = Revoked(table[s])
        /\ Exists(s)'

(* What that says of the fields of a row.                                  *)
LEMMA GrowsFields ==
    ASSUME TypeOK, Grows, NEW s \in Tokens, Exists(s)
    PROVE  /\ table[s] \in Row /\ table'[s] \in Row
           /\ Exists(s)'
           /\ table'[s].user = table[s].user
           /\ table'[s].expires = table[s].expires
           /\ table[s].revoked => table'[s].revoked
           /\ Revoked(table'[s]) = Revoked(table[s])
           /\ Rotated(table'[s]) = Rotated(table[s])
<1>1. table[s] \in Row
  BY DEF TypeOK, Exists
<1>2. CASE table'[s] = table[s]
  BY <1>1, <1>2 DEF Grows
<1>3. CASE table'[s] = Revoked(table[s])
  <2>1. Rotated(Revoked(table[s])) = Rotated(table[s])
    BY <1>1, RevokedFields DEF Rotated
  <2>. QED
    BY <1>1, <1>3, <2>1, RevokedFields, RevokedTwice DEF Grows
<1>. QED
  BY <1>2, <1>3 DEF Grows

(* The step of another request, or of the clock, seen from q.              *)
Untouched(q) ==
    /\ pc'[q] = pc[q] /\ op'[q] = op[q] /\ tok'[q] = tok[q] /\ who'[q] = who[q]
    /\ seen'[q] = seen[q] /\ listed'[q] = listed[q] /\ cur'[q] = cur[q]
    /\ pend'[q] = pend[q] /\ verdict'[q] = verdict[q]
    /\ now'[q] = now[q] /\ known'[q] = known[q]

(* What q knows survives a step of another request that does not insert a  *)
(* row under the id of q.                                                  *)
LEMMA InvStable ==
    ASSUME TypeOK, Grows, NEW q \in Requests, RequestInv(q), Untouched(q),
           Exists(NewID[q])' => Exists(NewID[q])
    PROVE  RequestInv(q)'
<1>. USE DEF Untouched
<1>0. NewID[q] \in Tokens /\ listed[q] \subseteq Tokens
  BY NewIDAssumption DEF TypeOK
<1>1. FreshID(q)'
  BY DEF RequestInv, FreshID
<1>2. RevokesOnly(q) => RevokesOnly(q)'
  BY GrowsFields DEF RevokesOnly, Holds
<1>3. ASSUME NEW row \in Row, NEW s \in Tokens, SameGrant(row, s)
      PROVE  SameGrant(row, s)'
  BY <1>3, GrowsFields DEF SameGrant
<1>4. AtWork(q)'
  BY <1>0, <1>2, <1>3, GrowsFields DEF RequestInv, AtWork
<1>5. AtCommit(q)'
  BY <1>0, <1>2, GrowsFields DEF RequestInv, AtCommit, Holds
<1>6. Afterwards(q)'
  <2>1. Successor(q, NewID[q])' => Successor(q, NewID[q])
    BY DEF Successor
  <2>2. ASSUME Exists(NewID[q]), tok[q] \in Tokens, SameGrant(table[NewID[q]], tok[q]),
               table[tok[q]].revoked
        PROVE  SameGrant(table[NewID[q]], tok[q])' /\ table'[tok[q]].revoked
    <3>1. /\ table'[NewID[q]].user = table[tok[q]].user
          /\ table'[NewID[q]].expires = table[tok[q]].expires
      BY <1>0, <2>2, GrowsFields DEF SameGrant
    <3>. QED
      BY <2>2, <3>1, GrowsFields DEF SameGrant
  <2>3. \A h \in AllHandlers : Answered(q, h)' <=> Answered(q, h)
    BY DEF Answered, Answer
  <2>. QED
    BY <1>0, <2>1, <2>2, <2>3, GrowsFields
       DEF RequestInv, Afterwards, Successor, ToldAllRevoked, RevokingAll, AllHandlers
<1>. QED
  BY <1>1, <1>4, <1>5, <1>6 DEF RequestInv

(* A step of r changes nobody else's locals.                               *)
LEMMA StepUntouched ==
    ASSUME TypeOK, NEW r \in Requests, NEW q \in Requests \ {r}, Step(r)
    PROVE  Untouched(q)
<1>. USE DEF TypeOK, Untouched, Goto, arguments, locals
<1>1. CASE Start(r)
  BY <1>1 DEF Start, StartLogin, StartClone, StartRefresh, StartRevokeSession,
              StartRevokeChain, Begin
<1>2. CASE Issue(r) \/ Rotate(r)
  BY <1>2 DEF Issue, Rotate, Save
<1>3. CASE Lookup(r)
  BY <1>3 DEF Lookup, LookupUnknown, LookupExpired, LookupValid, LookupReused, Refuse
<1>4. CASE Find(r)
  BY <1>4 DEF Find, FindUnknown, FindForeign, FindOwn, Refuse, Save
<1>5. CASE ListActive(r)
  BY <1>5 DEF ListActive
<1>6. CASE SaveRevoked(r)
  BY <1>6 DEF SaveRevoked, Save
<1>7. CASE Commit(r) \/ Rollback(r) \/ Fail(r) \/ CommitUnseen(r) \/ DeadlockVictim(r)
  BY <1>7 DEF Commit, Rollback, Fail, CommitUnseen, DeadlockVictim, Finish
<1>. QED
  BY <1>1, <1>2, <1>3, <1>4, <1>5, <1>6, <1>7 DEF Step, Proceed

(* The table changes only when a transaction commits.                      *)
LEMMA StepTable ==
    ASSUME NEW r \in Requests, Step(r)
    PROVE  \/ UNCHANGED table
           \/ pc[r] = "commit" /\ Install(r)
                /\ ((Commit(r) /\ Finish(r, Answer(r))) \/ (CommitUnseen(r) /\ Finish(r, "error")))
BY DEF Step, Start, StartLogin, StartClone, StartRefresh, StartRevokeSession,
       StartRevokeChain,
       Begin, Proceed, Issue, Lookup, LookupUnknown, LookupExpired, LookupValid,
       LookupReused, Rotate, Find, FindUnknown, FindForeign, FindOwn, Refuse,
       ListActive, SaveRevoked, Commit, Rollback, Fail, CommitUnseen, DeadlockVictim

(* What a commit writes over a row that exists is that row revoked, and it *)
(* adds no row but the one its request was given the id for.               *)
LEMMA CommitWrites ==
    ASSUME TypeOK, NEW r \in Requests, RequestInv(r), pc[r] = "commit"
    PROVE  \A s \in Tokens : Holds(r, s) =>
              \/ Exists(s) /\ pend[r][s] = Revoked(table[s])
              \/ s = NewID[r] /\ ~Exists(s)
<1>1. ~Exists(NewID[r])
  BY DEF RequestInv, FreshID
<1>. QED
  BY <1>1 DEF RequestInv, AtCommit, RevokesOnly

(* So a commit only adds its own row and revokes others.                   *)
LEMMA InstallGrows ==
    ASSUME TypeOK, NEW r \in Requests, RequestInv(r), pc[r] = "commit", Install(r)
    PROVE  Grows /\ \A q \in Requests \ {r} : Exists(NewID[q])' => Exists(NewID[q])
<1>1. Grows
  <2>. SUFFICES ASSUME NEW s \in Tokens, Exists(s)
               PROVE  /\ table'[s] = table[s] \/ table'[s] = Revoked(table[s])
                      /\ Exists(s)'
    BY DEF Grows
  <2>1. table[s] \in Row
    BY DEF TypeOK, Exists
  <2>2. Revoked(table[s]) # NoRow
    BY <2>1, RevokedFields, ConstantsAssumption
  <2>3. ~Exists(NewID[r])
    BY DEF RequestInv, FreshID
  <2>. QED
    BY <2>2, <2>3, CommitWrites DEF Install, Exists, Holds
<1>2. ASSUME NEW q \in Requests \ {r}, ~Exists(NewID[q])
      PROVE  ~Exists(NewID[q])'
  <2>1. NewID[q] \in Tokens /\ NewID[q] # NewID[r]
    BY NewIDAssumption
  <2>. QED
    BY <1>2, <2>1, CommitWrites DEF Install, Exists, Holds
<1>. QED
  BY <1>1, <1>2

(* And so does every step of a request.                                    *)
LEMMA StepGrows ==
    ASSUME TypeOK, NEW r \in Requests, RequestInv(r), Step(r)
    PROVE  Grows /\ \A q \in Requests \ {r} : Exists(NewID[q])' => Exists(NewID[q])
BY StepTable, InstallGrows DEF Grows, Exists

-----------------------------------------------------------------------------
(* What a step of a request means to itself.                               *)

(* A request that is not done, and holds nothing, has nothing to show yet. *)
LEMMA StillAtWork ==
    ASSUME TypeOK, NEW r \in Requests, RequestInv(r), UNCHANGED table,
           pc[r] # "done", pc'[r] # "done"
    PROVE  FreshID(r)' /\ Afterwards(r)'
<1>1. ~Exists(NewID[r])'
  BY DEF RequestInv, FreshID, Exists
<1>. QED
  BY <1>1 DEF FreshID, Afterwards, Successor, Answered, ToldAllRevoked, RevokingAll,
              Answer

(* Every request starts with nothing written.                              *)
LEMMA StartInv ==
    ASSUME TypeOK, NEW r \in Requests, RequestInv(r), Start(r)
    PROVE  RequestInv(r)'
<1>. USE DEF TypeOK
<1>1. pc[r] = "idle" /\ pend[r] = NoWrites /\ UNCHANGED <<table, pend>>
  BY DEF Start, StartLogin, StartClone, StartRefresh, StartRevokeSession,
         StartRevokeChain, Begin,
         RequestInv, AtWork
<1>2. \/ pc'[r] = "insert" /\ op'[r] = "login" /\ who'[r] \in Users
      \/ pc'[r] = "lookup" /\ op'[r] = "refresh" /\ tok'[r] \in Tokens
      \/ /\ pc'[r] = "find" /\ op'[r] = "revokeSession"
         /\ tok'[r] \in Tokens /\ who'[r] \in Users
      \/ pc'[r] = "list" /\ op'[r] \in RevokingAll
  BY DEF RevokingAll, Start, StartLogin, StartClone, StartRefresh, StartRevokeSession,
         StartRevokeChain, Begin
<1>3. AtWork(r)' /\ AtCommit(r)'
  BY <1>1, <1>2 DEF AtWork, AtCommit, NoWrites
<1>. QED
  BY <1>1, <1>2, <1>3, StillAtWork DEF RequestInv

(* A refused request has written nothing the table shows.                  *)
LEMMA RefuseInv ==
    ASSUME TypeOK, NEW r \in Requests, RequestInv(r), NEW v \in Refusals, Refuse(r, v),
           pc[r] \in {"lookup", "find"}
    PROVE  RequestInv(r)'
<1>1. /\ pc'[r] = "rollback" /\ verdict'[r] = v
      /\ pend'[r] = NoWrites /\ UNCHANGED <<table, pend>>
  BY DEF Refuse, TypeOK, RequestInv, AtWork
<1>2. RevokesOnly(r)'
  BY <1>1 DEF RevokesOnly, Holds, NoWrites
<1>3. AtWork(r)' /\ AtCommit(r)'
  BY <1>1, <1>2 DEF AtWork, AtCommit
<1>. QED
  BY <1>1, <1>3, StillAtWork DEF RequestInv

(* A login has written its own row, live, and nothing else.                *)
LEMMA IssueInv ==
    ASSUME TypeOK, NEW r \in Requests, RequestInv(r), Issue(r)
    PROVE  RequestInv(r)'
<1>1. NewID[r] \in Tokens /\ ~Exists(NewID[r]) /\ pend[r] = NoWrites /\ op[r] = "login"
  BY NewIDAssumption DEF Issue, RequestInv, FreshID, AtWork
<1>2. New(who[r], now[r]) \in Row /\ New(who[r], now[r]).revoked = FALSE
  BY NewFields DEF Issue, RequestInv, AtWork, TypeOK
<1>3. \A s \in Tokens : pend'[r][s] = IF s = NewID[r] THEN New(who[r], now[r]) ELSE NoRow
  <2>. DEFINE rows == [s \in {NewID[r]} |-> New(who[r], now[r])]
  <2>1. Save(r, rows) /\ DOMAIN rows = {NewID[r]} /\ \A s \in {NewID[r]} : rows[s] \in Row
    BY <1>2 DEF Issue
  <2>2. Upserted(NewID[r], rows[NewID[r]]) = New(who[r], now[r])
    BY <1>1 DEF Upserted
  <2>. HIDE DEF rows
  <2>. QED
    BY <1>1, <2>1, <2>2, SaveWrites DEF NoWrites
<1>4. pc'[r] = "commit" /\ op'[r] = "login" /\ UNCHANGED table
  BY <1>1 DEF Issue, Goto, TypeOK, arguments
<1>5. AtWork(r)' /\ AtCommit(r)'
  BY <1>1, <1>2, <1>3, <1>4, ConstantsAssumption DEF AtWork, AtCommit, Holds
<1>. QED
  BY <1>4, <1>5, StillAtWork DEF RequestInv, Issue

(* A refresh that goes on has seen a row of the table.                     *)
LEMMA LookupInv ==
    ASSUME TypeOK, NEW r \in Requests, RequestInv(r), Lookup(r)
    PROVE  RequestInv(r)'
<1>1. CASE LookupUnknown(r) \/ LookupExpired(r)
  BY <1>1, RefuseInv DEF LookupUnknown, LookupExpired, Refusals
<1>2. CASE LookupValid(r)
  <2>1. /\ pc[r] = "lookup" /\ pc'[r] = "rotate" /\ op'[r] = "refresh"
        /\ tok'[r] = tok[r] /\ tok[r] \in Tokens
        /\ seen'[r] = table[tok[r]] /\ Exists(tok[r])
        /\ pend'[r] = NoWrites /\ UNCHANGED table
    BY <1>2 DEF LookupValid, Goto, TypeOK, arguments, RequestInv, AtWork
  <2>2. table[tok[r]] \in Row
    BY <2>1 DEF TypeOK, Exists
  <2>3. AtWork(r)' /\ AtCommit(r)'
    BY <2>1, <2>2 DEF AtWork, AtCommit, SameGrant, Exists
  <2>. QED
    BY <2>1, <2>3, StillAtWork DEF RequestInv
<1>3. CASE LookupReused(r)
  <2>1. /\ pc[r] = "lookup" /\ pc'[r] = "list" /\ op'[r] = "refresh"
        /\ verdict'[r] = "reuse" /\ pend'[r] = NoWrites /\ UNCHANGED table
    BY <1>3 DEF LookupReused, Goto, TypeOK, RequestInv, AtWork
  <2>2. AtWork(r)' /\ AtCommit(r)'
    BY <2>1 DEF AtWork, AtCommit
  <2>. QED
    BY <2>1, <2>2, StillAtWork DEF RequestInv
<1>. QED
  BY <1>1, <1>2, <1>3 DEF Lookup

(* A refresh has written its token revoked, and the successor.             *)
LEMMA RotateInv ==
    ASSUME TypeOK, NEW r \in Requests, RequestInv(r), Rotate(r)
    PROVE  RequestInv(r)'
<1>1. /\ NewID[r] \in Tokens /\ ~Exists(NewID[r]) /\ pend[r] = NoWrites
      /\ op[r] = "refresh" /\ tok[r] \in Tokens /\ Exists(tok[r])
      /\ seen[r] \in Row /\ SameGrant(seen[r], tok[r])
  BY NewIDAssumption DEF Rotate, RequestInv, FreshID, AtWork, SameGrant
<1>2. table[tok[r]] \in Row /\ NewID[r] # tok[r]
  BY <1>1 DEF TypeOK, Exists
<1>3. Revoked(seen[r]) \in Row /\ Rotated(seen[r]) \in Row /\ Revoked(seen[r]).revoked
  BY <1>1, RevokedFields, RotatedFields
<1>4. Upserted(tok[r], Revoked(seen[r])) = Revoked(table[tok[r]])
  BY <1>1, <1>2, <1>3, RevokedFields, UpsertedRevoked
<1>5. Upserted(NewID[r], Rotated(seen[r])) = Rotated(table[tok[r]])
  BY <1>1, <1>2 DEF Upserted, SameGrant, Rotated
<1>6. \A s \in Tokens : pend'[r][s] = IF s = tok[r] THEN Revoked(table[s])
                                      ELSE IF s = NewID[r] THEN Rotated(table[tok[r]])
                                      ELSE NoRow
  <2>. DEFINE rows == [s \in {tok[r], NewID[r]} |-> IF s = tok[r] THEN Revoked(seen[r])
                                                              ELSE Rotated(seen[r])]
  <2>1. Save(r, rows)
    BY DEF Rotate
  <2>2. /\ DOMAIN rows = {tok[r], NewID[r]} /\ DOMAIN rows \subseteq Tokens
        /\ rows[tok[r]] = Revoked(seen[r]) /\ rows[NewID[r]] = Rotated(seen[r])
        /\ \A s \in DOMAIN rows : rows[s] \in Row
    BY <1>1, <1>2, <1>3
  <2>. HIDE DEF rows
  <2>3. \A s \in Tokens : pend'[r][s] = IF s \in DOMAIN rows THEN Upserted(s, rows[s])
                                                           ELSE pend[r][s]
    BY <2>1, <2>2, SaveWrites
  <2>4. \A s \in Tokens : pend[r][s] = NoRow
    BY <1>1 DEF NoWrites
  <2>. QED
    BY <1>4, <1>5, <2>2, <2>3, <2>4
<1>7. Revoked(table[tok[r]]) # NoRow /\ Rotated(table[tok[r]]) # NoRow
  <2>1. Revoked(table[tok[r]]) \in Row /\ Rotated(table[tok[r]]) \in Row
    BY <1>2, RevokedFields, RotatedFields
  <2>2. NoRow \notin Row
    BY ConstantsAssumption
  <2>. QED
    BY <2>1, <2>2
<1>8. /\ pc[r] = "rotate" /\ pc'[r] = "commit" /\ op'[r] = "refresh"
      /\ tok'[r] = tok[r] /\ UNCHANGED table
  BY <1>1 DEF Rotate, Goto, TypeOK, arguments
<1>9. AtWork(r)' /\ AtCommit(r)'
  BY <1>1, <1>2, <1>6, <1>7, <1>8 DEF AtWork, AtCommit, Holds, Exists
<1>. QED
  BY <1>8, <1>9, StillAtWork DEF RequestInv

(* A logout that goes on has the session revoked, or finds it so.          *)
LEMMA FindInv ==
    ASSUME TypeOK, NEW r \in Requests, RequestInv(r), Find(r)
    PROVE  RequestInv(r)'
<1>1. CASE FindUnknown(r) \/ FindForeign(r)
  BY <1>1, RefuseInv DEF FindUnknown, FindForeign, Refusals
<1>2. CASE FindOwn(r)
  <2>1. /\ pc[r] = "find" /\ pc'[r] = "commit" /\ op'[r] = "revokeSession"
        /\ tok'[r] = tok[r] /\ tok[r] \in Tokens /\ Exists(tok[r])
        /\ pend[r] = NoWrites /\ UNCHANGED table
    BY <1>2 DEF FindOwn, Goto, TypeOK, arguments, RequestInv, AtWork
  <2>2. table[tok[r]] \in Row
    BY <2>1 DEF TypeOK, Exists
  <2>3. CASE table[tok[r]].revoked /\ UNCHANGED pend
    <3>1. AtWork(r)' /\ AtCommit(r)'
      BY <2>1, <2>3 DEF AtWork, AtCommit, RevokesOnly, Holds, NoWrites, Exists
    <3>. QED
      BY <2>1, <3>1, StillAtWork DEF RequestInv
  <2>4. CASE Save(r, [s \in {tok[r]} |-> Revoked(table[tok[r]])])
    <3>. DEFINE rows == [s \in {tok[r]} |-> Revoked(table[tok[r]])]
    <3>1. Revoked(table[tok[r]]) \in Row /\ Revoked(table[tok[r]]).revoked
      BY <2>2, RevokedFields
    <3>2. Save(r, rows) /\ DOMAIN rows = {tok[r]} /\ \A s \in {tok[r]} : rows[s] \in Row
      BY <2>4, <3>1
    <3>3. Upserted(tok[r], rows[tok[r]]) = Revoked(table[tok[r]])
      BY <2>1, <2>2, <3>1, UpsertedRevoked
    <3>. HIDE DEF rows
    <3>4. \A s \in Tokens : pend'[r][s] = IF s = tok[r] THEN Revoked(table[s]) ELSE NoRow
      BY <2>1, <3>2, <3>3, SaveWrites DEF NoWrites
    <3>5. Revoked(table[tok[r]]) # NoRow
      BY <3>1, ConstantsAssumption
    <3>6. AtWork(r)' /\ AtCommit(r)'
      BY <2>1, <3>4, <3>5 DEF AtWork, AtCommit, RevokesOnly, Holds, Exists
    <3>. QED
      BY <2>1, <3>6, StillAtWork DEF RequestInv
  <2>. QED
    BY <1>2, <2>3, <2>4 DEF FindOwn
<1>. QED
  BY <1>1, <1>2 DEF Find

(* What RevokeAllUserSessions lists exists, and goes on existing.          *)
LEMMA ListActiveInv ==
    ASSUME TypeOK, NEW r \in Requests, RequestInv(r), ListActive(r)
    PROVE  RequestInv(r)'
<1>1. /\ pc[r] = "list" /\ pend'[r] = NoWrites /\ UNCHANGED table
      /\ op'[r] = op[r] /\ verdict'[r] = verdict[r]
      /\ op[r] \in RevokingAll \/ (op[r] = "refresh" /\ verdict[r] = "reuse")
  BY DEF ListActive, RequestInv, AtWork, arguments
<1>2. RevokesOnly(r)'
  BY <1>1 DEF RevokesOnly, Holds, NoWrites
<1>3. \A s \in listed'[r] : s \in Tokens /\ Exists(s)
  BY DEF ListActive, TypeOK
<1>4. \/ listed'[r] = {} /\ pc'[r] = AfterRevokeAll(r)
      \/ pc'[r] = "save" /\ cur'[r] \in listed'[r]
  BY DEF ListActive, Goto, TypeOK
<1>5. AtWork(r)' /\ AtCommit(r)'
  BY <1>1, <1>2, <1>3, <1>4
     DEF AtWork, AtCommit, AfterRevokeAll, RevokingAll, Exists, Refusals
<1>6. pc'[r] # "done"
  BY <1>4 DEF AfterRevokeAll
<1>. QED
  BY <1>1, <1>5, <1>6, StillAtWork DEF RequestInv

(* What it has saved, at the end, is all it listed, revoked.               *)
LEMMA SaveRevokedInv ==
    ASSUME TypeOK, NEW r \in Requests, RequestInv(r), SaveRevoked(r)
    PROVE  RequestInv(r)'
<1>. DEFINE rows == [s \in {cur[r]} |-> Revoked(table[s])]
<1>1. /\ pc[r] = "save" /\ UNCHANGED table
      /\ op'[r] = op[r] /\ verdict'[r] = verdict[r] /\ listed'[r] = listed[r]
      /\ op[r] \in RevokingAll \/ (op[r] = "refresh" /\ verdict[r] = "reuse")
      /\ cur[r] \in Tokens /\ Exists(cur[r]) /\ RevokesOnly(r)
      /\ \A s \in listed[r] : s \in Tokens /\ Exists(s)
  BY DEF SaveRevoked, RequestInv, AtWork, TypeOK, arguments
<1>2. table[cur[r]] \in Row
  BY <1>1 DEF TypeOK, Exists
<1>3. Revoked(table[cur[r]]) \in Row /\ Revoked(table[cur[r]]).revoked
  BY <1>2, RevokedFields
<1>4. Save(r, rows) /\ DOMAIN rows = {cur[r]} /\ \A s \in {cur[r]} : rows[s] \in Row
  BY <1>3 DEF SaveRevoked
<1>5. Upserted(cur[r], rows[cur[r]]) = Revoked(table[cur[r]])
  BY <1>1, <1>2, <1>3, UpsertedRevoked
<1>6. \A s \in Tokens :
         pend'[r][s] = IF s = cur[r] THEN Revoked(table[s]) ELSE pend[r][s]
  <2>. HIDE DEF rows
  <2>. QED
    BY <1>1, <1>4, <1>5, SaveWrites
<1>7. Revoked(table[cur[r]]) # NoRow
  BY <1>3, ConstantsAssumption
<1>8. RevokesOnly(r)'
  BY <1>1, <1>6 DEF RevokesOnly, Holds, Exists
<1>9. \/ /\ pc'[r] = AfterRevokeAll(r)
         /\ {s \in listed[r] \ {cur[r]} : pend[r][s] = NoRow} = {}
      \/ pc'[r] = "save" /\ cur'[r] \in listed[r]
  <2>1. \/ /\ Goto(r, AfterRevokeAll(r))
           /\ {s \in listed[r] \ {cur[r]} : pend[r][s] = NoRow} = {}
        \/ UNCHANGED pc /\ \E s \in listed[r] : cur' = [cur EXCEPT ![r] = s]
    BY DEF SaveRevoked
  <2>. QED
    BY <1>1, <2>1 DEF Goto, TypeOK
<1>10. AtWork(r)'
  BY <1>1, <1>8, <1>9 DEF AtWork, AfterRevokeAll, RevokingAll, Exists, Refusals
<1>11. AtCommit(r)'
  <2>. SUFFICES ASSUME pc'[r] = "commit"
               PROVE  /\ op'[r] \in RevokingAll
                      /\ \A s \in listed'[r] : Exists(s)' /\ Holds(r, s)'
    BY <1>8 DEF AtCommit
  <2>1. {s \in listed[r] \ {cur[r]} : pend[r][s] = NoRow} = {} /\ op[r] \in RevokingAll
    BY <1>1, <1>9 DEF AfterRevokeAll
  <2>. QED
    BY <1>1, <1>6, <1>7, <2>1 DEF Holds, Exists
<1>12. pc'[r] # "done"
  BY <1>9 DEF AfterRevokeAll
<1>. QED
  BY <1>1, <1>10, <1>11, <1>12, StillAtWork DEF RequestInv

(* A transaction that is rolled back, for whatever reason, leaves nothing. *)
LEMMA DiscardInv ==
    ASSUME TypeOK, NEW r \in Requests, RequestInv(r), pc[r] \in InTx,
           Rollback(r) \/ Fail(r) \/ DeadlockVictim(r)
    PROVE  RequestInv(r)'
<1>1. /\ pc'[r] = "done" /\ pend'[r] = NoWrites /\ UNCHANGED table
      /\ verdict'[r] \in Refusals \cup {"error"}
  BY DEF Rollback, Fail, DeadlockVictim, Finish, TypeOK, RequestInv, AtWork
<1>2. ~Exists(NewID[r])'
  BY <1>1 DEF RequestInv, FreshID, Exists, InTx
<1>. QED
  BY <1>1, <1>2
     DEF RequestInv, FreshID, AtWork, AtCommit, Afterwards, Successor, Answered,
         ToldAllRevoked, RevokingAll, Answer, Refusals

(* A commit makes every promise of the answer true, seen or not.           *)
LEMMA CommitInv ==
    ASSUME TypeOK, NEW r \in Requests, RequestInv(r), pc[r] = "commit", Install(r),
           Finish(r, Answer(r)) \/ Finish(r, "error")
    PROVE  RequestInv(r)'
<1>1. /\ pc'[r] = "done" /\ pend'[r] = NoWrites /\ verdict'[r] \in {Answer(r), "error"}
      /\ op'[r] = op[r] /\ tok'[r] = tok[r] /\ listed'[r] = listed[r]
      /\ listed[r] \subseteq Tokens /\ NewID[r] \in Tokens
  BY NewIDAssumption DEF Finish, TypeOK, arguments
<1>2. FreshID(r)' /\ AtWork(r)' /\ AtCommit(r)'
  <2>1. CASE op[r] = "clone"
    <3>1. ~Exists(NewID[r]) /\ ~Holds(r, NewID[r])
      BY <1>1, <2>1 DEF RequestInv, FreshID, AtCommit, RevokesOnly
    <3>. QED
      BY <1>1, <3>1 DEF FreshID, AtWork, AtCommit, Install, Holds, Exists
  <2>2. CASE op[r] # "clone"
    BY <1>1, <2>2 DEF Answer, FreshID, AtWork, AtCommit
  <2>. QED
    BY <2>1, <2>2
<1>3. Grows
  BY InstallGrows
<1>4. ASSUME NEW s \in Tokens, Exists(s), table[s].revoked \/ Holds(r, s)
      PROVE  Exists(s)' /\ table'[s].revoked
  <2>1. table[s] \in Row
    BY <1>4 DEF TypeOK, Exists
  <2>2. CASE Holds(r, s)
    <3>1. pend[r][s] = Revoked(table[s]) /\ table'[s] = pend[r][s]
      BY <1>4, <2>2, CommitWrites DEF Install, Holds
    <3>. QED
      BY <1>3, <1>4, <2>1, <3>1, GrowsFields, RevokedFields
  <2>. QED
    BY <1>3, <1>4, <2>2, GrowsFields
<1>5. CASE op[r] = "login"
  <2>1. Exists(NewID[r])'
    BY <1>1, <1>5 DEF RequestInv, AtCommit, RevokingAll, Install, Holds, Exists
  <2>2. Afterwards(r)'
    BY <1>1, <1>5, <2>1 DEF Afterwards, Successor, Answered, ToldAllRevoked,
                            RevokingAll, Answer
  <2>. QED
    BY <1>2, <2>2 DEF RequestInv
<1>6. CASE op[r] = "refresh"
  <2>1. /\ tok[r] \in Tokens /\ Exists(tok[r]) /\ Holds(r, tok[r]) /\ Holds(r, NewID[r])
        /\ pend[r][NewID[r]] = Rotated(table[tok[r]])
    BY <1>1, <1>6 DEF RequestInv, AtCommit, RevokingAll
  <2>2. table[tok[r]] \in Row
    BY <2>1 DEF TypeOK, Exists
  <2>3. table'[NewID[r]] = Rotated(table[tok[r]]) /\ Exists(NewID[r])'
    BY <1>1, <2>1 DEF Install, Holds, Exists
  <2>4. SameGrant(table[NewID[r]], tok[r])' /\ table'[tok[r]].revoked
    <3>1. /\ table'[NewID[r]].user = table[tok[r]].user
          /\ table'[NewID[r]].expires = table[tok[r]].expires
      BY <2>2, <2>3, RotatedFields
    <3>2. Exists(tok[r])' /\ table'[tok[r]].revoked
      BY <1>1, <1>4, <2>1 DEF Exists
    <3>3. /\ table'[tok[r]].user = table[tok[r]].user
          /\ table'[tok[r]].expires = table[tok[r]].expires
      BY <1>3, <2>1, GrowsFields
    <3>. QED
      BY <1>1, <3>1, <3>2, <3>3 DEF SameGrant
  <2>5. Afterwards(r)'
    BY <1>1, <1>6, <2>1, <2>3, <2>4 DEF Afterwards, Successor, Answered,
                                        ToldAllRevoked, RevokingAll, Answer
  <2>. QED
    BY <1>2, <2>5 DEF RequestInv
<1>7. CASE op[r] = "revokeSession"
  <2>1. tok[r] \in Tokens /\ Exists(tok[r]) /\ (table[tok[r]].revoked \/ Holds(r, tok[r]))
    BY <1>7 DEF RequestInv, AtCommit, RevokingAll
  <2>2. Afterwards(r)'
    BY <1>1, <1>4, <1>7, <2>1 DEF Afterwards, Successor, Answered, ToldAllRevoked,
                                  RevokingAll, Answer, Exists
  <2>. QED
    BY <1>2, <2>2 DEF RequestInv
<1>8. CASE op[r] \in RevokingAll
  <2>1. \A s \in listed[r] : Exists(s)' /\ table'[s].revoked
    BY <1>1, <1>4, <1>8 DEF RequestInv, AtCommit, RevokingAll
  <2>2. Afterwards(r)'
    BY <1>1, <1>8, <2>1 DEF Afterwards, Successor, Answered, ToldAllRevoked,
                            RevokingAll, Answer
  <2>. QED
    BY <1>2, <2>2 DEF RequestInv
<1>. QED
  BY <1>5, <1>6, <1>7, <1>8 DEF RequestInv, AtCommit

(* Every step of a request keeps what is known of that request.            *)
LEMMA StepInv ==
    ASSUME TypeOK, NEW r \in Requests, RequestInv(r), Step(r)
    PROVE  RequestInv(r)'
<1>1. CASE Commit(r) \/ CommitUnseen(r)
  BY <1>1, CommitInv DEF Commit, CommitUnseen
<1>2. CASE Rollback(r) \/ Fail(r) \/ DeadlockVictim(r)
  <2>1. pc[r] \in InTx
    BY <1>2 DEF Rollback, Fail, DeadlockVictim, Deadlocked, WaitsFor, Wants, InTx
  <2>. QED
    BY <1>2, <2>1, DiscardInv
<1>. QED
  BY <1>1, <1>2, StartInv, IssueInv, LookupInv, RotateInv, FindInv, ListActiveInv,
     SaveRevokedInv DEF Step, Proceed

-----------------------------------------------------------------------------
(* The inductive invariant, and what follows from it.                      *)

(* The inductive invariant holds at first.                                 *)
LEMMA InvInit == Init => IInv
<1>. SUFFICES ASSUME Init PROVE IInv
  OBVIOUS
<1>1. TypeOK
  BY TypeInit
<1>2. ASSUME NEW r \in Requests
      PROVE  RequestInv(r)
  <2>1. /\ pc[r] = "idle" /\ pend[r] = NoWrites /\ ~Exists(NewID[r])
    BY NewIDAssumption DEF Init, Exists
  <2>. QED
    BY <2>1 DEF RequestInv, FreshID, AtWork, AtCommit, Afterwards, Successor,
                Answered, ToldAllRevoked, RevokingAll, Answer
<1>. QED
  BY <1>1, <1>2 DEF IInv

(* Every step keeps the inductive invariant.                               *)
LEMMA InvNext == IInv /\ [Next]_vars => IInv'
<1>. SUFFICES ASSUME IInv, [Next]_vars PROVE IInv'
  OBVIOUS
<1>1. TypeOK /\ \A q \in Requests : RequestInv(q)
  BY DEF IInv
<1>2. TypeOK'
  BY <1>1, TypeNext DEF RequestInv
<1>3. CASE Tick \/ UNCHANGED vars
  <2>1. UNCHANGED table /\ \A q \in Requests : Untouched(q)
    BY <1>3 DEF Tick, vars, arguments, locals, Untouched
  <2>2. Grows /\ \A q \in Requests : Exists(NewID[q])' => Exists(NewID[q])
    BY <2>1 DEF Grows, Exists
  <2>. QED
    BY <1>1, <1>2, <2>1, <2>2, InvStable DEF IInv
<1>4. ASSUME NEW r \in Requests, Step(r)
      PROVE  IInv'
  <2>1. RequestInv(r)'
    BY <1>1, <1>4, StepInv
  <2>2. ASSUME NEW q \in Requests \ {r}
        PROVE  RequestInv(q)'
    BY <1>1, <1>4, StepUntouched, StepGrows, InvStable
  <2>. QED
    BY <1>2, <2>1, <2>2 DEF IInv
<1>. QED
  BY <1>3, <1>4 DEF Next, Finished

(* The inductive invariant holds in every reachable state.                 *)
THEOREM Invariance == Spec => []IInv
BY InvInit, InvNext, PTL DEF Spec

(* Every variable keeps its type.                                          *)
THEOREM TypeCorrect == Spec => []TypeOK
<1>1. IInv => TypeOK
  BY DEF IInv
<1>. QED
  BY <1>1, Invariance, PTL

(* However many requests rotate at the same time, a successor session has  *)
(* the owner and the absolute expiry of the token it was traded for, and   *)
(* that token is revoked (SessionIssuer.Rotate).                           *)
THEOREM RotationCorrect == Spec => []RotationKeepsGrant
<1>1. IInv => RotationKeepsGrant
  BY DEF IInv, RequestInv, Afterwards, RotationKeepsGrant, SameGrant
<1>. QED
  BY <1>1, Invariance, PTL

(* Every answer stays true to the table, in every later state.             *)
THEOREM AnswersCorrect == Spec => []AnswersHold
<1>1. IInv => AnswersHold
  BY DEF IInv, RequestInv, FreshID, Afterwards, AnswersHold, Refusals
<1>. QED
  BY <1>1, Invariance, PTL

(* Every step of the system only adds rows and revokes others.             *)
LEMMA NextGrows == IInv /\ [Next]_vars => Grows
<1>. SUFFICES ASSUME IInv, [Next]_vars PROVE Grows
  OBVIOUS
<1>1. CASE Tick \/ UNCHANGED vars
  BY <1>1 DEF Tick, vars, Grows, Exists
<1>2. ASSUME NEW r \in Requests, Step(r)
      PROVE  Grows
  BY <1>2, StepGrows DEF IInv
<1>. QED
  BY <1>1, <1>2 DEF Next, Finished

(* No upsert, however stale the entity it was made from, ever brings a     *)
(* revoked session back, and no session disappears (SaveRefreshTokens).    *)
THEOREM RevocationCorrect == Spec => RevokedIsFinal
<1>1. IInv /\ [Next]_vars => [StaysRevoked]_vars
  BY NextGrows, GrowsFields DEF IInv, StaysRevoked
<1>. QED
  BY <1>1, Invariance, PTL DEF Spec, RevokedIsFinal

-----------------------------------------------------------------------------
(* Why a session is revoked, and that none is missed.                      *)

(* No request works with a time that has not come.                         *)
LEMMA NowPast ==
    ASSUME TypeOK, NEW r \in Requests, now[r] <= clock, Step(r)
    PROVE  clock' = clock /\ now'[r] <= clock'
<1>. USE DEF TypeOK, arguments, locals
<1>1. CASE Start(r)
  BY <1>1 DEF Start, StartLogin, StartClone, StartRefresh, StartRevokeSession,
              StartRevokeChain, Begin
<1>2. CASE Lookup(r)
  BY <1>2 DEF Lookup, LookupUnknown, LookupExpired, LookupValid, LookupReused, Refuse
<1>3. CASE Find(r)
  BY <1>3 DEF Find, FindUnknown, FindForeign, FindOwn, Refuse
<1>4. CASE Issue(r) \/ Rotate(r) \/ ListActive(r) \/ SaveRevoked(r)
  BY <1>4 DEF Issue, Rotate, ListActive, SaveRevoked
<1>5. CASE Commit(r) \/ Rollback(r) \/ Fail(r) \/ CommitUnseen(r) \/ DeadlockVictim(r)
  BY <1>5 DEF Commit, Rollback, Fail, CommitUnseen, DeadlockVictim, Finish
<1>. QED
  BY <1>1, <1>2, <1>3, <1>4, <1>5 DEF Step, Proceed

(* What a request has warrant for survives the steps of others.            *)
LEMMA WarrantStable ==
    ASSUME TypeOK, Grows, NEW q \in Requests, RequestInv(q), Warrant(q), Untouched(q),
           clock <= clock', TypeOK'
    PROVE  Warrant(q)'
<1>. USE DEF Untouched
<1>1. now'[q] <= clock'
  BY DEF Warrant, TypeOK
<1>2. \A s \in Tokens : Holds(q, s)' <=> Holds(q, s)
  BY DEF Holds
<1>3. listed[q] \subseteq Tokens /\ known[q] \subseteq Tokens
  BY DEF TypeOK
<1>4. ASSUME NEW s \in Tokens, Exists(s)
      PROVE  /\ Exists(s)' /\ table'[s].user = table[s].user
             /\ ~IsValid(table[s], now[q]) => ~IsValid(table'[s], now'[q])
  BY <1>4, GrowsFields DEF IsValid
<1>5. ASSUME pc[q] = "commit", op[q] = "revokeSession", NEW s \in Tokens, Holds(q, s)
      PROVE  s = tok[q] /\ table'[s].user = who[q]
  BY <1>4, <1>5 DEF Warrant, RequestInv, AtCommit, RevokesOnly, RevokingAll
<1>6. \A u : Against(q, u)' <=> Against(q, u)
  BY DEF Against
<1>. QED
  BY <1>1, <1>2, <1>3, <1>4, <1>5, <1>6 DEF Warrant

(* A logout writes only the session that was asked for, of the one who     *)
(* asked.                                                                  *)
LEMMA FindWarrant ==
    ASSUME TypeOK, NEW r \in Requests, RequestInv(r), FindOwn(r)
    PROVE  \A s \in Tokens : Holds(r, s)' => s = tok'[r] /\ table'[s].user = who'[r]
<1>1. /\ tok'[r] = tok[r] /\ who'[r] = who[r] /\ tok[r] \in Tokens /\ Exists(tok[r])
      /\ table[tok[r]].user = who[r] /\ pend[r] = NoWrites /\ UNCHANGED table
  BY DEF FindOwn, arguments, RequestInv, AtWork
<1>2. CASE UNCHANGED pend
  BY <1>1, <1>2 DEF Holds, NoWrites
<1>3. CASE Save(r, [s \in {tok[r]} |-> Revoked(table[tok[r]])])
  <2>. DEFINE rows == [s \in {tok[r]} |-> Revoked(table[tok[r]])]
  <2>1. table[tok[r]] \in Row
    BY <1>1 DEF TypeOK, Exists
  <2>2. Save(r, rows) /\ DOMAIN rows = {tok[r]} /\ \A s \in {tok[r]} : rows[s] \in Row
    BY <1>3, <2>1, RevokedFields
  <2>. HIDE DEF rows
  <2>3. \A s \in Tokens \ {tok[r]} : pend'[r][s] = NoRow
    BY <1>1, <2>2, SaveWrites DEF NoWrites
  <2>. QED
    BY <1>1, <2>3 DEF Holds
<1>. QED
  BY <1>2, <1>3 DEF FindOwn

(* What a revocation lists is of the users concerned, and all of theirs    *)
(* that can be used.                                                       *)
LEMMA ListWarrant ==
    ASSUME TypeOK, NEW r \in Requests, RequestInv(r), now[r] <= clock, ListActive(r)
    PROVE  Warrant(r)'
<1>1. /\ pc[r] = "list" /\ UNCHANGED <<clock, table, op, who, now, pend>>
      /\ pend[r] = NoWrites
      /\ listed'[r] = {s \in Tokens : /\ Exists(s)
                                      /\ table[s].user \in Targets(r)
                                      /\ IsValid(table[s], now[r])}
      /\ known'[r] = {s \in Tokens : Exists(s)}
      /\ op[r] \in RevokingAll \cup {"refresh"}
  BY DEF ListActive, TypeOK, arguments, RequestInv, AtWork
<1>2. \A s \in Tokens : ~Holds(r, s)'
  BY <1>1 DEF Holds, NoWrites
<1>3. op[r] \in RevokingAll => \A u : u \in Targets(r) <=> Against(r, u)
  BY DEF Targets, Against, RevokingAll
<1>4. /\ \A s \in Tokens : Exists(s)' <=> Exists(s)
      /\ \A u : Against(r, u)' <=> Against(r, u)
  BY <1>1 DEF Exists, Against
<1>. QED
  BY <1>1, <1>2, <1>3, <1>4 DEF Warrant, IsValid, RevokingAll

(* One statement of the batch writes one session of the list.              *)
LEMMA SaveWarrant ==
    ASSUME TypeOK, NEW r \in Requests, RequestInv(r), Warrant(r), SaveRevoked(r)
    PROVE  Warrant(r)'
<1>. DEFINE rows == [s \in {cur[r]} |-> Revoked(table[s])]
<1>1. /\ pc[r] = "save"
      /\ UNCHANGED <<clock, table, op, tok, who, now, listed, known>>
      /\ op[r] \in RevokingAll \cup {"refresh"}
      /\ cur[r] \in listed[r] /\ cur[r] \in Tokens /\ Exists(cur[r])
  BY DEF SaveRevoked, RequestInv, AtWork, TypeOK, arguments
<1>2. table[cur[r]] \in Row
  BY <1>1 DEF TypeOK, Exists
<1>3. Save(r, rows) /\ DOMAIN rows = {cur[r]} /\ \A s \in {cur[r]} : rows[s] \in Row
  BY <1>2, RevokedFields DEF SaveRevoked
<1>4. \A s \in Tokens \ {cur[r]} : pend'[r][s] = pend[r][s]
  <2>. HIDE DEF rows
  <2>. QED
    BY <1>1, <1>3, SaveWrites
<1>5. ASSUME op[r] \in RevokingAll, NEW s \in Tokens, Holds(r, s)'
      PROVE  s \in listed[r]
  BY <1>1, <1>4, <1>5 DEF Holds, Warrant
<1>6. /\ \A s \in Tokens : Exists(s)' <=> Exists(s)
      /\ \A u : Against(r, u)' <=> Against(r, u)
  BY <1>1 DEF Exists, Against
<1>7. listed[r] \subseteq Tokens /\ known[r] \subseteq Tokens
  BY DEF TypeOK
<1>. QED
  BY <1>1, <1>5, <1>6, <1>7 DEF Warrant, IsValid, RevokingAll

(* Every step of a request keeps its warrant.                              *)
LEMMA StepWarrant ==
    ASSUME TypeOK, NEW r \in Requests, RequestInv(r), Warrant(r), Step(r)
    PROVE  Warrant(r)'
<1>1. now[r] <= clock /\ now'[r] <= clock'
  BY NowPast DEF Warrant
<1>2. CASE ListActive(r) \/ SaveRevoked(r)
  BY <1>1, <1>2, ListWarrant, SaveWarrant
<1>3. CASE FindOwn(r)
  <2>1. pc'[r] = "commit" /\ op'[r] = "revokeSession"
    BY <1>3 DEF FindOwn, Goto, TypeOK, arguments, RequestInv, AtWork
  <2>. QED
    BY <1>1, <1>3, <2>1, FindWarrant DEF Warrant, RevokingAll
<1>4. CASE Issue(r) \/ Rotate(r)
  <2>1. pc'[r] = "commit" /\ op'[r] \in {"login", "refresh"}
    BY <1>4 DEF Issue, Rotate, Goto, TypeOK, arguments, RequestInv, AtWork
  <2>. QED
    BY <1>1, <2>1 DEF Warrant, RevokingAll
<1>5. ASSUME ~ListActive(r), ~SaveRevoked(r), ~FindOwn(r), ~Issue(r), ~Rotate(r)
      PROVE  pc'[r] \notin {"save", "commit"}
  BY <1>5 DEF TypeOK, Step, Start, StartLogin, StartClone, StartRefresh,
              StartRevokeSession,
              StartRevokeChain, Begin, Proceed, Lookup, LookupUnknown, LookupExpired,
              LookupValid, LookupReused, Find, FindUnknown, FindForeign, Refuse, Goto,
              Commit, Rollback, Fail, CommitUnseen, DeadlockVictim, Finish
<1>. QED
  BY <1>1, <1>2, <1>3, <1>4, <1>5 DEF Warrant

(* A warrant is never lost.                                                *)
LEMMA WarrantNext == IInv /\ Warranted /\ [Next]_vars => Warranted'
<1>. SUFFICES ASSUME IInv, Warranted, [Next]_vars PROVE Warranted'
  OBVIOUS
<1>1. TypeOK /\ TypeOK' /\ Grows /\ \A q \in Requests : RequestInv(q) /\ Warrant(q)
  BY InvNext, NextGrows DEF IInv, Warranted
<1>2. CASE Tick \/ UNCHANGED vars
  <2>1. clock <= clock' /\ \A q \in Requests : Untouched(q)
    BY <1>1, <1>2 DEF Tick, vars, arguments, locals, Untouched, TypeOK
  <2>. QED
    BY <1>1, <2>1, WarrantStable DEF Warranted
<1>3. ASSUME NEW r \in Requests, Step(r)
      PROVE  Warranted'
  <2>1. Warrant(r)' /\ clock' = clock
    BY <1>1, <1>3, StepWarrant, NowPast DEF Warrant
  <2>2. clock <= clock'
    BY <1>1, <2>1 DEF TypeOK
  <2>3. ASSUME NEW q \in Requests \ {r}
        PROVE  Warrant(q)'
    BY <1>1, <1>3, <2>2, StepUntouched, WarrantStable
  <2>. QED
    BY <2>1, <2>3 DEF Warranted
<1>. QED
  BY <1>2, <1>3 DEF Next, Finished

(* In every reachable state, every request has warrant for what it writes. *)
THEOREM WarrantHolds == Spec => []Warranted
<1>1. Init => Warranted
  <2>. SUFFICES ASSUME Init, NEW r \in Requests PROVE Warrant(r)
    BY DEF Warranted
  <2>1. pc[r] = "idle" /\ now[r] = 0 /\ clock = 0
    BY DEF Init
  <2>. QED
    BY <2>1 DEF Warrant
<1>. QED
  BY <1>1, WarrantNext, Invariance, PTL DEF Spec

(* Only the commit of a request that may do so ends a session.             *)
LEMMA StepHasCause ==
    ASSUME IInv, Warranted, NEW r \in Requests, Step(r), NEW s \in Tokens, Exists(s),
           ~table[s].revoked, table'[s].revoked
    PROVE  Cause(r, s)
<1>1. TypeOK /\ RequestInv(r) /\ Warrant(r)
  BY DEF IInv, Warranted
<1>2. /\ pc[r] = "commit" /\ Install(r)
      /\ Finish(r, Answer(r)) \/ Finish(r, "error")
  BY StepTable
<1>3. pc'[r] = "done"
  BY <1>1, <1>2 DEF Finish, TypeOK
<1>4. Holds(r, s)
  BY <1>2 DEF Install, Holds
<1>5. s # NewID[r]
  BY <1>1, <1>2 DEF RequestInv, FreshID
<1>. QED
  BY <1>1, <1>2, <1>3, <1>4, <1>5 DEF Cause, Against, RevokingAll, Warrant,
                                      RequestInv, AtCommit

(* A session ends only because its own token is refreshed, because its     *)
(* owner asked, because an administrator revoked a branch of the owner, or *)
(* because a login took a credential of the owner for a clone: however     *)
(* requests interleave, none ends a session it has no business with        *)
(* (RevokeSession, RevokeAllUserSessions, Login.handleClone,               *)
(* SessionIssuer.Rotate).                                                  *)
THEOREM RevocationCaused == Spec => RevocationHasCause
<1>1. IInv /\ Warranted /\ [Next]_vars => [EndsWithCause]_vars
  <2>. SUFFICES ASSUME IInv, Warranted, [Next]_vars,
                       NEW s \in Tokens, Exists(s), ~table[s].revoked, table'[s].revoked
                PROVE  \E r \in Requests : Cause(r, s)
    BY DEF EndsWithCause
  <2>1. CASE Tick \/ UNCHANGED vars
    BY <2>1 DEF Tick, vars
  <2>2. ASSUME NEW r \in Requests, Step(r)
        PROVE  \E q \in Requests : Cause(q, s)
    BY <2>2, StepHasCause
  <2>. QED
    BY <2>1, <2>2 DEF Next, Finished
<1>. QED
  BY <1>1, Invariance, WarrantHolds, PTL DEF Spec, RevocationHasCause

(* When a revoke-chain answers 204, or a login that it suspects a clone,   *)
(* no session of the users concerned that had been committed when it       *)
(* listed them can be used any more, though it took no lock while it       *)
(* listed (RevokeAllUserSessions.Execute).                                 *)
THEOREM NothingSurvives == Spec => NothingListedSurvives
<1>1. IInv /\ Warranted /\ [Next]_vars => [MissesNothing]_vars
  <2>. SUFFICES ASSUME IInv, Warranted, [Next]_vars, NEW r \in Requests,
                       pc[r] = "commit", pc'[r] = "done", verdict'[r] = Answer(r),
                       NEW s \in known[r], Against(r, table[s].user)
                PROVE  ~IsValid(table'[s], clock)
    BY DEF MissesNothing
  <2>1. TypeOK /\ RequestInv(r) /\ Warrant(r) /\ s \in Tokens
    BY DEF IInv, Warranted, TypeOK
  <2>0. op[r] \in RevokingAll
    BY DEF Against, RevokingAll
  <2>2. Exists(s) /\ (s \in listed[r] \/ ~IsValid(table[s], now[r])) /\ now[r] <= clock
    BY <2>0, <2>1 DEF Warrant
  <2>3. /\ table[s] \in Row /\ table'[s] \in Row
        /\ table'[s].expires = table[s].expires
        /\ table[s].revoked => table'[s].revoked
    BY <2>1, <2>2, NextGrows, GrowsFields
  <2>4. table[s].expires \in Nat /\ now[r] \in Nat /\ clock \in Nat
    BY <2>1, <2>3 DEF TypeOK, Row, Expiries
  <2>5. CASE ~IsValid(table[s], now[r])
    BY <2>2, <2>3, <2>4, <2>5 DEF IsValid
  <2>6. CASE s \in listed[r]
    <3>1. ToldAllRevoked(r)' /\ s \in listed'[r]
      <4>1. ASSUME NEW q \in Requests \ {r}, Step(q)
            PROVE  FALSE
        BY <2>1, <4>1, StepUntouched DEF Untouched
      <4>2. Step(r)
        <5>1. CASE Tick \/ UNCHANGED vars
          BY <5>1 DEF Tick, vars
        <5>. QED
          BY <4>1, <5>1 DEF Next, Finished
      <4>3. op'[r] = op[r] /\ listed'[r] = listed[r]
        BY <4>2 DEF Step, Start, StartLogin, StartClone, StartRefresh,
                    StartRevokeSession,
             StartRevokeChain, Begin, Proceed, Issue, Lookup, LookupUnknown,
             LookupExpired, LookupValid, LookupReused, Rotate, Find, FindUnknown,
             FindForeign, FindOwn, ListActive, SaveRevoked, Commit, Rollback, Fail,
             CommitUnseen, DeadlockVictim, Finish, Goto, Refuse, arguments
      <4>. QED
        BY <2>0, <2>6, <4>3 DEF ToldAllRevoked, Answered, Answer
    <3>2. table'[s].revoked
      BY <3>1, InvNext DEF IInv, RequestInv, Afterwards
    <3>. QED
      BY <3>2 DEF IsValid
  <2>. QED
    BY <2>2, <2>5, <2>6
<1>. QED
  BY <1>1, Invariance, WarrantHolds, PTL DEF Spec, NothingListedSurvives

-----------------------------------------------------------------------------
(* Sessions implements SessionLedger.                                      *)

(* A request that has been answered takes no step.                         *)
LEMMA StepNotDone ==
    ASSUME NEW r \in Requests, Step(r)
    PROVE  pc[r] # "done"
BY DEF Step, Start, StartLogin, StartClone, StartRefresh, StartRevokeSession,
       StartRevokeChain,
       Begin, Proceed, Issue, Lookup, LookupUnknown, LookupExpired, LookupValid,
       LookupReused, Rotate, Find, FindUnknown, FindForeign, FindOwn, ListActive,
       SaveRevoked, Commit, Rollback, Fail, CommitUnseen, DeadlockVictim,
       Deadlocked, WaitsFor, Wants, InTx

(* A step of a request makes at most one heir, its own.                    *)
LEMMA HeirsStep ==
    ASSUME IInv, NEW r \in Requests, Step(r)
    PROVE  Heirs' = IF Successor(r, NewID[r])' THEN Heirs \cup {<<tok'[r], NewID[r]>>}
                                               ELSE Heirs
<1>1. TypeOK /\ \A q \in Requests : RequestInv(q)
  BY DEF IInv
<1>2. pc[r] # "done"
  BY StepNotDone
<1>3. ~Successor(r, NewID[r])
  BY <1>1, <1>2 DEF RequestInv, FreshID, Successor
<1>4. ASSUME NEW q \in Requests \ {r}
      PROVE  tok'[q] = tok[q] /\ (Successor(q, NewID[q])' <=> Successor(q, NewID[q]))
  <2>1. NewID[q] \in Tokens
    BY NewIDAssumption
  <2>2. Exists(NewID[q])' <=> Exists(NewID[q])
    BY <1>1, <2>1, StepGrows DEF Grows
  <2>. QED
    BY <1>1, <2>2, StepUntouched DEF Untouched, Successor
<1>. QED
  BY <1>3, <1>4 DEF Heirs

(* Commits seen as steps of the ledger.                                    *)
LEMMA CommitIsLedgerStep ==
    ASSUME IInv, NEW r \in Requests, Step(r), pc[r] = "commit", Install(r),
           UNCHANGED <<op, tok>>
    PROVE  \/ Ledger!Issue
           \/ Ledger!Revoke
           \/ /\ op[r] = "refresh" /\ tok[r] \in Tokens /\ NewID[r] \in Tokens
              /\ Ledger!Trade(tok[r], NewID[r])
<1>. USE DEF Ledger!Exists
<1>1. /\ TypeOK /\ RequestInv(r) /\ NewID[r] \in Tokens
      /\ table \in [Tokens -> Row \cup {NoRow}]
      /\ ~Exists(NewID[r])
  BY NewIDAssumption DEF IInv, TypeOK, RequestInv, FreshID
<1>h. op[r] # "refresh" => UNCHANGED Heirs
  BY HeirsStep DEF Successor
<1>2. CASE op[r] = "login"
  <2>. DEFINE row == pend[r][NewID[r]]
  <2>1. /\ \A s \in Tokens : Holds(r, s) <=> s = NewID[r]
        /\ ~row.revoked
    BY <1>1, <1>2 DEF RequestInv, AtCommit, RevokingAll
  <2>2. row \in Row
    BY <1>1, <2>1 DEF TypeOK, Holds
  <2>3. row = [user |-> row.user, expires |-> row.expires, revoked |-> FALSE]
        /\ row.user \in Users /\ row.expires \in 0..(MaxTime + RefreshTTL)
    BY <2>1, <2>2 DEF Row, Expiries
  <2>4. table' = [table EXCEPT ![NewID[r]] = row]
    <3>1. \A s \in Tokens :
             (IF pend[r][s] # NoRow THEN pend[r][s] ELSE table[s])
                = (IF s = NewID[r] THEN row ELSE table[s])
      BY <1>1, <2>1 DEF Holds
    <3>2. table' = [s \in Tokens |-> IF s = NewID[r] THEN row ELSE table[s]]
      BY <3>1 DEF Install
    <3>. HIDE DEF row
    <3>. QED
      BY <1>1, <3>2
  <2>. HIDE DEF row
  <2>5. Ledger!Issue
    <3>1. row \in Ledger!Fresh
      <4>1. \A u \in Users, e \in 0..(MaxTime + RefreshTTL) :
               [user |-> u, expires |-> e, revoked |-> FALSE] \in Ledger!Fresh
        BY DEF Ledger!Fresh
      <4>. QED
        BY <2>3, <4>1
    <3>2. table'[NewID[r]] = row
      BY <1>1, <2>4
    <3>. QED
      BY <1>1, <1>2, <1>h, <2>4, <3>1, <3>2 DEF Ledger!Issue, Exists
  <2>. QED
    BY <2>5
<1>3. CASE op[r] = "refresh"
  <2>1. /\ tok[r] \in Tokens /\ Exists(tok[r]) /\ tok[r] # NewID[r]
        /\ \A s \in Tokens : Holds(r, s) <=> s \in {tok[r], NewID[r]}
        /\ pend[r][tok[r]] = Revoked(table[tok[r]])
        /\ pend[r][NewID[r]] = Rotated(table[tok[r]])
    BY <1>1, <1>3 DEF RequestInv, AtCommit, RevokingAll
  <2>2. table' = [table EXCEPT ![tok[r]] = Revoked(table[tok[r]]),
                               ![NewID[r]] = Rotated(table[tok[r]])]
    BY <1>1, <2>1 DEF Install, Holds
  <2>3. Heirs' = Heirs \cup {<<tok[r], NewID[r]>>}
    <3>1. Exists(NewID[r])'
      BY <1>1, <2>1 DEF Install, Holds, Exists
    <3>. QED
      BY <1>3, <3>1, HeirsStep DEF Successor
  <2>4. Ledger!Trade(tok[r], NewID[r])
    BY <1>1, <2>1, <2>2, <2>3 DEF Ledger!Trade, Exists, Revoked, Rotated
  <2>. QED
    BY <1>1, <1>3, <2>1, <2>4
<1>4. CASE op[r] \in RevokingAll \cup {"revokeSession"}
  <2>. DEFINE S == {s \in Tokens : Holds(r, s)}
  <2>1. \A s \in S : Exists(s) /\ pend[r][s] = Revoked(table[s])
    BY <1>1, <1>4 DEF RequestInv, AtCommit, RevokesOnly, RevokingAll
  <2>2. table' = [s \in Tokens |-> IF s \in S THEN [table[s] EXCEPT !.revoked = TRUE]
                                             ELSE table[s]]
    BY <2>1 DEF Install, Holds, Revoked
  <2>. DEFINE changed == {s \in Tokens : Exists(s) /\ table'[s] # table[s]}
  <2>3. table' = [s \in Tokens |-> IF s \in changed THEN [table[s] EXCEPT !.revoked = TRUE]
                                                   ELSE table[s]]
    BY <2>1, <2>2
  <2>. HIDE DEF S
  <2>4. Ledger!Revoke
    BY <1>4, <1>h, <2>3 DEF Ledger!Revoke, Exists, RevokingAll
  <2>. QED
    BY <2>4
<1>. QED
  BY <1>1, <1>2, <1>3, <1>4 DEF RequestInv, AtCommit, RevokingAll

(* The table, under any number of overlapping requests, behaves as the     *)
(* ledger in which a token may be traded even after it was revoked: every  *)
(* commit is a single login, trade or revocation, and nothing else ever    *)
(* changes it (RunInTransaction, SaveRefreshTokens).                       *)
THEOREM ImplementsLedger == Spec => LedgerStale
<1>. DEFINE Simulated == [Ledger!NextSpendStale]_<<table, Heirs>>
<1>1. Init => Ledger!LedgerInit
  <2>. SUFFICES ASSUME Init PROVE Ledger!LedgerInit
    OBVIOUS
  <2>1. Heirs = {}
    BY DEF Init, Heirs, Successor
  <2>. QED
    BY <2>1, TypeInit DEF TypeOK, Ledger!LedgerInit, Ledger!Row, Row, Expiries
<1>2. IInv /\ [Next]_vars => Simulated
  <2>. SUFFICES ASSUME IInv, [Next]_vars PROVE Simulated
    OBVIOUS
  <2>1. CASE Tick \/ UNCHANGED vars
    BY <2>1 DEF Tick, vars, arguments, Heirs, Successor, Exists
  <2>2. ASSUME NEW r \in Requests, Step(r)
        PROVE  Simulated
    <3>1. CASE UNCHANGED table
      <4>1. pc[r] # "done"
        BY <2>2, StepNotDone
      <4>2. ~Successor(r, NewID[r])'
        BY <3>1, <4>1 DEF IInv, RequestInv, FreshID, Successor, Exists
      <4>. QED
        BY <2>2, <3>1, <4>2, HeirsStep
    <3>2. CASE pc[r] = "commit" /\ Install(r)
                 /\ (Finish(r, Answer(r)) \/ Finish(r, "error"))
      BY <2>2, <3>2, CommitIsLedgerStep DEF Finish, arguments, Ledger!NextSpendStale
    <3>. QED
      BY <2>2, <3>1, <3>2, StepTable
  <2>. QED
    BY <2>1, <2>2 DEF Next, Finished
<1>. QED
  BY <1>1, <1>2, Invariance, PTL DEF Spec, LedgerStale, Ledger!SpecSpendStale

-----------------------------------------------------------------------------
(* Without overlap: nobody else is at work.                                *)

(* Only a request that is in flight afterwards, or was before, has moved.  *)
LEMMA StepInFlight ==
    ASSUME TypeOK, NEW r \in Requests, Step(r)
    PROVE  \/ pc[r] \in InTx
           \/ pc[r] = "idle" /\ pc'[r] \in InTx /\ UNCHANGED table
<1>1. CASE Start(r)
  BY <1>1 DEF TypeOK, Start, StartLogin, StartClone, StartRefresh, StartRevokeSession,
              StartRevokeChain, Begin, InTx
<1>2. CASE Proceed(r)
  BY <1>2 DEF Proceed, Issue, Lookup, LookupUnknown, LookupExpired, LookupValid,
              LookupReused, Rotate, Find, FindUnknown, FindForeign, FindOwn,
              ListActive, SaveRevoked, Commit, Rollback, InTx
<1>3. CASE Fail(r) \/ CommitUnseen(r) \/ DeadlockVictim(r)
  BY <1>3 DEF Fail, CommitUnseen, DeadlockVictim, Deadlocked, WaitsFor, Wants, InTx
<1>. QED
  BY <1>1, <1>2, <1>3 DEF Step

(* So a step that leaves requests alone finds everybody else out of work.  *)
LEMMA OthersRest ==
    ASSUME TypeOK, Alone, Alone', NEW r \in Requests, Step(r),
           NEW q \in Requests \ {r}
    PROVE  pc[q] \notin InTx /\ pc'[q] = pc[q]
<1>1. pc'[q] = pc[q]
  BY StepUntouched DEF Untouched
<1>. QED
  BY <1>1, StepInFlight DEF Alone, InFlight

-----------------------------------------------------------------------------
(* What a request in flight has read is still there.                       *)

(* Out of work, a request claims nothing of the table.                     *)
LEMMA RestingLone ==
    ASSUME NEW q \in Requests, pc[q] \notin InTx
    PROVE  LoneRequest(q)
BY DEF LoneRequest, InTx

(* Nothing but a commit writes, so what was read stays as it was.          *)
LEMMA StepLone ==
    ASSUME TypeOK, NEW r \in Requests, RequestInv(r), LoneRequest(r), Step(r)
    PROVE  LoneRequest(r)'
<1>. USE DEF TypeOK, arguments, locals
<1>1. CASE Start(r)
  BY <1>1 DEF Start, StartLogin, StartClone, StartRefresh, StartRevokeSession,
              StartRevokeChain,
              Begin, LoneRequest
<1>2. CASE Issue(r)
  <2>1. pc'[r] = "commit" /\ op'[r] = "login"
    BY <1>2 DEF Issue, Goto, RequestInv, AtWork
  <2>. QED
    BY <2>1 DEF LoneRequest, RevokingAll
<1>3. CASE LookupUnknown(r) \/ LookupExpired(r) \/ LookupReused(r)
           \/ FindUnknown(r) \/ FindForeign(r)
  <2>1. pc'[r] \in {"rollback", "list"}
    BY <1>3 DEF LookupUnknown, LookupExpired, LookupReused, FindUnknown, FindForeign,
                Refuse, Goto
  <2>. QED
    BY <2>1 DEF LoneRequest
<1>4. CASE LookupValid(r)
  BY <1>4 DEF LookupValid, Goto, IsValid, LoneRequest
<1>5. CASE Rotate(r)
  <2>1. pc[r] = "rotate" /\ pc'[r] = "commit" /\ op'[r] = "refresh"
        /\ tok'[r] = tok[r] /\ UNCHANGED table
    BY <1>5 DEF Rotate, Goto, RequestInv, AtWork
  <2>. QED
    BY <2>1 DEF LoneRequest, RevokingAll
<1>6. CASE FindOwn(r)
  <2>1. pc'[r] = "commit" /\ op'[r] = "revokeSession"
    BY <1>6 DEF FindOwn, Goto, RequestInv, AtWork
  <2>. QED
    BY <2>1 DEF LoneRequest, RevokingAll
<1>7. CASE ListActive(r)
  <2>1. /\ pc'[r] \in {"save", "rollback", "commit"} /\ UNCHANGED table
        /\ op'[r] = op[r] /\ \A s \in listed'[r] : ~table[s].revoked
        /\ pc'[r] = "commit" => op[r] # "refresh"
    BY <1>7 DEF ListActive, Goto, AfterRevokeAll, IsValid
  <2>. QED
    BY <2>1 DEF LoneRequest
<1>8. CASE SaveRevoked(r)
  <2>1. /\ pc[r] = "save" /\ pc'[r] \in {"save", "rollback", "commit"}
        /\ UNCHANGED <<table, op, listed>>
        /\ pc'[r] = "commit" => op[r] # "refresh"
    BY <1>8 DEF SaveRevoked, Goto, AfterRevokeAll
  <2>. QED
    BY <2>1 DEF LoneRequest
<1>9. CASE Commit(r) \/ Rollback(r) \/ Fail(r) \/ CommitUnseen(r) \/ DeadlockVictim(r)
  <2>1. pc'[r] = "done"
    BY <1>9 DEF Commit, Rollback, Fail, CommitUnseen, DeadlockVictim, Finish
  <2>. QED
    BY <2>1 DEF LoneRequest
<1>. QED
  BY <1>1, <1>2, <1>3, <1>4, <1>5, <1>6, <1>7, <1>8, <1>9 DEF Step, Proceed, Lookup,
                                                              Find

-----------------------------------------------------------------------------
(* What was traded, and what was listed to be revoked.                     *)

(* A request whose successor appears in this step has found its token live *)
(* when it committed.                                                      *)
LEMMA NewHeir ==
    ASSUME IInv, NEW r \in Requests, LoneRequest(r), Step(r), Successor(r, NewID[r])'
    PROVE  /\ op[r] = "refresh" /\ tok'[r] = tok[r] /\ tok[r] \in Tokens
           /\ Exists(tok[r]) /\ ~table[tok[r]].revoked
<1>1. TypeOK /\ RequestInv(r) /\ pc[r] # "done" /\ ~Exists(NewID[r])
  BY StepNotDone DEF IInv, RequestInv, FreshID
<1>2. /\ pc[r] = "commit"
      /\ Finish(r, Answer(r)) \/ Finish(r, "error")
  BY <1>1, StepTable DEF Successor, Exists
<1>3. op'[r] = op[r] /\ tok'[r] = tok[r] /\ op[r] = "refresh"
  BY <1>2 DEF Finish, arguments, Successor
<1>. QED
  BY <1>1, <1>2, <1>3 DEF RequestInv, AtCommit, RevokingAll, LoneRequest

(* The successors of others are those there were.                          *)
LEMMA OldHeir ==
    ASSUME IInv, NEW r \in Requests, Step(r), NEW q \in Requests \ {r},
           Successor(q, NewID[q])'
    PROVE  /\ Successor(q, NewID[q]) /\ tok'[q] = tok[q] /\ tok[q] \in Tokens
           /\ Exists(tok[q]) /\ table[tok[q]].revoked
<1>1. TypeOK /\ RequestInv(r) /\ RequestInv(q)
  BY DEF IInv
<1>2. Successor(q, NewID[q]) /\ tok'[q] = tok[q]
  BY <1>1, StepUntouched, StepGrows DEF Untouched, Successor
<1>. QED
  BY <1>1, <1>2 DEF RequestInv, Afterwards, SameGrant

(* No token is traded twice.                                               *)
LEMMA SpentOnceStep ==
    ASSUME IInv, TokenSpentOnce, NEW r \in Requests, LoneRequest(r), Step(r)
    PROVE  TokenSpentOnce'
<1>. SUFFICES ASSUME NEW p \in Requests, NEW q \in Requests,
                     Successor(p, NewID[p])', Successor(q, NewID[q])', tok'[p] = tok'[q]
              PROVE  p = q
  BY DEF TokenSpentOnce
<1>1. CASE p # r /\ q # r
  BY <1>1, OldHeir DEF TokenSpentOnce
<1>2. CASE p = r /\ q # r
  BY <1>2, NewHeir, OldHeir
<1>3. CASE p # r /\ q = r
  BY <1>3, NewHeir, OldHeir
<1>. QED
  BY <1>1, <1>2, <1>3

(* A request that answers in this step that it has revoked all sessions    *)
(* listed live ones, which were not traded before.                         *)
LEMMA NewAnswer ==
    ASSUME IInv, NEW r \in Requests, LoneRequest(r), Step(r), ToldAllRevoked(r)'
    PROVE  /\ op[r] \in RevokingAll /\ listed'[r] = listed[r]
           /\ \A s \in listed[r] : Exists(s) /\ ~table[s].revoked
<1>1. TypeOK /\ RequestInv(r) /\ pc[r] # "done"
  BY StepNotDone DEF IInv
<1>2. pc[r] = "commit" /\ op'[r] = op[r] /\ listed'[r] = listed[r]
  <2>1. CASE Commit(r)
    BY <2>1 DEF Commit, Finish, arguments
  <2>2. CASE Rollback(r) \/ Fail(r) \/ CommitUnseen(r) \/ DeadlockVictim(r)
    <3>1. verdict'[r] \in Refusals \cup {"error"}
      BY <1>1, <2>2 DEF Rollback, Fail, CommitUnseen, DeadlockVictim, Finish, TypeOK,
                        RequestInv, AtWork
    <3>. QED
      BY <3>1 DEF ToldAllRevoked, Answered, Answer, Refusals
  <2>3. ASSUME Start(r) \/ Issue(r) \/ Lookup(r) \/ Rotate(r) \/ Find(r) \/ ListActive(r)
               \/ SaveRevoked(r)
        PROVE  pc'[r] # "done"
    BY <1>1, <2>3 DEF TypeOK, Start, StartLogin, StartClone, StartRefresh,
                      StartRevokeSession,
         StartRevokeChain, Begin, Issue, Lookup, LookupUnknown, LookupExpired,
         LookupValid, LookupReused, Rotate, Find, FindUnknown, FindForeign, FindOwn,
         ListActive, SaveRevoked, Refuse, Goto, AfterRevokeAll
  <2>. QED
    BY <2>1, <2>2, <2>3 DEF Step, Proceed, ToldAllRevoked, Answered
<1>. QED
  BY <1>1, <1>2 DEF ToldAllRevoked, Answered, RevokingAll, RequestInv, AtCommit,
                    LoneRequest

(* No session that was listed to be revoked is traded before or after.     *)
LEMMA ListedNotTradedStep ==
    ASSUME IInv, HeirsApart, NEW r \in Requests, LoneRequest(r), Step(r),
           NEW p \in Requests, NEW q \in Requests,
           ToldAllRevoked(p)', Successor(q, NewID[q])'
    PROVE  tok'[q] \notin listed'[p]
<1>1. CASE p = r /\ q # r
  BY <1>1, NewAnswer, OldHeir
<1>2. CASE p = r /\ q = r
  BY <1>2, NewAnswer, NewHeir DEF RevokingAll
<1>3. CASE p # r
  <2>1. TypeOK /\ RequestInv(p)
    BY DEF IInv
  <2>2. ToldAllRevoked(p) /\ listed'[p] = listed[p]
    BY <1>3, <2>1, StepUntouched DEF Untouched, ToldAllRevoked, Answered, Answer
  <2>3. CASE q # r
    BY <2>2, <2>3, OldHeir DEF HeirsApart
  <2>4. CASE q = r
    <3>1. \A s \in listed[p] : table[s].revoked
      BY <2>1, <2>2 DEF RequestInv, Afterwards
    <3>. QED
      BY <2>2, <2>4, <3>1, NewHeir
  <2>. QED
    BY <2>3, <2>4
<1>. QED
  BY <1>1, <1>2, <1>3

-----------------------------------------------------------------------------
(* The inductive invariant.                                                *)

(* It holds at first, when nobody is at work.                              *)
LEMMA LoneInit == AloneInit => LoneInv
<1>. SUFFICES ASSUME AloneInit PROVE LoneInv
  OBVIOUS
<1>1. IInv /\ \A r \in Requests : pc[r] = "idle" /\ op[r] = "none"
  BY InvInit DEF AloneInit, Init
<1>2. Alone /\ \A r \in Requests : LoneRequest(r)
  BY <1>1 DEF Alone, InFlight, InTx, LoneRequest
<1>3. HeirsApart
  BY <1>1 DEF HeirsApart, TokenSpentOnce, Answered, Successor
<1>. QED
  BY <1>1, <1>2, <1>3 DEF LoneInv

(* Every step keeps it.                                                    *)
LEMMA LoneNext == LoneInv /\ [AloneNext]_<<vars, alone>> => LoneInv'
<1>. SUFFICES ASSUME LoneInv, [AloneNext]_<<vars, alone>> PROVE LoneInv'
  OBVIOUS
<1>1. IInv /\ [Next]_vars /\ IInv'
  BY InvNext DEF LoneInv, AloneNext
<1>2. ASSUME alone'
      PROVE  /\ alone /\ Alone /\ HeirsApart /\ \A r \in Requests : LoneRequest(r)
             /\ Alone'
  BY <1>2 DEF LoneInv, AloneNext, vars, Alone, InFlight
<1>3. ASSUME alone'
      PROVE  (\A r \in Requests : LoneRequest(r)') /\ HeirsApart'
  <2>1. TypeOK /\ \A r \in Requests : RequestInv(r)
    BY <1>1 DEF IInv
  <2>2. CASE Tick \/ UNCHANGED vars
    <3>1. UNCHANGED <<table, pc, op, tok, listed, verdict>>
      BY <2>2 DEF Tick, vars, arguments, locals
    <3>. QED
      BY <1>2, <1>3, <3>1
         DEF LoneRequest, HeirsApart, TokenSpentOnce, Answered, Answer,
             ToldAllRevoked, Successor, Exists
  <2>3. ASSUME NEW r \in Requests, Step(r)
        PROVE  (\A q \in Requests : LoneRequest(q)') /\ HeirsApart'
    <3>1. LoneRequest(r)'
      BY <1>2, <1>3, <2>1, <2>3, StepLone
    <3>2. ASSUME NEW q \in Requests \ {r}
          PROVE  LoneRequest(q)'
      <4>1. pc'[q] \notin InTx
        BY <1>2, <1>3, <2>1, <2>3, OthersRest
      <4>. QED
        BY <4>1 DEF LoneRequest, InTx
    <3>3. HeirsApart'
      BY <1>1, <1>2, <1>3, <2>3, SpentOnceStep, ListedNotTradedStep DEF HeirsApart
    <3>. QED
      BY <3>1, <3>2, <3>3
  <2>. QED
    BY <1>1, <2>2, <2>3 DEF Next, Finished
<1>. QED
  BY <1>1, <1>2, <1>3 DEF LoneInv

(* The inductive invariant holds in every reachable state.                 *)
THEOREM LoneInvariance == AloneSpec => []LoneInv
BY LoneInit, LoneNext, PTL DEF AloneSpec

-----------------------------------------------------------------------------
(* What follows from it.                                                   *)

(* Until two requests have overlapped, revoking a chain ends every session *)
(* descended from the ones it listed (RevokeAllUserSessions.Execute).      *)
THEOREM LoneChainCorrect == AloneSpec => []LoneChainLeavesNoHeir
<1>1. LoneInv => LoneChainLeavesNoHeir
  BY DEF LoneInv, HeirsApart, LoneChainLeavesNoHeir, ChainLeavesNoHeir
<1>. QED
  BY <1>1, LoneInvariance, PTL

(* Until two requests have overlapped, no token is traded twice            *)
(* (RefreshAccessToken.validateRefreshToken).                              *)
THEOREM LoneSpentOnce == AloneSpec => [](alone => TokenSpentOnce)
<1>1. LoneInv => (alone => TokenSpentOnce)
  BY DEF LoneInv, HeirsApart
<1>. QED
  BY <1>1, LoneInvariance, PTL

(* Until two requests have overlapped, a session whose logout was answered *)
(* 204 is not refreshed again (RevokeSession.Execute).                     *)
THEOREM LoneLogoutCorrect == AloneSpec => LoneLogoutEndsSession
<1>1. LoneInv /\ [AloneNext]_<<vars, alone>> => [alone' => LogoutObeyed]_<<vars, alone>>
  <2>. SUFFICES ASSUME LoneInv, [AloneNext]_<<vars, alone>>, alone', ~UNCHANGED <<vars, alone>>,
                       NEW q \in Requests, pc[q] = "commit", op[q] = "refresh",
                       NEW r \in Requests, Answered(r, "revokeSession"), tok[r] = tok[q]
                PROVE  FALSE
    BY DEF LogoutObeyed
  <2>1. alone
    BY DEF AloneNext
  <2>2. RequestInv(r) /\ RequestInv(q) /\ LoneRequest(q)
    BY <2>1 DEF LoneInv, IInv
  <2>. QED
    BY <2>2 DEF RequestInv, Afterwards, LoneRequest
<1>. QED
  BY <1>1, LoneInvariance, PTL DEF AloneSpec, LoneLogoutEndsSession

(* Until two requests have overlapped, the service implements the ledger   *)
(* in which only live tokens are traded (SessionLedger).                   *)
THEOREM LoneLedgerCorrect == AloneSpec => LoneLedger
<1>1. LoneInv /\ [AloneNext]_<<vars, alone>> => [alone' => TradedLive]_<<vars, alone>>
  <2>. SUFFICES ASSUME LoneInv, AloneNext, alone' PROVE TradedLive
    OBVIOUS
  <2>1. /\ IInv /\ TypeOK /\ alone /\ \A r \in Requests : RequestInv(r) /\ LoneRequest(r)
    BY DEF LoneInv, AloneNext, IInv
  <2>2. CASE Tick \/ UNCHANGED vars
    BY <2>2 DEF Tick, vars, arguments, Heirs, Successor, Exists, TradedLive
  <2>3. ASSUME NEW r \in Requests, Step(r)
        PROVE  TradedLive
    <3>1. CASE UNCHANGED table
      <4>1. pc[r] # "done"
        BY <2>3, StepNotDone
      <4>2. ~Successor(r, NewID[r])'
        BY <2>1, <3>1, <4>1 DEF RequestInv, FreshID, Successor, Exists
      <4>. QED
        BY <2>1, <2>3, <3>1, <4>2, HeirsStep DEF TradedLive
    <3>2. CASE pc[r] = "commit" /\ Install(r)
                 /\ (Finish(r, Answer(r)) \/ Finish(r, "error"))
      <4>1. \/ Ledger!Issue
            \/ Ledger!Revoke
            \/ /\ op[r] = "refresh" /\ tok[r] \in Tokens /\ NewID[r] \in Tokens
               /\ Ledger!Trade(tok[r], NewID[r])
        BY <2>1, <2>3, <3>2, CommitIsLedgerStep DEF Finish, arguments
      <4>2. op[r] = "refresh" => ~table[tok[r]].revoked
        BY <2>1, <3>2 DEF LoneRequest
      <4>. QED
        BY <4>1, <4>2
           DEF TradedLive, Ledger!NextSpendOnce, Ledger!Live, Ledger!Exists,
               Ledger!Trade
    <3>. QED
      BY <2>3, <3>1, <3>2, StepTable
  <2>. QED
    BY <2>2, <2>3 DEF AloneNext, Next, Finished
<1>. QED
  BY <1>1, LoneInvariance, PTL DEF AloneSpec, LoneLedger
=============================================================================
