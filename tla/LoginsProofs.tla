---------------------------- MODULE LoginsProofs ----------------------------
(***************************************************************************)
(* What Logins guarantees for any number of credentials, users and         *)
(* overlapping logins, with proofs.                                        *)
(***************************************************************************)
EXTENDS Logins, TLAPS

-----------------------------------------------------------------------------
(* What makes these properties inductive.                                  *)

(* A request holds the row of its credential, or is about to write it.     *)
Writing  == {"save"} \cup Saved
InLogin  == {"lookup"} \cup Writing

(* The counter n of c was stored by earlier traffic or by a login.         *)
Accepted(c, n) ==
    \/ n = InitCount[c]
    \/ \E q \in Requests : LoggedIn(q) /\ CredOf(q) = c /\ given[q].count = n

(* CloneHasCause of a request.                                             *)
Cause(r) ==
    \/ given[r].count <= InitCount[CredOf(r)] /\ InitCount[CredOf(r)] # 0
    \/ \E q \in Requests \ {r} :
          /\ LoggedIn(q) /\ CredOf(q) = CredOf(r)
          /\ given[q].count >= given[r].count /\ given[q].count # 0

(* A request was given an assertion, has no session before its commit, no  *)
(* answer before its end, and revokes on the path that revokes.            *)
Begun ==
    \A r \in Requests :
        /\ pc[r] # "idle" => given[r] \in Assertions
        /\ pc[r] # "done" => sessions[r] = "none"
        /\ pc[r] \notin {"done", "rollback"} => verdict[r] = "none"
        /\ pc[r] = "rollback" => verdict[r] = "revoked"
        /\ pc[r] \in {"list", "revoke"} => Revoking(r)
        /\ pc[r] = "issue" => ~Revoking(r)

(* The row of a credential has one writer.                                 *)
OneWriter ==
    \A r, q \in Requests :
        pc[r] \in Saved /\ pc[q] \in Saved /\ CredOf(r) = CredOf(q) => r = q

(* What the library made of the counter.                                   *)
Judged ==
    \A r \in Requests : pc[r] \in InLogin =>
        IF result[r].warning
        THEN /\ Accepted(CredOf(r), result[r].count)
             /\ given[r].count <= result[r].count /\ result[r].count # 0
        ELSE result[r].count = given[r].count

(* What a request is about to store.                                       *)
Carried ==
    \A r \in Requests : pc[r] \in Writing =>
        IF cred[r].revoked
        THEN Accepted(CredOf(r), cred[r].count) /\ Cause(r)
        ELSE cred[r].count = given[r].count

(* Every counter stored was accepted from somebody, and every clone has a  *)
(* cause.                                                                  *)
Counted == \A c \in Creds : Accepted(c, credentials[c].count)

(* A session that is live and not on the list of a clone's request was     *)
(* opened since, with another credential.                                  *)
Listed ==
    \A r \in Requests :
        /\ \A s \in listed[r] : LoggedIn(s)
        /\ pc[r] \in {"revoke", "commit"} /\ Revoking(r) =>
              \A s \in Sessions :
                  sessions[s] = "live" /\ OwnerOf(s) = Owner[CredOf(r)] =>
                      s \in listed[r] \/ (s \in Requests /\ CredOf(s) # CredOf(r))

(* Where no two requests with a credential overlap, what a request knows   *)
(* of its row is still true.                                               *)
Alone ==
    \A r, q \in Requests :
        r \in InFlight /\ q \in InFlight /\ CredOf(r) = CredOf(q) =>
            r = q \/ met[CredOf(r)]

LoneJudged ==
    \A r \in Requests :
        pc[r] = "lookup" /\ ~met[CredOf(r)] /\ ~result[r].warning =>
            \/ given[r].count > credentials[CredOf(r)].count
            \/ given[r].count = 0

LoneCarried ==
    \A r \in Requests : pc[r] \in Writing /\ ~met[CredOf(r)] =>
        /\ ~credentials[CredOf(r)].revoked
        /\ cred[r].count >= credentials[CredOf(r)].count
        /\ ~cred[r].revoked =>
              given[r].count > credentials[CredOf(r)].count \/ given[r].count = 0

LoneCounted ==
    \A r \in Requests : LoggedIn(r) /\ ~met[CredOf(r)] =>
        given[r].count <= credentials[CredOf(r)].count

IInv ==
    /\ TypeOK /\ Begun /\ OneWriter
    /\ Judged /\ Carried /\ Counted /\ CloneHasCause
    /\ Listed /\ CloneLeavesNoSession
    /\ Alone /\ LoneJudged /\ LoneCarried /\ LoneCounted /\ LoneCountOpensOnce

-----------------------------------------------------------------------------
(* The steps.                                                              *)

(* A step that ends a request and leaves the tables as they are.           *)
Aborts(r) ==
    /\ pc[r] \in Working
    /\ \E v \in {"invalid", "error", verdict[r]} :
          /\ pc[r] \notin {"rollback"} => v \in {"invalid", "error"}
          /\ Finish(r, v)
    /\ UNCHANGED tables

(* A commit, whether the reply to it arrives or not.                       *)
Commits(r) ==
    /\ pc[r] = "commit"
    /\ Install(r)
    /\ \E v \in {"ok", "clone", "error"} :
          /\ v = "ok" => ~Revoking(r)
          /\ v = "clone" => Revoking(r)
          /\ Finish(r, v)

(* A lookup that goes on to store the credential.                          *)
Looks(r) == LookupFresh(r) \/ LookupClone(r)

(* A step that only moves its request on.                                  *)
Moves(r) == Save(r) \/ Issue(r) \/ SaveRevoked(r)

(* The steps, by what they change.                                         *)
LEMMA StepKinds ==
    ASSUME NEW r \in Requests, Step(r)
    PROVE  \/ StartLogin(r) \/ Validate(r) \/ LookupRevoked(r) \/ Looks(r)
           \/ Moves(r) \/ ListActive(r) \/ Aborts(r) \/ Commits(r)
<1>1. CASE Reject(r) \/ Fail(r)
  BY <1>1 DEF Reject, Fail, Aborts, Working, InTx
<1>2. CASE Rollback(r)
  BY <1>2 DEF Rollback, Aborts, Working, InTx
<1>3. CASE Commit(r) \/ CommitUnseen(r)
  BY <1>3 DEF Commit, CommitUnseen, Commits
<1>. QED
  BY <1>1, <1>2, <1>3 DEF Step, Proceed, Login, Clone, Looks, Moves

(* A step concerns one request, and the tables change in a commit only.    *)
LEMMA StepFrame ==
    ASSUME TypeOK, NEW r \in Requests, Step(r)
    PROVE  /\ \A q \in Requests \ {r} :
                 /\ pc'[q] = pc[q] /\ given'[q] = given[q] /\ result'[q] = result[q]
                 /\ cred'[q] = cred[q] /\ listed'[q] = listed[q] /\ verdict'[q] = verdict[q]
           /\ pc[r] # "idle" => given'[r] = given[r] /\ met' = met
           /\ pc[r] \in {"idle"} \cup Working
           /\ UNCHANGED tables \/ Commits(r)
           /\ \A c \in Creds : met[c] => met'[c]
<1>1. CASE StartLogin(r)
  BY <1>1 DEF TypeOK, StartLogin, Goto, tables, Working
<1>2. CASE Validate(r) \/ LookupRevoked(r)
  BY <1>2 DEF TypeOK, Validate, LookupRevoked, Goto, tables, Working, InTx
<1>3. CASE Looks(r)
  BY <1>3 DEF TypeOK, Looks, LookupFresh, LookupClone, Lookup, Goto, tables, Working, InTx
<1>4. CASE Moves(r) \/ ListActive(r)
  BY <1>4 DEF TypeOK, Moves, Save, Issue, SaveRevoked, ListActive, Goto, tables, Working, InTx, Saved
<1>5. CASE Aborts(r)
  BY <1>5 DEF TypeOK, Aborts, Finish, Goto, tables
<1>6. CASE Commits(r)
  BY <1>6 DEF TypeOK, Commits, Finish, Goto, Working, InTx, Saved
<1>. QED
  BY <1>1, <1>2, <1>3, <1>4, <1>5, <1>6, StepKinds

(* What a commit writes.                                                   *)
LEMMA CommitWrites ==
    ASSUME TypeOK, Begun, NEW r \in Requests, Commits(r)
    PROVE  /\ CredOf(r) \in Creds
           /\ credentials' \in [Creds -> Credential]
           /\ sessions' \in [Sessions -> {"none", "live", "revoked"}]
           /\ credentials'[CredOf(r)] = cred[r]
           /\ \A c \in Creds \ {CredOf(r)} : credentials'[c] = credentials[c]
           /\ Revoking(r) => \A s \in Sessions :
                 sessions'[s] = IF s \in listed[r] THEN "revoked" ELSE sessions[s]
           /\ ~Revoking(r) => \A s \in Sessions :
                 sessions'[s] = IF s = r THEN "live" ELSE sessions[s]
<1>1. CredOf(r) \in Creds
  BY ConstantsAssumption DEF Commits, Begun, CredOf
<1>. QED
  BY <1>1 DEF TypeOK, Commits, Install, Revoking

(* Requests are told from earlier sessions.                                *)
LEMMA Owners ==
    ASSUME NEW r \in Requests
    PROVE  r \in Sessions /\ r \notin OldSessions /\ OwnerOf(r) = Owner[CredOf(r)]
BY ConstantsAssumption DEF Sessions, OwnerOf

(* Who has logged in stays so, with the assertion it was given; so does    *)
(* what was accepted, and what gives cause to suspect a clone.             *)
LEMMA Monotone ==
    ASSUME TypeOK, Begun, Listed, NEW r \in Requests, Step(r)
    PROVE  /\ \A s \in Sessions : LoggedIn(s) => LoggedIn(s)'
           /\ \A q \in Requests : LoggedIn(q) => given'[q] = given[q]
           /\ \A q \in Requests : pc[q] # "idle" => given'[q] = given[q]
           /\ \A c, n : Accepted(c, n) => Accepted(c, n)'
           /\ \A q \in Requests : pc[q] # "idle" /\ Cause(q) => Cause(q)'
<1>1. \A s \in Sessions : LoggedIn(s) => LoggedIn(s)'
  <2>1. CASE Commits(r)
    BY <2>1, CommitWrites DEF LoggedIn
  <2>2. CASE UNCHANGED tables
    BY <2>2 DEF LoggedIn, tables
  <2>. QED
    BY <2>1, <2>2, StepFrame
<1>2. \A q \in Requests : LoggedIn(q) => pc[q] = "done"
  BY DEF Begun, LoggedIn
<1>3. \A q \in Requests : pc[q] # "idle" => given'[q] = given[q]
  BY StepFrame
<1>4. \A q \in Requests : LoggedIn(q) => LoggedIn(q)' /\ CredOf(q)' = CredOf(q)
                                         /\ given'[q] = given[q]
  BY <1>1, <1>2, <1>3, Owners DEF CredOf
<1>5. \A c, n : Accepted(c, n) => Accepted(c, n)'
  BY <1>4 DEF Accepted
<1>6. ASSUME NEW q \in Requests, pc[q] # "idle", Cause(q)
      PROVE  Cause(q)'
  <2>1. given'[q] = given[q] /\ CredOf(q)' = CredOf(q)
    BY <1>3, <1>6 DEF CredOf
  <2>. QED
    BY <1>4, <1>6, <2>1 DEF Cause
<1>. QED
  BY <1>1, <1>3, <1>4, <1>5, <1>6

-----------------------------------------------------------------------------
(* Types.                                                                  *)

(* The two comparisons keep the types, and never turn a counter back.      *)
LEMMA UpdateCounterFields ==
    ASSUME NEW stored \in Nat, NEW n \in Nat
    PROVE  /\ UpdateCounter(stored, n) \in Result
           /\ UpdateCounter(stored, n).warning =>
                 /\ UpdateCounter(stored, n).count = stored
                 /\ n <= stored /\ stored # 0
           /\ ~UpdateCounter(stored, n).warning =>
                 /\ UpdateCounter(stored, n).count = n
                 /\ n > stored \/ n = 0
<1>. DEFINE warned == n <= stored /\ (n # 0 \/ stored # 0)
<1>1. CASE warned
  <2>1. UpdateCounter(stored, n) = [count |-> stored, warning |-> TRUE]
    BY <1>1 DEF UpdateCounter
  <2>. QED
    BY <1>1, <2>1 DEF Result
<1>2. CASE ~warned
  <2>1. UpdateCounter(stored, n) = [count |-> n, warning |-> FALSE]
    BY <1>2 DEF UpdateCounter
  <2>. QED
    BY <1>2, <2>1 DEF Result
<1>. QED
  BY <1>1, <1>2

(* SetSignCount keeps the stored counter on a regression, and sets it      *)
(* otherwise, to one that is no smaller.                                   *)
LEMMA SetSignCountFields ==
    ASSUME NEW row \in Credential, NEW n \in Nat
    PROVE  /\ SetSignCount(row, n) \in Credential
           /\ SetSignCount(row, n).revoked = row.revoked
           /\ SetSignCount(row, n).count \in {n, row.count}
           /\ Regression(row.count, n) => SetSignCount(row, n).count = row.count
           /\ ~Regression(row.count, n) => SetSignCount(row, n).count = n
           /\ SetSignCount(row, n).count >= row.count
BY DEF SetSignCount, Regression, Credential

(* Revoking sets the flag and leaves the counter.                          *)
LEMMA RevokedFields ==
    ASSUME NEW row \in Credential
    PROVE  /\ Revoked(row) \in Credential
           /\ Revoked(row).count = row.count /\ Revoked(row).revoked = TRUE
BY DEF Revoked, Credential

(* What a request that has begun works on.                                 *)
LEMMA Given ==
    ASSUME TypeOK, Begun, NEW r \in Requests, pc[r] # "idle"
    PROVE  /\ given[r] \in Assertions /\ given[r].count \in Nat
           /\ CredOf(r) \in Creds
           /\ credentials[CredOf(r)] \in Credential
           /\ credentials[CredOf(r)].count \in Nat
           /\ result[r] \in Result /\ result[r].count \in Nat
           /\ cred[r] \in Credential /\ cred[r].count \in Nat
BY ConstantsAssumption DEF TypeOK, Begun, CredOf, Credential, Result

(* The two lookups that succeed.                                           *)
LEMMA LookStores ==
    ASSUME TypeOK, Begun, NEW r \in Requests, Looks(r)
    PROVE  /\ pc[r] = "lookup" /\ pc'[r] = "save"
           /\ ~credentials[CredOf(r)].revoked
           /\ cred'[r] \in Credential
           /\ cred'[r].revoked <=> IsClone(r)
           /\ cred'[r].count = SetSignCount(credentials[CredOf(r)], result[r].count).count
           /\ UNCHANGED <<tables, given, result, listed, verdict, met>>
<1>. DEFINE row == credentials[CredOf(r)]
<1>1. pc[r] = "lookup" /\ ~row.revoked
  BY DEF Looks, LookupClone, LookupFresh
<1>2. row \in Credential /\ SetSignCount(row, result[r].count) \in Credential
      /\ SetSignCount(row, result[r].count).revoked = FALSE
  <2>1. row \in Credential /\ result[r].count \in Nat
    BY <1>1, Given
  <2>2. row.revoked = FALSE
    BY <1>1, <2>1 DEF Credential
  <2>. QED
    BY <2>1, <2>2, SetSignCountFields
<1>3. CASE LookupClone(r)
  <2>1. cred'[r] = Revoked(SetSignCount(row, result[r].count)) /\ pc'[r] = "save"
    BY <1>3 DEF LookupClone, Lookup, Goto, TypeOK
  <2>. QED
    BY <1>1, <1>2, <1>3, <2>1, RevokedFields DEF LookupClone, Lookup
<1>4. CASE LookupFresh(r)
  <2>1. cred'[r] = SetSignCount(row, result[r].count) /\ pc'[r] = "save"
    BY <1>4 DEF LookupFresh, Lookup, Goto, TypeOK
  <2>. QED
    BY <1>1, <1>2, <1>4, <2>1 DEF LookupFresh, Lookup
<1>. QED
  BY <1>3, <1>4 DEF Looks

(* The initial state is typed.                                             *)
LEMMA TypeInit == Init => TypeOK
BY ConstantsAssumption DEF Init, TypeOK, Credential, Result, Verdicts

(* Every step keeps the types.                                             *)
LEMMA TypeStep ==
    ASSUME TypeOK, Begun, NEW r \in Requests, Step(r)
    PROVE  TypeOK'
<1>. USE DEF Working, InTx, Saved, Verdicts
<1>1. CASE StartLogin(r)
  BY <1>1, ConstantsAssumption DEF TypeOK, StartLogin, Goto, tables
<1>2. CASE Validate(r)
  <2>1. UpdateCounter(credentials[CredOf(r)].count, given[r].count) \in Result
    BY <1>2, Given, UpdateCounterFields DEF Validate
  <2>. QED
    BY <1>2, <2>1 DEF TypeOK, Validate, Goto, tables
<1>3. CASE LookupRevoked(r)
  BY <1>3 DEF TypeOK, LookupRevoked, Goto, tables
<1>4. CASE Looks(r)
  <2>1. cred' \in [Requests -> Credential] /\ pc' = [pc EXCEPT ![r] = "save"]
    BY <1>4, LookStores DEF TypeOK, Looks, LookupFresh, LookupClone, Lookup, Goto
  <2>. QED
    BY <1>4, <2>1, LookStores DEF TypeOK, tables
<1>5. CASE Moves(r)
  BY <1>5 DEF TypeOK, Moves, Save, Issue, SaveRevoked, Goto, tables
<1>6. CASE ListActive(r)
  BY <1>6 DEF TypeOK, ListActive, LiveSessions, Goto, tables
<1>7. CASE Aborts(r)
  BY <1>7 DEF TypeOK, Aborts, Finish, Goto, tables
<1>8. CASE Commits(r)
  <2>1. pc' = [pc EXCEPT ![r] = "done"] /\ UNCHANGED <<given, result, cred, listed, met>>
    BY <1>8 DEF Commits, Finish, Goto
  <2>2. verdict' \in [Requests -> Verdicts]
    BY <1>8 DEF TypeOK, Commits, Finish
  <2>. QED
    BY <1>8, <2>1, <2>2, CommitWrites DEF TypeOK
<1>. QED
  BY <1>1, <1>2, <1>3, <1>4, <1>5, <1>6, <1>7, <1>8, StepKinds

-----------------------------------------------------------------------------
(* What a request has done so far.                                         *)

(* Begun holds at first and ever after.                                    *)
LEMMA BegunStep ==
    ASSUME TypeOK, Begun, Listed, NEW r \in Requests, Step(r)
    PROVE  Begun'
<1>. USE DEF Working, InTx, Saved
<1>1. ASSUME NEW q \in Requests \ {r}
      PROVE  /\ pc'[q] # "idle" => given'[q] \in Assertions
             /\ pc'[q] # "done" => sessions'[q] = "none"
             /\ pc'[q] \notin {"done", "rollback"} => verdict'[q] = "none"
             /\ pc'[q] = "rollback" => verdict'[q] = "revoked"
             /\ pc'[q] \in {"list", "revoke"} => Revoking(q)'
             /\ pc'[q] = "issue" => ~Revoking(q)'
  <2>1. pc'[q] # "done" => sessions'[q] = "none"
    <3>1. CASE UNCHANGED tables
      BY <3>1, StepFrame DEF Begun, tables
    <3>2. CASE Commits(r)
      <4>1. pc[q] # "done" => sessions[q] = "none" /\ q \notin listed[r]
        BY DEF Begun, Listed, LoggedIn
      <4>. QED
        BY <3>2, <4>1, CommitWrites, StepFrame, Owners
    <3>. QED
      BY <3>1, <3>2, StepFrame
  <2>. QED
    BY <2>1, StepFrame DEF Begun, Revoking
<1>2. /\ pc'[r] # "idle" => given'[r] \in Assertions
      /\ pc'[r] # "done" => sessions'[r] = "none"
      /\ pc'[r] \notin {"done", "rollback"} => verdict'[r] = "none"
      /\ pc'[r] = "rollback" => verdict'[r] = "revoked"
      /\ pc'[r] \in {"list", "revoke"} => Revoking(r)'
      /\ pc'[r] = "issue" => ~Revoking(r)'
  <2>1. CASE StartLogin(r)
    BY <2>1 DEF TypeOK, Begun, StartLogin, Goto, tables
  <2>2. CASE Validate(r)
    BY <2>2 DEF TypeOK, Begun, Validate, Goto, tables
  <2>3. CASE LookupRevoked(r)
    BY <2>3 DEF TypeOK, Begun, LookupRevoked, Goto, tables
  <2>4. CASE Looks(r)
    BY <2>4, LookStores DEF TypeOK, Begun, tables
  <2>5. CASE Moves(r)
    BY <2>5 DEF TypeOK, Begun, Moves, Save, Issue, SaveRevoked, Goto, tables, Revoking
  <2>6. CASE ListActive(r)
    BY <2>6 DEF TypeOK, Begun, ListActive, Goto, tables, Revoking
  <2>7. CASE Aborts(r) \/ Commits(r)
    BY <2>7 DEF TypeOK, Begun, Aborts, Commits, Finish, Goto
  <2>. QED
    BY <2>1, <2>2, <2>3, <2>4, <2>5, <2>6, <2>7, StepKinds
<1>. QED
  BY <1>1, <1>2 DEF Begun, Revoking

(* One writer for each row.                                                *)
LEMMA OneWriterStep ==
    ASSUME TypeOK, OneWriter, Begun, NEW r \in Requests, Step(r)
    PROVE  OneWriter'
<1>1. ASSUME pc'[r] \in Saved
      PROVE  pc[r] # "idle" /\ (pc[r] \in Saved \/ Free(r, CredOf(r)))
  <2>1. CASE Moves(r)
    BY <1>1, <2>1 DEF Moves, Save, Issue, SaveRevoked, Saved
  <2>2. CASE ListActive(r)
    BY <2>2 DEF ListActive, Saved
  <2>3. CASE StartLogin(r) \/ Validate(r) \/ LookupRevoked(r)
    BY <1>1, <2>3 DEF TypeOK, StartLogin, Validate, LookupRevoked, Goto, Saved
  <2>4. CASE Looks(r)
    BY <1>1, <2>4, LookStores DEF Saved
  <2>5. CASE Aborts(r) \/ Commits(r)
    BY <1>1, <2>5 DEF TypeOK, Aborts, Commits, Finish, Goto, Saved
  <2>. QED
    BY <2>1, <2>2, <2>3, <2>4, <2>5, StepKinds
<1>2. pc'[r] \in Saved => CredOf(r)' = CredOf(r)
  BY <1>1, StepFrame DEF CredOf
<1>3. \A q \in Requests \ {r} :
         pc'[q] \in Saved => pc[q] \in Saved /\ CredOf(q)' = CredOf(q)
  BY StepFrame DEF CredOf
<1>. QED
  BY <1>1, <1>2, <1>3 DEF OneWriter, Free

-----------------------------------------------------------------------------
(* Where counters come from.                                               *)

(* A request that stays in a phase keeps what it knows.                    *)
LEMMA SamePhase ==
    ASSUME TypeOK, Begun, NEW r \in Requests, Step(r)
    PROVE  /\ pc'[r] \in InLogin =>
                 Validate(r) \/ (pc[r] \in InLogin /\ result'[r] = result[r])
           /\ pc'[r] \in Writing =>
                 Looks(r) \/ (pc[r] \in Writing /\ cred'[r] = cred[r])
           /\ pc'[r] = "lookup" => Validate(r)
           /\ pc'[r] \in Working => pc[r] \in Working \/ StartLogin(r)
<1>. USE DEF InLogin, Writing, Saved, Working, InTx
<1>1. CASE StartLogin(r)
  BY <1>1 DEF TypeOK, StartLogin, Goto
<1>2. CASE Validate(r) \/ LookupRevoked(r)
  BY <1>2 DEF TypeOK, Validate, LookupRevoked, Goto
<1>3. CASE Looks(r)
  BY <1>3, LookStores
<1>4. CASE Moves(r) \/ ListActive(r)
  BY <1>4 DEF TypeOK, Moves, Save, Issue, SaveRevoked, ListActive, Goto
<1>5. CASE Aborts(r) \/ Commits(r)
  BY <1>5 DEF TypeOK, Aborts, Commits, Finish, Goto
<1>. QED
  BY <1>1, <1>2, <1>3, <1>4, <1>5, StepKinds

(* A counter that was kept on a warning was accepted.                      *)
LEMMA JudgedStep ==
    ASSUME TypeOK, Begun, Listed, Judged, Counted, NEW r \in Requests, Step(r)
    PROVE  Judged'
<1>1. ASSUME NEW q \in Requests, pc[q] \in InLogin, pc'[q] \in InLogin,
             result'[q] = result[q]
      PROVE  IF result'[q].warning
             THEN /\ Accepted(CredOf(q), result[q].count)'
                  /\ given'[q].count <= result'[q].count /\ result'[q].count # 0
             ELSE result'[q].count = given'[q].count
  <2>1. given'[q] = given[q] /\ CredOf(q)' = CredOf(q)
    BY <1>1, Monotone DEF CredOf, InLogin, Writing, Saved
  <2>2. Accepted(CredOf(q), result[q].count) => Accepted(CredOf(q), result[q].count)'
    BY <1>1, <2>1, Monotone DEF Accepted
  <2>. QED
    BY <1>1, <2>1, <2>2 DEF Judged
<1>2. ASSUME Validate(r)
      PROVE  IF result'[r].warning
             THEN /\ Accepted(CredOf(r), result[r].count)'
                  /\ given'[r].count <= result'[r].count /\ result'[r].count # 0
             ELSE result'[r].count = given'[r].count
  <2>. DEFINE stored == credentials[CredOf(r)].count
  <2>1. pc[r] # "idle"
    BY <1>2 DEF Validate
  <2>2. result'[r] = UpdateCounter(stored, given[r].count) /\ given'[r] = given[r]
    BY <1>2 DEF TypeOK, Validate
  <2>3. stored \in Nat /\ given[r].count \in Nat /\ CredOf(r) \in Creds
    BY <2>1, Given
  <2>4. CredOf(r)' = CredOf(r) /\ stored' = stored
    BY <1>2 DEF Validate, tables, CredOf
  <2>5. Accepted(CredOf(r), stored)'
    BY <2>3, <2>4, Monotone DEF Counted, Accepted
  <2>. HIDE DEF stored
  <2>6. /\ result'[r].warning => result'[r].count = stored /\ given[r].count <= stored /\ stored # 0
        /\ ~result'[r].warning => result'[r].count = given[r].count
    BY <2>2, <2>3, UpdateCounterFields
  <2>. QED
    BY <2>2, <2>4, <2>5, <2>6 DEF Accepted
<1>3. \A q \in Requests \ {r} : pc'[q] = pc[q] /\ result'[q] = result[q]
  BY StepFrame
<1>. QED
  BY <1>1, <1>2, <1>3, SamePhase DEF Judged, Accepted

(* Whoever sends a counter that is no greater than one accepted has a      *)
(* cause to be suspected.                                                  *)
LEMMA AcceptedCauses ==
    ASSUME TypeOK, Begun, NEW r \in Requests, pc[r] \notin {"idle", "done"},
           NEW n \in Nat, Accepted(CredOf(r), n), given[r].count <= n, n # 0
    PROVE  Cause(r)
<1>1. ~LoggedIn(r)
  BY DEF Begun, LoggedIn
<1>. QED
  BY <1>1 DEF Accepted, Cause

(* What a request is about to store.                                       *)
LEMMA CarriedStep ==
    ASSUME TypeOK, Begun, Listed, Judged, Carried, Counted, NEW r \in Requests, Step(r)
    PROVE  Carried'
<1>1. ASSUME NEW q \in Requests, pc[q] \in Writing, cred'[q] = cred[q]
      PROVE  IF cred'[q].revoked
             THEN Accepted(CredOf(q), cred[q].count)' /\ Cause(q)'
             ELSE cred'[q].count = given'[q].count
  <2>1. pc[q] # "idle"
    BY <1>1 DEF Writing, Saved
  <2>2. given'[q] = given[q] /\ CredOf(q)' = CredOf(q)
    BY <2>1, Monotone DEF CredOf
  <2>3. Accepted(CredOf(q), cred[q].count) => Accepted(CredOf(q), cred[q].count)'
    BY <1>1, <2>2, Monotone DEF Accepted
  <2>. QED
    BY <1>1, <2>1, <2>2, <2>3, Monotone DEF Carried
<1>2. ASSUME Looks(r)
      PROVE  IF cred'[r].revoked
             THEN Accepted(CredOf(r), cred[r].count)' /\ Cause(r)'
             ELSE cred'[r].count = given'[r].count
  <2>. DEFINE row == credentials[CredOf(r)]
              n   == result[r].count
  <2>1. pc[r] = "lookup" /\ pc[r] # "idle" /\ pc[r] \in InLogin
    BY <1>2, LookStores DEF InLogin
  <2>2. /\ row \in Credential /\ row.count \in Nat /\ n \in Nat
        /\ CredOf(r) \in Creds /\ given[r].count \in Nat
    BY <2>1, Given
  <2>3. cred'[r].count \in {n, row.count}
    BY <1>2, <2>2, LookStores, SetSignCountFields
  <2>4. Accepted(CredOf(r), row.count)
    BY <2>2 DEF Counted
  <2>5. given'[r] = given[r] /\ CredOf(r)' = CredOf(r)
    BY <2>1, Monotone DEF CredOf
  <2>6. CASE result[r].warning
    <3>1. Accepted(CredOf(r), n) /\ given[r].count <= n /\ n # 0
      BY <2>1, <2>6 DEF Judged
    <3>2. Cause(r)
      BY <2>1, <2>2, <3>1, AcceptedCauses
    <3>3. Accepted(CredOf(r), cred'[r].count)
      BY <2>3, <2>4, <3>1
    <3>4. Accepted(CredOf(r), cred[r].count)'
      BY <2>5, <3>3, Monotone DEF Accepted
    <3>5. Cause(r)' /\ cred'[r].revoked
      BY <1>2, <2>1, <2>6, <3>2, LookStores, Monotone DEF IsClone
    <3>. QED
      BY <3>4, <3>5
  <2>7. CASE ~result[r].warning /\ Regression(row.count, n)
    <3>1. n = given[r].count
      BY <2>1, <2>7 DEF Judged
    <3>2. Cause(r)
      BY <2>1, <2>2, <2>4, <2>7, <3>1, AcceptedCauses DEF Regression
    <3>3. cred'[r].count = row.count
      <4>1. SetSignCount(row, n) = row
        BY <2>7 DEF SetSignCount
      <4>2. cred'[r].count = SetSignCount(row, n).count
        BY <1>2, LookStores
      <4>. QED
        BY <4>1, <4>2
    <3>. QED
      BY <1>2, <2>1, <2>4, <2>5, <2>7, <3>2, <3>3, LookStores, Monotone DEF IsClone, Accepted
  <2>8. CASE ~result[r].warning /\ ~Regression(row.count, n)
    <3>1. cred'[r].count = n
      <4>1. SetSignCount(row, n).count = n
        BY <2>2, <2>8, SetSignCountFields
      <4>2. cred'[r].count = SetSignCount(row, n).count
        BY <1>2, LookStores
      <4>. QED
        BY <4>1, <4>2
    <3>. QED
      BY <1>2, <2>1, <2>5, <2>8, <3>1, LookStores DEF Judged, IsClone
  <2>. QED
    BY <2>6, <2>7, <2>8
<1>3. \A q \in Requests \ {r} : pc'[q] = pc[q] /\ cred'[q] = cred[q]
  BY StepFrame
<1>. QED
  BY <1>1, <1>2, <1>3, SamePhase DEF Carried

(* Every counter stored was accepted.                                      *)
LEMMA CountedStep ==
    ASSUME TypeOK, Begun, Listed, Carried, Counted, NEW r \in Requests, Step(r)
    PROVE  Counted'
<1>1. CASE UNCHANGED tables
  BY <1>1, Monotone DEF Counted, Accepted, tables
<1>2. CASE Commits(r)
  <2>1. pc[r] = "commit" /\ pc[r] \in Writing
    BY <1>2 DEF Commits, Writing, Saved
  <2>2. given'[r] = given[r] /\ CredOf(r)' = CredOf(r)
    BY <2>1, Monotone DEF CredOf
  <2>3. CASE Revoking(r)
    <3>1. Accepted(CredOf(r), cred[r].count)
      BY <2>1, <2>3 DEF Carried, Revoking
    <3>2. credentials'[CredOf(r)] = cred[r]
      BY <1>2, CommitWrites
    <3>3. \A c \in Creds \ {CredOf(r)} : credentials'[c] = credentials[c]
      BY <1>2, CommitWrites
    <3>4. Accepted(CredOf(r), credentials'[CredOf(r)].count)
      BY <3>1, <3>2
    <3>5. \A c \in Creds : Accepted(c, credentials'[c].count)
      BY <3>3, <3>4 DEF Counted
    <3>. QED
      BY <3>5, Monotone DEF Counted, Accepted
  <2>4. CASE ~Revoking(r)
    <3>1. LoggedIn(r)' /\ cred[r].count = given'[r].count
      BY <1>2, <2>1, <2>2, <2>4, CommitWrites, Owners DEF Carried, Revoking, LoggedIn
    <3>2. credentials'[CredOf(r)] = cred[r]
      BY <1>2, CommitWrites
    <3>3. Accepted(CredOf(r), credentials[CredOf(r)].count)'
      BY <2>2, <3>1, <3>2 DEF Accepted
    <3>4. \A c \in Creds \ {CredOf(r)} : credentials'[c] = credentials[c]
      BY <1>2, CommitWrites
    <3>. QED
      BY <2>2, <3>3, <3>4, Monotone DEF Counted, Accepted
  <2>. QED
    BY <2>3, <2>4
<1>. QED
  BY <1>1, <1>2, StepFrame

(* Nobody is told of a clone without a cause.                              *)
LEMMA CauseStep ==
    ASSUME TypeOK, Begun, Listed, Carried, CloneHasCause, NEW r \in Requests, Step(r)
    PROVE  CloneHasCause'
<1>1. ASSUME NEW q \in Requests, verdict[q] = "clone"
      PROVE  Cause(q)'
  <2>1. pc[q] # "idle" /\ Cause(q)
    BY <1>1 DEF Begun, CloneHasCause, Cause
  <2>. QED
    BY <2>1, Monotone
<1>2. ASSUME verdict'[r] = "clone", verdict[r] # "clone"
      PROVE  Cause(r)'
  <2>1. CASE Commits(r)
    <3>1. pc[r] \in Writing /\ pc[r] # "idle" /\ Revoking(r)
      BY <1>2, <2>1 DEF Commits, Writing, Saved, Finish, TypeOK
    <3>. QED
      BY <3>1, Monotone DEF Carried, Revoking
  <2>2. CASE ~Commits(r)
    <3>1. verdict'[r] \in {verdict[r], "invalid", "error", "revoked"}
      <4>1. CASE Aborts(r)
        BY <4>1 DEF Aborts, Finish, TypeOK
      <4>2. CASE LookupRevoked(r)
        BY <4>2 DEF LookupRevoked, TypeOK
      <4>3. CASE Looks(r)
        BY <4>3, LookStores
      <4>. QED
        BY <2>2, <4>1, <4>2, <4>3, StepKinds
           DEF StartLogin, Validate, Moves, Save, Issue, SaveRevoked, ListActive
    <3>. QED
      BY <1>2, <3>1
  <2>. QED
    BY <2>1, <2>2
<1>3. \A q \in Requests \ {r} : verdict'[q] = verdict[q]
  BY StepFrame
<1>4. ASSUME NEW q \in Requests, verdict'[q] = "clone"
      PROVE  Cause(q)'
  BY <1>1, <1>2, <1>3, <1>4
<1>. QED
  BY <1>4 DEF CloneHasCause, Cause
-----------------------------------------------------------------------------
(* What a clone's request revokes.                                         *)

(* A session that is live was so before, with the same user, or is the one *)
(* that this step's login opens.                                           *)
LEMMA LiveNext ==
    ASSUME TypeOK, Begun, Listed, NEW q \in Requests, Step(q),
           NEW s \in Sessions, sessions'[s] = "live"
    PROVE  \/ /\ sessions[s] = "live" /\ OwnerOf(s)' = OwnerOf(s)
              /\ s \in Requests => CredOf(s)' = CredOf(s)
           \/ Commits(q) /\ ~Revoking(q) /\ s = q
<1>1. sessions[s] = "live" \/ (Commits(q) /\ ~Revoking(q) /\ s = q)
  <2>1. CASE UNCHANGED tables
    BY <2>1 DEF tables
  <2>2. CASE Commits(q)
    BY <2>2, CommitWrites
  <2>. QED
    BY <2>1, <2>2, StepFrame
<1>2. CASE sessions[s] = "live"
  <2>1. s \in Requests => CredOf(s)' = CredOf(s)
    BY <1>2, Monotone DEF LoggedIn, CredOf
  <2>. QED
    BY <1>2, <2>1 DEF OwnerOf, Sessions
<1>. QED
  BY <1>1, <1>2

(* The list of a clone's request.                                          *)
LEMMA ListedStep ==
    ASSUME TypeOK, Begun, OneWriter, Listed, NEW q \in Requests, Step(q)
    PROVE  Listed'
<1>1. ASSUME NEW r \in Requests, NEW s \in listed'[r]
      PROVE  LoggedIn(s)'
  <2>1. s \in Sessions /\ LoggedIn(s)
    <3>1. CASE s \in listed[r]
      BY <3>1 DEF TypeOK, Listed
    <3>2. CASE s \notin listed[r]
      <4>1. r = q /\ listed'[q] # listed[q]
        BY <1>1, <3>2, StepFrame
      <4>2. ListActive(q)
        BY <4>1, StepKinds, LookStores
           DEF StartLogin, Validate, LookupRevoked, Moves, Save, Issue, SaveRevoked,
               Aborts, Commits, Finish
      <4>. QED
        BY <1>1, <4>1, <4>2 DEF ListActive, TypeOK, LiveSessions, LoggedIn
    <3>. QED
      BY <3>1, <3>2
  <2>. QED
    BY <2>1, Monotone
<1>2. ASSUME NEW r \in Requests, pc'[r] \in {"revoke", "commit"}, Revoking(r)',
             NEW s \in Sessions, sessions'[s] = "live", OwnerOf(s)' = Owner[CredOf(r)']
      PROVE  s \in listed'[r] \/ (s \in Requests /\ CredOf(s)' # CredOf(r)')
  <2>1. CASE r # q
    <3>1. /\ pc'[r] = pc[r] /\ cred'[r] = cred[r] /\ listed'[r] = listed[r]
          /\ CredOf(r)' = CredOf(r)
      BY <2>1, StepFrame DEF CredOf
    <3>2. CASE sessions[s] = "live" /\ OwnerOf(s)' = OwnerOf(s)
               /\ (s \in Requests => CredOf(s)' = CredOf(s))
      BY <1>2, <3>1, <3>2 DEF Listed, Revoking
    <3>3. CASE Commits(q) /\ ~Revoking(q) /\ s = q
      <4>1. pc[q] \in Saved /\ pc[r] \in Saved /\ CredOf(q) # CredOf(r)
        BY <1>2, <2>1, <3>1, <3>3 DEF OneWriter, Commits, Saved
      <4>2. CredOf(q)' = CredOf(q)
        BY <3>3, StepFrame DEF CredOf, Commits
      <4>. QED
        BY <3>1, <3>3, <4>1, <4>2
    <3>. QED
      BY <1>2, <3>2, <3>3, LiveNext
  <2>2. CASE r = q
    <3>1. CASE ListActive(q)
      <4>1. listed'[q] = LiveSessions(Owner[CredOf(q)])
        BY <3>1 DEF ListActive, TypeOK
      <4>2. sessions[s] = "live" /\ OwnerOf(s) = OwnerOf(s)' /\ CredOf(q)' = CredOf(q)
        BY <1>2, <3>1 DEF ListActive, tables, OwnerOf, CredOf
      <4>. QED
        BY <1>2, <2>2, <4>1, <4>2 DEF LiveSessions
    <3>2. CASE SaveRevoked(q)
      <4>1. /\ pc[q] = "revoke" /\ UNCHANGED <<sessions, given, cred, listed>>
        BY <3>2 DEF SaveRevoked, tables
      <4>2. OwnerOf(s)' = OwnerOf(s) /\ CredOf(q)' = CredOf(q) /\ CredOf(s)' = CredOf(s)
        BY <4>1 DEF OwnerOf, CredOf
      <4>. QED
        BY <1>2, <2>2, <4>1, <4>2 DEF Listed, Revoking
    <3>3. CASE ~ListActive(q) /\ ~SaveRevoked(q)
      <4>1. CASE StartLogin(q) \/ Validate(q) \/ LookupRevoked(q)
        BY <1>2, <2>2, <4>1 DEF TypeOK, StartLogin, Validate, LookupRevoked, Goto
      <4>2. CASE Looks(q)
        BY <1>2, <2>2, <4>2, LookStores
      <4>3. CASE Save(q) \/ Issue(q)
        BY <1>2, <2>2, <4>3 DEF TypeOK, Save, Issue, Goto, Begun, Revoking
      <4>4. CASE Aborts(q) \/ Commits(q)
        BY <1>2, <2>2, <4>4 DEF TypeOK, Aborts, Commits, Finish, Goto
      <4>. QED
        BY <3>3, <4>1, <4>2, <4>3, <4>4, StepKinds DEF Moves
    <3>. QED
      BY <3>1, <3>2, <3>3
  <2>. QED
    BY <2>1, <2>2
<1>. QED
  BY <1>1, <1>2 DEF Listed

(* The revocation of a credential takes the sessions along.                *)
LEMMA LeavesStep ==
    ASSUME TypeOK, Begun, Listed, CloneLeavesNoSession, NEW q \in Requests, Step(q)
    PROVE  CloneLeavesNoSession'
<1> SUFFICES ASSUME NEW s \in Sessions, NEW c \in Creds, credentials'[c].revoked,
                    sessions'[s] = "live", OwnerOf(s)' = Owner[c]
             PROVE  s \in Requests /\ CredOf(s)' # c
  BY DEF CloneLeavesNoSession
<1>1. CASE UNCHANGED tables
  <2>2. credentials[c].revoked /\ sessions[s] = "live"
    BY <1>1 DEF tables
  <2>3. OwnerOf(s)' = OwnerOf(s) /\ (s \in Requests => CredOf(s)' = CredOf(s))
    BY <2>2, Monotone DEF LoggedIn, CredOf, OwnerOf, Sessions
  <2>. QED
    BY <2>2, <2>3 DEF CloneLeavesNoSession
<1>2. CASE Commits(q)
  <2>1. CredOf(q)' = CredOf(q)
    BY <1>2, StepFrame DEF CredOf, Commits
  <2>2. CASE c = CredOf(q)
    <3>1. Revoking(q)
      BY <1>2, <2>2, CommitWrites DEF Revoking
    <3>2. sessions[s] = "live" /\ s \notin listed[q]
      BY <1>2, <3>1, CommitWrites
    <3>3. OwnerOf(s)' = OwnerOf(s) /\ (s \in Requests => CredOf(s)' = CredOf(s))
      BY <3>1, LiveNext
    <3>. QED
      BY <1>2, <2>2, <3>1, <3>2, <3>3 DEF Listed, Commits
  <2>3. CASE c # CredOf(q)
    <3>1. credentials[c].revoked
      BY <1>2, <2>3, CommitWrites
    <3>. QED
      BY <2>1, <2>3, <3>1, LiveNext DEF CloneLeavesNoSession
  <2>. QED
    BY <2>2, <2>3
<1>. QED
  BY <1>1, <1>2, StepFrame
-----------------------------------------------------------------------------
(* Requests that are alone with their credential.                          *)

(* Requests that meet are seen to.                                         *)
LEMMA AloneStep ==
    ASSUME TypeOK, Begun, Alone, NEW x \in Requests, Step(x)
    PROVE  Alone'
<1>1. ASSUME NEW r \in Requests, pc'[r] \in Working, pc[r] \in Working
      PROVE  CredOf(r)' = CredOf(r) /\ CredOf(r) \in Creds
  BY <1>1, StepFrame, Given DEF CredOf, Working, InTx, Saved
<1>2. CASE ~StartLogin(x)
  <2>1. \A r \in Requests : pc'[r] \in Working => pc[r] \in Working
    BY <1>2, StepFrame, SamePhase
  <2>. QED
    BY <1>1, <2>1, StepFrame DEF Alone, InFlight
<1>3. CASE StartLogin(x)
  <2>1. PICK a \in Assertions :
            /\ given' = [given EXCEPT ![x] = a]
            /\ met'   = [met EXCEPT ![a.cred] =
                            @ \/ \E q \in InFlight : CredOf(q) = a.cred]
    BY <1>3 DEF StartLogin
  <2>2. a.cred \in Creds /\ CredOf(x)' = a.cred
    BY <2>1, ConstantsAssumption DEF TypeOK, CredOf
  <2>3. pc[x] = "idle" /\ \A q \in Requests \ {x} : pc'[q] = pc[q]
    BY <1>3, StepFrame DEF StartLogin
  <2>4. \A q \in InFlight : CredOf(q) = a.cred => met'[a.cred]
    BY <2>1, <2>2 DEF TypeOK
  <2>5. \A r \in Requests \ {x} : pc'[r] \in Working => pc[r] \in Working
    BY <2>3
  <2>6. ASSUME NEW q \in Requests \ {x}, pc'[q] \in Working, CredOf(q)' = a.cred
        PROVE  met'[a.cred]
    BY <1>1, <2>4, <2>5, <2>6 DEF InFlight
  <2>7. ASSUME NEW r \in Requests \ {x}, NEW q \in Requests \ {x},
               pc'[r] \in Working, pc'[q] \in Working, CredOf(r)' = CredOf(q)'
        PROVE  r = q \/ met'[CredOf(r)']
    BY <1>1, <2>5, <2>7, StepFrame DEF Alone, InFlight
  <2>. QED
    BY <2>2, <2>6, <2>7 DEF Alone, InFlight
<1>. QED
  BY <1>2, <1>3

(* The row of a request that is alone with it is left to it.               *)
LEMMA Isolated ==
    ASSUME TypeOK, Begun, Alone, NEW x \in Requests, Step(x),
           NEW r \in Requests \ {x}, pc'[r] \in Working, ~met'[CredOf(r)']
    PROVE  /\ pc[r] \in Working /\ pc[r] = pc'[r] /\ ~met[CredOf(r)]
           /\ CredOf(r)' = CredOf(r) /\ CredOf(r) \in Creds
           /\ given'[r] = given[r] /\ result'[r] = result[r] /\ cred'[r] = cred[r]
           /\ credentials'[CredOf(r)] = credentials[CredOf(r)]
<1>1. /\ pc[r] = pc'[r] /\ pc[r] \in Working /\ pc[r] # "idle"
      /\ given'[r] = given[r] /\ result'[r] = result[r] /\ cred'[r] = cred[r]
  BY StepFrame DEF Working, InTx, Saved
<1>2. CredOf(r)' = CredOf(r) /\ CredOf(r) \in Creds
  BY <1>1, Given DEF CredOf
<1>3. ~met[CredOf(r)]
  BY <1>2, StepFrame
<1>4. credentials'[CredOf(r)] = credentials[CredOf(r)]
  <2>1. CASE UNCHANGED tables
    BY <2>1 DEF tables
  <2>2. CASE Commits(x)
    <3>1. CredOf(x) # CredOf(r)
      BY <1>1, <1>3, <2>2 DEF Alone, InFlight, Commits, Working, InTx, Saved
    <3>. QED
      BY <1>2, <2>2, <3>1, CommitWrites
  <2>. QED
    BY <2>1, <2>2, StepFrame
<1>. QED
  BY <1>1, <1>2, <1>3, <1>4

(* What the library found is still so.                                     *)
LEMMA LoneJudgedStep ==
    ASSUME TypeOK, Begun, Alone, LoneJudged, NEW x \in Requests, Step(x)
    PROVE  LoneJudged'
<1> SUFFICES ASSUME NEW r \in Requests, pc'[r] = "lookup", ~met'[CredOf(r)'],
                    ~result'[r].warning
             PROVE  \/ given'[r].count > credentials'[CredOf(r)'].count
                    \/ given'[r].count = 0
  BY DEF LoneJudged
<1>1. CASE r # x
  BY <1>1, Isolated DEF LoneJudged, Working, InTx
<1>2. CASE r = x
  <2>1. Validate(r)
    BY <1>2, SamePhase
  <2>2. /\ result'[r] = UpdateCounter(credentials[CredOf(r)].count, given[r].count)
        /\ UNCHANGED <<credentials, given>> /\ pc[r] # "idle"
    BY <2>1 DEF Validate, TypeOK, tables
  <2>3. CredOf(r)' = CredOf(r)
    BY <2>2 DEF CredOf
  <2>. QED
    BY <2>2, <2>3, Given, UpdateCounterFields
<1>. QED
  BY <1>1, <1>2

(* What the request stores is newer than what it replaces.                 *)
LEMMA LoneCarriedStep ==
    ASSUME TypeOK, Begun, Alone, Judged, LoneJudged, LoneCarried,
           NEW x \in Requests, Step(x)
    PROVE  LoneCarried'
<1> SUFFICES ASSUME NEW r \in Requests, pc'[r] \in Writing, ~met'[CredOf(r)']
             PROVE  /\ ~credentials'[CredOf(r)'].revoked
                    /\ cred'[r].count >= credentials'[CredOf(r)'].count
                    /\ ~cred'[r].revoked =>
                          \/ given'[r].count > credentials'[CredOf(r)'].count
                          \/ given'[r].count = 0
  BY DEF LoneCarried
<1>1. CASE r # x
  BY <1>1, Isolated DEF LoneCarried, Writing, Working, InTx
<1>2. CASE r = x /\ Looks(r)
  <2>1. /\ pc[r] = "lookup" /\ pc[r] # "idle" /\ UNCHANGED <<credentials, given, met>>
        /\ ~credentials[CredOf(r)].revoked
    BY <1>2, LookStores DEF tables
  <2>2. CredOf(r)' = CredOf(r)
    BY <2>1 DEF CredOf
  <2>3. cred'[r].count >= credentials[CredOf(r)].count
    BY <1>2, <2>1, Given, LookStores, SetSignCountFields
  <2>4. ASSUME ~cred'[r].revoked
        PROVE  given[r].count > credentials[CredOf(r)].count \/ given[r].count = 0
    <3>1. ~result[r].warning
      BY <1>2, <2>4, LookStores DEF IsClone
    <3>. QED
      BY <2>1, <2>2, <3>1 DEF LoneJudged
  <2>. QED
    BY <2>1, <2>2, <2>3, <2>4
<1>3. CASE r = x /\ pc[r] \in Writing /\ cred'[r] = cred[r]
  <2>1. pc[r] # "idle" /\ pc'[r] # "done"
    BY <1>3 DEF Writing, Saved
  <2>2. UNCHANGED tables /\ met' = met /\ given'[r] = given[r]
    BY <1>3, <2>1, StepFrame DEF Commits, Finish, Goto, TypeOK
  <2>3. CredOf(r)' = CredOf(r)
    BY <2>2 DEF CredOf
  <2>. QED
    BY <1>3, <2>2, <2>3 DEF LoneCarried, tables
<1>. QED
  BY <1>1, <1>2, <1>3, SamePhase
(* A commit of a request that is alone never turns the counter back.       *)
LEMMA LoneCommit ==
    ASSUME TypeOK, Begun, LoneCarried, NEW x \in Requests, Step(x),
           NEW c \in Creds, ~met'[c]
    PROVE  /\ ~met[c]
           /\ credentials[c].count \in Nat /\ credentials'[c].count \in Nat
           /\ credentials'[c].count >= credentials[c].count
<1>1. ~met[c]
  BY StepFrame
<1>2. credentials[c].count \in Nat
  BY DEF TypeOK, Credential
<1>3. CASE Commits(x) /\ CredOf(x) = c
  <2>1. pc[x] \in Writing /\ pc[x] # "idle"
    BY <1>3 DEF Commits, Writing, Saved
  <2>. QED
    BY <1>1, <1>2, <1>3, <2>1, Given, CommitWrites DEF LoneCarried
<1>4. CASE Commits(x) /\ CredOf(x) # c
  BY <1>1, <1>2, <1>4, CommitWrites
<1>5. CASE UNCHANGED tables
  BY <1>1, <1>2, <1>5 DEF tables
<1>. QED
  BY <1>3, <1>4, <1>5, StepFrame

(* A session that this step opens: its counter is greater than any before  *)
(* it, and now stored.                                                     *)
LEMMA NewLogin ==
    ASSUME TypeOK, Begun, Listed, Carried, LoneCarried, NEW x \in Requests, Step(x),
           NEW r \in Requests, LoggedIn(r)', ~LoggedIn(r)
    PROVE  /\ r = x /\ CredOf(r)' = CredOf(r) /\ CredOf(r) \in Creds
           /\ given'[r] = given[r] /\ given[r].count \in Nat
           /\ ~met[CredOf(r)] =>
                 /\ credentials'[CredOf(r)].count = given[r].count
                 /\ \/ given[r].count > credentials[CredOf(r)].count
                    \/ given[r].count = 0
<1>1. Commits(x) /\ ~Revoking(x) /\ r = x
  <2>1. Commits(x)
    BY StepFrame DEF LoggedIn, tables
  <2>2. r \in Sessions /\ r \notin listed[x]
    BY Owners DEF Listed
  <2>. QED
    BY <2>1, <2>2, CommitWrites DEF LoggedIn
<1>2. pc[x] \in Writing /\ pc[x] # "idle"
  BY <1>1 DEF Commits, Writing, Saved
<1>3. given'[x] = given[x] /\ CredOf(x)' = CredOf(x)
  BY <1>2, StepFrame DEF CredOf
<1>4. cred[x].count = given[x].count /\ credentials'[CredOf(x)] = cred[x]
  BY <1>1, <1>2, CommitWrites DEF Carried, Revoking
<1>. QED
  BY <1>1, <1>2, <1>3, <1>4, Given DEF LoneCarried, Revoking
(* The counter of a login is no greater than the one stored.               *)
LEMMA LoneCountedStep ==
    ASSUME TypeOK, Begun, Listed, Carried, LoneCarried, LoneCounted,
           NEW x \in Requests, Step(x)
    PROVE  LoneCounted'
<1> SUFFICES ASSUME NEW r \in Requests, LoggedIn(r)', ~met'[CredOf(r)']
             PROVE  given'[r].count <= credentials'[CredOf(r)'].count
  BY DEF LoneCounted
<1>1. CASE LoggedIn(r)
  <2>1. pc[r] # "idle" /\ given'[r] = given[r] /\ CredOf(r)' = CredOf(r)
    BY <1>1, Monotone DEF CredOf, Begun, LoggedIn
  <2>. QED
    BY <1>1, <2>1, Given, LoneCommit DEF LoneCounted
<1>2. CASE ~LoggedIn(r)
  <2>1. /\ CredOf(r)' = CredOf(r) /\ CredOf(r) \in Creds
        /\ given'[r] = given[r] /\ given[r].count \in Nat
        /\ ~met[CredOf(r)] => credentials'[CredOf(r)].count = given[r].count
    BY <1>2, NewLogin
  <2>. QED
    BY <2>1, StepFrame
<1>. QED
  BY <1>1, <1>2

(* A counter opens one session.                                            *)
LEMMA OpensOnceStep ==
    ASSUME TypeOK, Begun, Listed, Carried, LoneCarried, LoneCounted,
           LoneCountOpensOnce, NEW x \in Requests, Step(x)
    PROVE  LoneCountOpensOnce'
<1> SUFFICES ASSUME NEW r \in Requests, NEW q \in Requests, LoggedIn(r)', LoggedIn(q)',
                    given'[r] = given'[q], given'[r].count # 0, ~met'[CredOf(r)']
             PROVE  r = q
  BY DEF LoneCountOpensOnce
<1>1. ASSUME NEW u \in Requests, LoggedIn(u)
      PROVE  given'[u] = given[u] /\ CredOf(u)' = CredOf(u) /\ CredOf(u) \in Creds
             /\ given[u].count \in Nat
  BY <1>1, Monotone, Given DEF CredOf, Begun, LoggedIn
<1>2. ASSUME NEW u \in Requests, NEW v \in Requests, LoggedIn(v), ~LoggedIn(u),
             LoggedIn(u)', given'[u] = given'[v], given'[u].count # 0,
             ~met'[CredOf(u)']
      PROVE  FALSE
  <2>1. /\ CredOf(u)' = CredOf(u) /\ CredOf(u) \in Creds /\ given'[u] = given[u]
        /\ given[u].count \in Nat
        /\ ~met[CredOf(u)] => \/ given[u].count > credentials[CredOf(u)].count
                              \/ given[u].count = 0
    BY <1>2, NewLogin
  <2>2. given[v] = given[u] /\ CredOf(v) = CredOf(u)
    BY <1>1, <1>2, <2>1 DEF CredOf
  <2>3. ~met[CredOf(u)] /\ credentials[CredOf(u)].count \in Nat
    BY <1>2, <2>1, LoneCommit
  <2>4. given[v].count <= credentials[CredOf(v)].count
    BY <1>2, <2>2, <2>3 DEF LoneCounted
  <2>. QED
    BY <1>2, <2>1, <2>2, <2>3, <2>4
<1>3. CredOf(r)' = CredOf(q)'
  BY DEF CredOf
<1>4. CASE LoggedIn(r) /\ LoggedIn(q)
  BY <1>1, <1>4, StepFrame DEF LoneCountOpensOnce
<1>5. CASE ~LoggedIn(r) /\ ~LoggedIn(q)
  BY <1>5, NewLogin
<1>. QED
  BY <1>2, <1>3, <1>4, <1>5

-----------------------------------------------------------------------------
(* Theorems.                                                               *)

(* Every state at the start satisfies the invariant.                       *)
LEMMA InvariantInit == Init => IInv
<1> SUFFICES ASSUME Init PROVE IInv
  OBVIOUS
<1>1. TypeOK
  BY TypeInit
<1>2. \A r \in Requests : pc[r] = "idle" /\ sessions[r] = "none" /\ listed[r] = {}
                          /\ verdict[r] = "none"
  BY ConstantsAssumption DEF Init, Sessions
<1>3. \A r \in Requests : ~LoggedIn(r)
  BY <1>2 DEF LoggedIn
<1>4. Counted
  BY DEF Init, Counted, Accepted
<1>5. CloneLeavesNoSession
  BY DEF Init, CloneLeavesNoSession
<1>. QED
  BY <1>1, <1>2, <1>3, <1>4, <1>5
     DEF IInv, Begun, OneWriter, Judged, Carried, CloneHasCause, Listed, Alone, LoneJudged,
         LoneCarried, LoneCounted, LoneCountOpensOnce, InFlight, Working, InTx, Saved,
         Writing, InLogin

(* Every step keeps it.                                                    *)
LEMMA InvariantNext == IInv /\ [Next]_vars => IInv'
<1> SUFFICES ASSUME IInv, [Next]_vars PROVE IInv'
  OBVIOUS
<1>1. ASSUME NEW r \in Requests, Step(r)
      PROVE  IInv'
  <2>1. TypeOK' /\ Begun' /\ OneWriter'
    BY <1>1, TypeStep, BegunStep, OneWriterStep DEF IInv
  <2>2. Judged' /\ Carried' /\ Counted' /\ CloneHasCause'
    BY <1>1, JudgedStep, CarriedStep, CountedStep, CauseStep DEF IInv
  <2>3. Listed' /\ CloneLeavesNoSession'
    BY <1>1, ListedStep, LeavesStep DEF IInv
  <2>4. Alone' /\ LoneJudged' /\ LoneCarried'
    BY <1>1, AloneStep, LoneJudgedStep, LoneCarriedStep DEF IInv
  <2>5. LoneCounted' /\ LoneCountOpensOnce'
    BY <1>1, LoneCountedStep, OpensOnceStep DEF IInv
  <2>. QED
    BY <2>1, <2>2, <2>3, <2>4, <2>5 DEF IInv
<1>2. CASE UNCHANGED vars
  <2>1. TypeOK' /\ Begun' /\ OneWriter'
    BY <1>2 DEF IInv, vars, tables, TypeOK, Begun, OneWriter, Revoking, CredOf
  <2>2. Judged' /\ Carried' /\ Counted' /\ CloneHasCause'
    BY <1>2 DEF IInv, vars, tables, Judged, Carried, Counted, CloneHasCause, Accepted,
                Cause, LoggedIn, CredOf
  <2>3. Listed' /\ CloneLeavesNoSession'
    BY <1>2 DEF IInv, vars, tables, Listed, CloneLeavesNoSession, LoggedIn, Revoking,
                OwnerOf, CredOf
  <2>4. Alone' /\ LoneJudged' /\ LoneCarried'
    BY <1>2 DEF IInv, vars, tables, Alone, LoneJudged, LoneCarried, InFlight, CredOf
  <2>5. LoneCounted' /\ LoneCountOpensOnce'
    BY <1>2 DEF IInv, vars, tables, LoneCounted, LoneCountOpensOnce, LoggedIn, CredOf
  <2>. QED
    BY <2>1, <2>2, <2>3, <2>4, <2>5 DEF IInv
<1>. QED
  BY <1>1, <1>2 DEF Next, Finished

(* The invariant, of every state that logins reach.                        *)
THEOREM InvariantHolds == Spec => []IInv
BY InvariantInit, InvariantNext, PTL DEF Spec

(* Types: a counter is never negative, a session is opened by a login and  *)
(* ends revoked (Login.Execute).                                           *)
THEOREM TypeCorrect == Spec => []TypeOK
BY InvariantHolds, PTL DEF IInv

(* Nobody is told of a clone unless the counter it sent, or a greater one, *)
(* had been accepted before (SetSignCount, handleClone).                   *)
THEOREM CloneCaused == Spec => []CloneHasCause
BY InvariantHolds, PTL DEF IInv

(* As long as a credential is revoked its user has no session from before, *)
(* nor one opened with it (handleClone, RevokeAllUserSessions.Execute).    *)
THEOREM CloneEndsSessions == Spec => []CloneLeavesNoSession
BY InvariantHolds, PTL DEF IInv

(* The counter of a credential whose logins never overlap opens one        *)
(* session at most (SetSignCount).                                         *)
THEOREM LoneOpensOnce == Spec => []LoneCountOpensOnce
BY InvariantHolds, PTL DEF IInv

(* What the answer of a login says was committed by the step that gives it *)
(* (Login.Execute).                                                        *)
THEOREM AnswersCorrect == Spec => AnswersHold
<1>. DEFINE A == \A r \in Requests : pc[r] # "done" /\ pc'[r] = "done" =>
          /\ verdict'[r] = "ok" => sessions'[r] = "live"
          /\ verdict'[r] = "clone" =>
                /\ credentials'[CredOf(r)].revoked
                /\ \A s \in LiveSessions(Owner[CredOf(r)]) :
                      sessions'[s] = "revoked" \/ s \in Requests
<1>1. IInv /\ [Next]_vars => [A]_vars
  <2> SUFFICES ASSUME IInv, Next, NEW r \in Requests, pc[r] # "done", pc'[r] = "done"
               PROVE  /\ verdict'[r] = "ok" => sessions'[r] = "live"
                      /\ verdict'[r] = "clone" =>
                            /\ credentials'[CredOf(r)].revoked
                            /\ \A s \in LiveSessions(Owner[CredOf(r)]) :
                                  sessions'[s] = "revoked" \/ s \in Requests
    OBVIOUS
  <2>1. Step(r)
    BY StepFrame DEF Next, Finished, vars, IInv
  <2>2. CASE Commits(r)
    <3>1. verdict'[r] = "ok" => ~Revoking(r)
      BY <2>2 DEF Commits, Finish, IInv, TypeOK
    <3>2. verdict'[r] = "clone" => Revoking(r)
      BY <2>2 DEF Commits, Finish, IInv, TypeOK
    <3>3. verdict'[r] = "ok" => sessions'[r] = "live"
      BY <2>2, <3>1, CommitWrites, Owners DEF IInv
    <3>4. ASSUME verdict'[r] = "clone"
          PROVE  credentials'[CredOf(r)].revoked
      BY <2>2, <3>2, <3>4, CommitWrites DEF IInv, Revoking
    <3>5. ASSUME verdict'[r] = "clone", NEW s \in LiveSessions(Owner[CredOf(r)])
          PROVE  sessions'[s] = "revoked" \/ s \in Requests
      <4>1. s \in listed[r] \/ s \in Requests
        BY <2>2, <3>2, <3>5 DEF IInv, Listed, LiveSessions, Commits
      <4>2. s \in Sessions
        BY DEF LiveSessions
      <4>. QED
        BY <2>2, <3>2, <3>5, <4>1, <4>2, CommitWrites DEF IInv
    <3>. QED
      BY <3>3, <3>4, <3>5
  <2>3. CASE ~Commits(r)
    <3>1. Aborts(r)
      <4>1. CASE Looks(r)
        BY <4>1, LookStores DEF IInv
      <4>. QED
        BY <2>1, <2>3, <4>1, StepKinds
           DEF IInv, TypeOK, StartLogin, Validate, LookupRevoked, Moves, Save, Issue,
               SaveRevoked, ListActive, Goto
    <3>2. verdict'[r] \in {"invalid", "error", "revoked"}
      BY <3>1 DEF Aborts, Finish, IInv, TypeOK, Begun
    <3>. QED
      BY <3>2
  <2>. QED
    BY <2>2, <2>3
<1>2. Spec => [][A]_vars
  BY <1>1, InvariantHolds, PTL DEF Spec
<1>. QED
  BY <1>2 DEF AnswersHold

(* A credential that is revoked stays so, if its logins never overlap      *)
(* (findCredential, SaveCredential).                                       *)
THEOREM LoneRevocation == Spec => LoneRevocationSticks
<1>. DEFINE A == \A c \in Creds :
          credentials[c].revoked => credentials'[c].revoked \/ met[c]
<1>1. IInv /\ [Next]_vars => [A]_vars
  <2> SUFFICES ASSUME IInv, Next, ~UNCHANGED vars,
                      NEW c \in Creds, credentials[c].revoked, ~met[c]
               PROVE  credentials'[c].revoked
    OBVIOUS
  <2>1. PICK x \in Requests : Step(x)
    BY DEF Next, Finished
  <2>2. CASE UNCHANGED tables
    BY <2>2 DEF tables
  <2>3. CASE Commits(x)
    <3>1. CredOf(x) # c
      BY <2>3 DEF IInv, LoneCarried, Commits, Writing, Saved
    <3>. QED
      BY <2>3, <3>1, CommitWrites DEF IInv
  <2>. QED
    BY <2>1, <2>2, <2>3, StepFrame DEF IInv
<1>2. Spec => [][A]_vars
  BY <1>1, InvariantHolds, PTL DEF Spec
<1>. QED
  BY <1>2 DEF LoneRevocationSticks
=============================================================================
