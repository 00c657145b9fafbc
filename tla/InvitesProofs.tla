---------------------------- MODULE InvitesProofs ----------------------------
(***************************************************************************)
(* What Invites guarantees for any number of users, invites, challenges    *)
(* and overlapping requests, with proofs.                                  *)
(***************************************************************************)
EXTENDS Invites, FiniteSetTheorems, TLAPS

RequestInv(r) == CreationInv(r) /\ RegistrationInv(r)

(* The invariant without the cap.                                          *)
Core ==
    /\ TypeOK
    /\ OneRedeemer /\ ChallengeInv
    /\ \A r \in Requests : RequestInv(r)

(* What a step of one request leaves of another.                           *)
Same(q) ==
    /\ pc'[q] = pc[q] /\ op'[q] = op[q] /\ who'[q] = who[q] /\ inv'[q] = inv[q]
    /\ now'[q] = now[q]
    /\ pendInvite'[q] = pendInvite[q] /\ pendUser'[q] = pendUser[q]
    /\ who[q] \in Users /\ lock[who[q]] = q => lock'[who[q]] = q

Others(r) == \A q \in Requests \ {r} : Same(q)

-----------------------------------------------------------------------------
(* Entities and constants.                                                 *)

(* The numbers of the policies are numbers.                                *)
LEMMA Numbers ==
    /\ MaxKeys \in Nat /\ MaxActive \in Nat /\ TTL \in Nat /\ RootTTL \in Nat
    /\ ChallengeTTL \in Nat /\ MaxTime \in Nat
BY ConstantsAssumption

(* A new invite is typed, open, and its creator's.                         *)
LEMMA NewFields ==
    ASSUME NEW u \in Users, NEW t \in 0..MaxTime, NEW ttl \in {TTL, RootTTL}
    PROVE  /\ New(u, t, ttl) \in Invite
           /\ New(u, t, ttl).creator = u /\ New(u, t, ttl).usedBy = None
<1>1. t + ttl \in Expiries
  <2>1. t \in Nat /\ t <= MaxTime
    BY Numbers
  <2>2. CASE ttl = TTL
    BY <2>1, <2>2, Numbers DEF Expiries
  <2>3. CASE ttl = RootTTL
    BY <2>1, <2>3, Numbers DEF Expiries
  <2>. QED
    BY <2>2, <2>3
<1>. QED
  BY <1>1 DEF New, Invite

(* Redeeming an invite sets used_by and nothing else.                      *)
LEMMA RedeemedFields ==
    ASSUME NEW row \in Invite, NEW u \in Users
    PROVE  LET new == [row EXCEPT !.usedBy = u]
           IN  /\ new \in Invite /\ new # NoRow
               /\ new.creator = row.creator /\ new.expires = row.expires
               /\ new.usedBy = u /\ IsUsed(new)
BY ConstantsAssumption DEF Invite, IsUsed

(* The scopes of what a client sent are scopes.                            *)
LEMMA ScopesTyped ==
    ASSUME NEW list \in KeyLists \cup {<<>>}
    PROVE  ScopesOf(list) \in SUBSET Scopes
<1>1. CASE list = <<>>
  BY <1>1 DEF ScopesOf
<1>2. CASE list \in KeyLists
  <2>1. list \in Seq(Scopes)
    BY <1>2, ConstantsAssumption
  <2>. QED
    BY <2>1 DEF ScopesOf
<1>. QED
  BY <1>1, <1>2

(* The open invites of a user are finitely many, and later fewer of them   *)
(* are open.                                                               *)
LEMMA ActiveFinite ==
    ASSUME NEW u, NEW t
    PROVE  IsFiniteSet(Active(u, t)) /\ Cardinality(Active(u, t)) \in Nat
<1>1. Active(u, t) \subseteq InviteIDs
  BY DEF Active
<1>. QED
  BY <1>1, ConstantsAssumption, FS_Subset, FS_CardinalityType

(* The candidate and the invite of a registration in flight, and that what *)
(* it has written is the row of that invite with its candidate in used_by. *)
LEMMA RegistrationFacts ==
    ASSUME Core, NEW r \in Requests, op[r] = "finish"
    PROVE  /\ who[r] \in Users /\ inv[r] \in InviteIDs
           /\ invites[inv[r]] \in Invite /\ invites[inv[r]] # NoRow
           /\ invites[inv[r]].creator \in Users
           /\ \E c \in challenges : c.user = who[r] /\ c.invite = inv[r]
<1>1. PICK c \in challenges : c.user = who[r] /\ c.invite = inv[r]
  BY DEF Core, RequestInv, RegistrationInv
<1>2. c \in Challenge
  BY DEF Core, TypeOK
<1>3. who[r] \in Users /\ inv[r] \in InviteIDs
  BY <1>1, <1>2 DEF Challenge
<1>4. invites[inv[r]] # NoRow
  BY <1>1 DEF Core, ChallengeInv
<1>5. invites[inv[r]] \in Invite
  BY <1>3, <1>4 DEF Core, TypeOK
<1>. QED
  BY <1>1, <1>3, <1>4, <1>5 DEF Invite

(* A registration that has redeemed its invite: the row is still unused,   *)
(* the candidate is still no user, and nobody else holds the row.          *)
LEMMA RedeemedFacts ==
    ASSUME Core, NEW r \in Requests, Redeemed(r)
    PROVE  /\ ~IsUsed(invites[inv[r]])
           /\ users[who[r]] = NoRow
           /\ pendInvite[r] = [invites[inv[r]] EXCEPT !.usedBy = who[r]]
           /\ pendInvite[r] \in Invite /\ pendInvite[r] # NoRow
           /\ Holds(r, inv[r])
<1>1. op[r] = "finish" /\ pc[r] \in {"account", "commit"}
  BY DEF Redeemed
<1>2. /\ who[r] \in Users /\ inv[r] \in InviteIDs
      /\ invites[inv[r]] \in Invite /\ invites[inv[r]] # NoRow
      /\ \E c \in challenges : c.user = who[r] /\ c.invite = inv[r]
  BY <1>1, RegistrationFacts
<1>3. /\ ~IsUsed(invites[inv[r]])
      /\ pendInvite[r] = [invites[inv[r]] EXCEPT !.usedBy = who[r]]
  BY DEF Core, RequestInv, RegistrationInv
<1>4. users[who[r]] = NoRow
  <2>1. SUFFICES ASSUME users[who[r]] # NoRow PROVE FALSE
    OBVIOUS
  <2>2. UsedBy(inv[r], who[r])
    BY <1>2, <2>1 DEF Core, ChallengeInv
  <2>. QED
    BY <1>2, <1>3, <2>2, ConstantsAssumption DEF UsedBy, IsUsed
<1>5. pendInvite[r] \in Invite /\ pendInvite[r] # NoRow
  BY <1>2, <1>3, RedeemedFields
<1>. QED
  BY <1>1, <1>3, <1>4, <1>5 DEF Holds

-----------------------------------------------------------------------------
(* The requests a step does not take.                                      *)

(* What a request in flight knows survives the step of another one, if     *)
(* that step leaves the row it is about to insert absent, the row it holds *)
(* as it is and its candidate unknown, and if it opens no invite for a     *)
(* creator whose lock the request has.                                     *)
LEMMA OtherKept ==
    ASSUME Core, NEW q \in Requests, Same(q),
           wired' = wired, clock' \in Nat, clock <= clock',
           challenges \subseteq challenges',
           pc[q] # "done" => invites'[NewInvite[q]] = NoRow,
           pc[q] \in {"idle", "read"} =>
              /\ users'[NewUser[q]] = NoRow
              /\ \A c \in challenges' : c.user # NewUser[q],
           Redeemed(q) => invites'[inv[q]] = invites[inv[q]],
           who[q] \in Users /\ lock[who[q]] = q =>
              Active(who[q], now[q])' \subseteq Active(who[q], now[q])
    PROVE  RequestInv(q)'
<1>. USE DEF Same
<1>1. CreationInv(q) /\ RegistrationInv(q)
  BY DEF Core, RequestInv
<1>2. now[q] \in Nat /\ clock \in Nat
  BY Numbers DEF Core, TypeOK
<1>3. now'[q] <= clock'
  BY <1>1, <1>2 DEF CreationInv
<1>4. ASSUME Counted(q)', Policy(q)' = "limited"
      PROVE  Cardinality(Active(who[q], now[q])') < MaxActive
  <2>1. Counted(q) /\ Policy(q) = "limited"
    BY <1>4 DEF Counted, Creating, Policy
  <2>2. /\ who[q] \in Users /\ lock[who[q]] = q
        /\ Cardinality(Active(who[q], now[q])) < MaxActive
    BY <1>1, <2>1 DEF CreationInv, Counted, Creating
  <2>3. /\ IsFiniteSet(Active(who[q], now[q]))
        /\ Cardinality(Active(who[q], now[q])) \in Nat
    BY ActiveFinite
  <2>4. /\ Cardinality(Active(who[q], now[q])') \in Nat
        /\ Cardinality(Active(who[q], now[q])') <= Cardinality(Active(who[q], now[q]))
    BY <2>2, <2>3, FS_Subset, FS_CardinalityType
  <2>. QED
    BY <2>2, <2>3, <2>4, Numbers
<1>5. CreationInv(q)'
  BY <1>1, <1>3, <1>4 DEF CreationInv, Creating, Counted
<1>6. RegistrationInv(q)'
  BY <1>1 DEF RegistrationInv, Redeemed, Creating, IsUsed
<1>. QED
  BY <1>5, <1>6 DEF RequestInv

(* A step that leaves the tables and the challenges alone leaves the other *)
(* requests, and the challenges, as sound as they were.                    *)
LEMMA QuietForOthers ==
    ASSUME Core, NEW r \in Requests, Others(r),
           UNCHANGED <<clock, wired, users, invites, challenges>>
    PROVE  /\ \A q \in Requests \ {r} : RequestInv(q)'
           /\ ChallengeInv'
<1>1. ASSUME NEW q \in Requests \ {r}
      PROVE  RequestInv(q)'
  <2>1. Same(q)
    BY DEF Others
  <2>2. CreationInv(q) /\ RegistrationInv(q)
    BY DEF Core, RequestInv
  <2>3. clock' \in Nat /\ clock <= clock'
    BY Numbers DEF Core, TypeOK
  <2>4. Active(who[q], now[q])' \subseteq Active(who[q], now[q])
    BY <2>1 DEF Active, Same
  <2>. QED
    BY <2>1, <2>2, <2>3, <2>4, OtherKept DEF CreationInv, RegistrationInv
<1>2. ChallengeInv'
  BY DEF Core, ChallengeInv, UsedBy
<1>. QED
  BY <1>1, <1>2

(* A request that comes to hold a row must find it free.                   *)
LEMMA RowKept ==
    ASSUME Core, NEW r \in Requests, Others(r),
           \A i \in InviteIDs : Holds(r, i)' =>
              \A q \in Requests \ {r} : ~Holds(q, i)
    PROVE  OneRedeemer'
<1>1. ASSUME NEW q \in Requests \ {r}, NEW i \in InviteIDs
      PROVE  Holds(q, i)' <=> Holds(q, i)
  BY DEF Others, Same, Holds
<1>2. ASSUME NEW p \in Requests, NEW q \in Requests, NEW i \in InviteIDs,
             Holds(p, i)', Holds(q, i)'
      PROVE  p = q
  <2>1. CASE p = r
    BY <1>1, <1>2, <2>1
  <2>2. CASE q = r
    BY <1>1, <1>2, <2>2
  <2>3. CASE p # r /\ q # r
    BY <1>1, <1>2, <2>3 DEF Core, OneRedeemer
  <2>. QED
    BY <2>1, <2>2, <2>3
<1>. QED
  BY <1>2 DEF OneRedeemer

-----------------------------------------------------------------------------
(* A request that begins.                                                  *)

(* What Begin does to the request, and that it touches nothing else.       *)
LEMMA BeginFacts ==
    ASSUME Core, NEW r \in Requests, NEW handler, NEW u \in Users,
           NEW i \in InviteIDs, NEW list, list = <<>> \/ list \in KeyLists,
           NEW label \in Labels, NEW answer \in Verdicts,
           Begin(r, handler, u, i, list, label, answer)
    PROVE  /\ TypeOK' /\ OneRedeemer' /\ ChallengeInv'
           /\ \A q \in Requests \ {r} : RequestInv(q)'
           /\ pc[r] = "idle" /\ pc'[r] = label /\ op'[r] = handler
           /\ who'[r] = u /\ inv'[r] = i /\ now'[r] = clock
           /\ pendInvite'[r] = NoRow /\ pendUser'[r] = NoRow
           /\ invites'[NewInvite[r]] = NoRow
<1>1. /\ TypeOK /\ CreationInv(r) /\ RegistrationInv(r)
  BY DEF Core, RequestInv
<1>2. /\ pc[r] = "idle" /\ pc'[r] = label /\ op'[r] = handler
      /\ who'[r] = u /\ inv'[r] = i /\ now'[r] = clock
      /\ pendInvite' = pendInvite /\ pendUser' = pendUser
      /\ UNCHANGED <<clock, wired, users, invites, challenges>>
  BY <1>1 DEF Begin, Goto, TypeOK, tables, pending
<1>3. pendInvite[r] = NoRow /\ pendUser[r] = NoRow /\ invites[NewInvite[r]] = NoRow
  BY <1>1, <1>2 DEF CreationInv, RegistrationInv
<1>4. Others(r)
  BY <1>1 DEF Begin, Goto, TypeOK, tables, pending, Others, Same
<1>5. handler \in AllHandlers
  BY ConstantsAssumption DEF Begin
<1>6. TypeOK'
  BY <1>1, <1>5 DEF Begin, Goto, TypeOK, tables, pending
<1>7. OneRedeemer'
  BY <1>2, <1>3, <1>4, RowKept DEF Holds
<1>. QED
  BY <1>2, <1>3, <1>4, <1>6, <1>7, QuietForOthers

(* A step that begins a request keeps the invariant.                       *)
LEMMA StartKeeps ==
    ASSUME Core, NEW r \in Requests, Start(r)
    PROVE  Core'
<1>. DEFINE Rest == /\ TypeOK' /\ OneRedeemer' /\ ChallengeInv'
                    /\ \A q \in Requests \ {r} : RequestInv(q)'
<1>1. TypeOK /\ CreationInv(r) /\ RegistrationInv(r) /\ ChallengeInv
  BY DEF Core, RequestInv
<1>2. NewInvite[r] \in InviteIDs /\ NewUser[r] \in Users /\ Root \in Users
  BY NewIDAssumption, ConstantsAssumption
<1>3. clock' <= clock'
  BY Numbers, <1>1 DEF TypeOK, Start, StartCreate, StartCreateRoot, StartBegin, StartFinish, Begin
<1>4. CASE StartCreate(r)
  <2>1. PICK u \in Users : Begin(r, "create", u, NewInvite[r], <<>>, "lock", "none")
    BY <1>4 DEF StartCreate
  <2>2. /\ Rest
        /\ pc[r] = "idle" /\ pc'[r] = "lock" /\ op'[r] = "create"
        /\ who'[r] = u /\ inv'[r] = NewInvite[r] /\ now'[r] = clock
        /\ pendInvite'[r] = NoRow /\ pendUser'[r] = NoRow
        /\ invites'[NewInvite[r]] = NoRow
    BY <1>2, <2>1, BeginFacts DEF Labels, Working, InTx, Verdicts
  <2>3. RequestInv(r)'
    BY <1>1, <1>3, <2>1, <2>2
       DEF Begin, RequestInv, CreationInv, RegistrationInv, Creating, Counted, Redeemed
  <2>. QED
    BY <2>2, <2>3 DEF Core
<1>5. CASE StartCreateRoot(r)
  <2>1. Begin(r, "createRoot", Root, NewInvite[r], <<>>, "lock", "none")
    BY <1>5 DEF StartCreateRoot
  <2>2. /\ Rest
        /\ pc[r] = "idle" /\ pc'[r] = "lock" /\ op'[r] = "createRoot"
        /\ who'[r] = Root /\ inv'[r] = NewInvite[r] /\ now'[r] = clock
        /\ pendInvite'[r] = NoRow /\ pendUser'[r] = NoRow
        /\ invites'[NewInvite[r]] = NoRow
    BY <1>2, <2>1, BeginFacts DEF Labels, Working, InTx, Verdicts
  <2>3. RequestInv(r)'
    BY <1>1, <1>2, <1>3, <2>1, <2>2
       DEF Begin, RequestInv, CreationInv, RegistrationInv, Creating, Counted, Redeemed
  <2>. QED
    BY <2>2, <2>3 DEF Core
<1>6. CASE StartBegin(r)
  <2>1. PICK i \in InviteIDs : Begin(r, "begin", NewUser[r], i, <<>>, "read", "none")
    BY <1>6 DEF StartBegin
  <2>2. /\ Rest
        /\ pc[r] = "idle" /\ pc'[r] = "read" /\ op'[r] = "begin"
        /\ who'[r] = NewUser[r] /\ inv'[r] = i /\ now'[r] = clock
        /\ pendInvite'[r] = NoRow /\ pendUser'[r] = NoRow
        /\ invites'[NewInvite[r]] = NoRow
    BY <1>2, <2>1, BeginFacts DEF Labels, Working, InTx, Verdicts
  <2>3. users' = users /\ challenges' = challenges /\ clock' = clock
    BY <2>1 DEF Begin, tables
  <2>4. RequestInv(r)'
    BY <1>1, <1>2, <1>3, <2>2, <2>3
       DEF RequestInv, CreationInv, RegistrationInv, Creating, Counted, Redeemed
  <2>. QED
    BY <2>2, <2>4 DEF Core
<1>7. CASE StartFinish(r)
  <2>1. PICK c \in challenges, u \in Users, i \in InviteIDs,
             list \in KeyLists, label \in {"open", "rollback"}, answer \in Verdicts :
                /\ c.user = u /\ c.invite = i
                /\ Begin(r, "finish", u, i, list, label, answer)
    <3>1. PICK c \in challenges, list \in KeyLists :
             Begin(r, "finish", c.user, c.invite, list,
                   IF Objection(c, list) = "none" THEN "open" ELSE "rollback",
                   Objection(c, list))
      BY <1>7 DEF StartFinish
    <3>2. Objection(c, list) \in Verdicts
      BY DEF Objection, Verdicts, Refusals
    <3>3. c.user \in Users /\ c.invite \in InviteIDs
      BY <1>1 DEF TypeOK, Challenge
    <3>. QED
      BY <3>1, <3>2, <3>3
  <2>2. label \in Labels
    BY DEF Labels, Working, InTx
  <2>3. /\ Rest
        /\ pc[r] = "idle" /\ pc'[r] = label /\ op'[r] = "finish"
        /\ who'[r] = u /\ inv'[r] = i /\ now'[r] = clock
        /\ pendInvite'[r] = NoRow /\ pendUser'[r] = NoRow
        /\ invites'[NewInvite[r]] = NoRow
    <3>1. /\ Rest
          /\ pc[r] = "idle" /\ pc'[r] = label /\ op'[r] = "finish"
      BY <2>1, <2>2, BeginFacts
    <3>2. who'[r] = u /\ inv'[r] = i /\ now'[r] = clock
      BY <1>1, <2>1 DEF Begin, TypeOK
    <3>3. /\ pendInvite'[r] = NoRow /\ pendUser'[r] = NoRow
          /\ invites'[NewInvite[r]] = NoRow
      BY <2>1, <2>2, BeginFacts
    <3>. QED
      BY <3>1, <3>2, <3>3
  <2>4. users' = users /\ challenges' = challenges /\ clock' = clock
    BY <2>1 DEF Begin, tables
  <2>5. RequestInv(r)'
    BY <1>1, <1>2, <1>3, <2>1, <2>3, <2>4
       DEF RequestInv, CreationInv, RegistrationInv, Creating, Counted, Redeemed
  <2>. QED
    BY <2>3, <2>5 DEF Core
<1>. QED
  BY <1>4, <1>5, <1>6, <1>7 DEF Start

-----------------------------------------------------------------------------
(* A request that creates an invite or registers a user.                   *)

(* A handler that refuses has kept whatever it had written; Rollback       *)
(* follows.                                                                *)
LEMMA RefuseKeeps ==
    ASSUME Core, NEW r \in Requests, NEW answer \in Verdicts,
           pc[r] \in {"count", "redeem", "account"}, Refuse(r, answer)
    PROVE  Core'
<1>1. TypeOK /\ CreationInv(r) /\ RegistrationInv(r)
  BY DEF Core, RequestInv
<1>2. /\ pc'[r] = "rollback"
      /\ UNCHANGED <<clock, wired, users, invites, challenges, lock, op, who, inv,
                     now, pendInvite, pendUser>>
  BY <1>1 DEF Refuse, Goto, TypeOK, tables, arguments, pending
<1>3. Others(r)
  BY <1>1, <1>2 DEF Refuse, Goto, TypeOK, Others, Same
<1>4. TypeOK'
  BY <1>1 DEF Refuse, Goto, TypeOK, Labels, Working, InTx, tables, arguments, pending
<1>5. OneRedeemer'
  BY <1>2 DEF Core, OneRedeemer, Holds
<1>6. RequestInv(r)'
  BY <1>1, <1>2
     DEF RequestInv, CreationInv, RegistrationInv, Creating, Counted, Redeemed
<1>. QED
  BY <1>2, <1>3, <1>4, <1>5, <1>6, QuietForOthers DEF Core

(* The steps of a request that creates an invite.                          *)
LEMMA CreateKeeps ==
    ASSUME Core, NEW r \in Requests, Create(r)
    PROVE  Core'
<1>1. TypeOK /\ CreationInv(r) /\ RegistrationInv(r)
  BY DEF Core, RequestInv
<1>2. CASE LockCreator(r)
  <2>1. /\ pc[r] = "lock" /\ pc'[r] = "count"
        /\ UNCHANGED <<clock, wired, users, invites, challenges, op, who, inv, now,
                       pendInvite, pendUser>>
    BY <1>1, <1>2 DEF LockCreator, Goto, TypeOK, tables, arguments, pending
  <2>2. /\ Creating(r) /\ who[r] \in Users
    BY <1>1, <2>1 DEF CreationInv
  <2>3. lock'[who[r]] = r
    BY <1>1, <1>2, <2>2 DEF LockCreator, TypeOK
  <2>4. Others(r)
    <3>1. ASSUME NEW q \in Requests \ {r}
          PROVE  Same(q)
      <4>1. who[q] \in Users /\ lock[who[q]] = q => lock'[who[q]] = q
        <5>1. q # None
          BY ConstantsAssumption
        <5>. QED
          BY <1>1, <1>2, <2>2, <5>1 DEF LockCreator, TypeOK
      <4>. QED
        BY <1>1, <1>2, <2>1, <4>1 DEF LockCreator, Goto, TypeOK, Same
    <3>. QED
      BY <3>1 DEF Others
  <2>5. TypeOK'
    BY <1>1, <1>2 DEF LockCreator, Goto, TypeOK, Labels, Working, InTx, tables,
                      arguments, pending
  <2>6. OneRedeemer'
    BY <2>1 DEF Core, OneRedeemer, Holds
  <2>7. RequestInv(r)'
    BY <1>1, <2>1, <2>2, <2>3
       DEF RequestInv, CreationInv, RegistrationInv, Creating, Counted, Redeemed
  <2>. QED
    BY <2>1, <2>4, <2>5, <2>6, <2>7, QuietForOthers DEF Core
<1>3. CASE CountOpen(r)
  <2>1. /\ pc[r] = "count" /\ pc'[r] = "insert"
        /\ CanIssue(r, Cardinality(Active(who[r], now[r])))
        /\ UNCHANGED <<clock, wired, users, invites, challenges, lock, op, who, inv,
                       now, pendInvite, pendUser>>
    BY <1>1, <1>3 DEF CountOpen, Goto, TypeOK, tables, arguments, pending
  <2>2. Others(r)
    BY <1>1, <1>3, <2>1 DEF CountOpen, Goto, TypeOK, Others, Same
  <2>3. TypeOK'
    BY <1>1, <1>3 DEF CountOpen, Goto, TypeOK, Labels, Working, InTx, tables,
                      arguments, pending
  <2>4. OneRedeemer'
    BY <2>1 DEF Core, OneRedeemer, Holds
  <2>5. Policy(r)' = "limited" => Cardinality(Active(who[r], now[r])') < MaxActive
    BY <2>1 DEF CanIssue, Policy, Active
  <2>6. RequestInv(r)'
    BY <1>1, <2>1, <2>5
       DEF RequestInv, CreationInv, RegistrationInv, Creating, Counted, Redeemed
  <2>. QED
    BY <2>1, <2>2, <2>3, <2>4, <2>6, QuietForOthers DEF Core
<1>4. CASE CountFull(r)
  BY <1>4, RefuseKeeps DEF CountFull, Verdicts, Refusals
<1>5. CASE Insert(r)
  <2>1. /\ pc[r] = "insert" /\ pc'[r] = "commit"
        /\ UNCHANGED <<clock, wired, users, invites, challenges, lock, op, who, inv,
                       now, pendUser>>
    BY <1>1, <1>5 DEF Insert, Goto, TypeOK, tables, arguments, pending
  <2>2. Creating(r) /\ who[r] \in Users
    BY <1>1, <2>1 DEF CreationInv
  <2>3. /\ pendInvite'[r] \in Invite
        /\ pendInvite'[r].creator = who[r] /\ pendInvite'[r].usedBy = None
        /\ pendInvite' = [pendInvite EXCEPT ![r] = pendInvite'[r]]
    <3>1. PICK ttl \in {TTL, RootTTL} :
             pendInvite' = [pendInvite EXCEPT ![r] = New(who[r], now[r], ttl)]
      BY <1>5 DEF Insert, Lifetime
    <3>2. now[r] \in 0..MaxTime
      BY <1>1 DEF TypeOK
    <3>3. PICK row : row = New(who[r], now[r], ttl)
      OBVIOUS
    <3>4. row \in Invite /\ row.creator = who[r] /\ row.usedBy = None
      BY <2>2, <3>2, <3>3, NewFields
    <3>5. pendInvite' = [pendInvite EXCEPT ![r] = row]
      BY <3>1, <3>3
    <3>6. pendInvite'[r] = row
      BY <1>1, <3>5 DEF TypeOK
    <3>. QED
      BY <3>4, <3>5, <3>6
  <2>4. Others(r)
    BY <1>1, <1>5, <2>1, <2>3 DEF Insert, Goto, TypeOK, Others, Same
  <2>5. TypeOK'
    BY <1>1, <1>5, <2>1, <2>3 DEF Insert, Goto, TypeOK, Labels, Working, InTx, arguments
  <2>6. OneRedeemer'
    BY <2>1, <2>2, <2>4, RowKept DEF Holds, Creating
  <2>7. Counted(r) /\ op[r] # "finish"
    BY <2>1, <2>2 DEF Counted, Creating
  <2>8. Policy(r)' = "limited" => Cardinality(Active(who[r], now[r])') < MaxActive
    BY <1>1, <2>1, <2>7 DEF CreationInv, Policy, Active
  <2>9. RequestInv(r)'
    BY <1>1, <2>1, <2>2, <2>3, <2>7, <2>8
       DEF RequestInv, CreationInv, RegistrationInv, Creating, Counted, Redeemed
  <2>. QED
    BY <2>1, <2>4, <2>5, <2>6, <2>9, QuietForOthers DEF Core
<1>. QED
  BY <1>2, <1>3, <1>4, <1>5 DEF Create

(* The steps of a request that registers a user, up to its commit.         *)
LEMMA RegisterKeeps ==
    ASSUME Core, NEW r \in Requests, Register(r)
    PROVE  Core'
<1>1. TypeOK /\ CreationInv(r) /\ RegistrationInv(r)
  BY DEF Core, RequestInv
<1>2. CASE Open(r)
  <2>1. /\ pc[r] = "open" /\ pc'[r] = "redeem" /\ now'[r] = clock /\ op[r] = "finish"
        /\ UNCHANGED <<clock, wired, users, invites, challenges, lock, op, who, inv,
                       pendInvite, pendUser>>
    BY <1>1, <1>2 DEF Open, Goto, TypeOK, RegistrationInv, tables, arguments, pending
  <2>2. Others(r)
    BY <1>1, <1>2, <2>1 DEF Open, Goto, TypeOK, Others, Same
  <2>3. TypeOK'
    BY <1>1, <1>2 DEF Open, Goto, TypeOK, Labels, Working, InTx, tables, arguments,
                      pending
  <2>4. OneRedeemer'
    BY <2>1 DEF Core, OneRedeemer, Holds
  <2>5. clock' <= clock'
    BY <1>1, <2>1, Numbers DEF TypeOK
  <2>6. RequestInv(r)'
    BY <1>1, <2>1, <2>5
       DEF RequestInv, CreationInv, RegistrationInv, Creating, Counted, Redeemed
  <2>. QED
    BY <2>1, <2>2, <2>3, <2>4, <2>6, QuietForOthers DEF Core
<1>3. CASE Redeem(r)
  <2>1. pc[r] = "redeem" /\ op[r] = "finish"
    BY <1>1, <1>3 DEF Redeem, RedeemUsed, RedeemExpired, RedeemOpen,
                      RegistrationInv
  <2>2. CASE RedeemOpen(r)
    <3>1. /\ who[r] \in Users /\ inv[r] \in InviteIDs
          /\ invites[inv[r]] \in Invite
      BY <2>1, RegistrationFacts
    <3>2. PICK row : row = [invites[inv[r]] EXCEPT !.usedBy = who[r]]
      OBVIOUS
    <3>3. row \in Invite /\ row # NoRow
      BY <3>1, <3>2, RedeemedFields
    <3>4. /\ ~IsUsed(invites[inv[r]]) /\ Free(r) /\ pc'[r] = "account"
          /\ pendInvite' = [pendInvite EXCEPT ![r] = row]
          /\ UNCHANGED <<clock, wired, users, invites, challenges, lock, op, who, inv,
                         keys, now, pendUser, verdict>>
      BY <1>1, <2>2, <3>2 DEF RedeemOpen, Goto, TypeOK, tables, arguments, pending
    <3>5. pendInvite'[r] = row
      BY <1>1, <3>4 DEF TypeOK
    <3>6. Others(r)
      BY <1>1, <2>2, <3>4 DEF RedeemOpen, Goto, TypeOK, Others, Same
    <3>7. TypeOK'
      <4>1. pc' \in [Requests -> Labels]
        BY <1>1, <2>2 DEF RedeemOpen, Goto, TypeOK, Labels, Working, InTx
      <4>2. pendInvite' \in [Requests -> Invite \cup {NoRow}]
        BY <1>1, <3>3, <3>4 DEF TypeOK
      <4>. QED
        BY <1>1, <3>4, <4>1, <4>2 DEF TypeOK
    <3>8. OneRedeemer'
      BY <3>4, <3>6, RowKept DEF Free, Holds
    <3>9. CreationInv(r)'
      BY <1>1, <2>1, <3>4 DEF CreationInv, Creating, Counted
    <3>10. RegistrationInv(r)'
      <4>1. Redeemed(r)' => /\ ~IsUsed(invites[inv[r]])'
                            /\ pendInvite'[r] = [invites'[inv'[r]] EXCEPT !.usedBy = who'[r]]
        BY <3>2, <3>4, <3>5 DEF IsUsed
      <4>. QED
        BY <1>1, <2>1, <3>4, <4>1 DEF RegistrationInv, Creating, Redeemed
    <3>. QED
      BY <3>4, <3>6, <3>7, <3>8, <3>9, <3>10, QuietForOthers DEF Core, RequestInv
  <2>3. CASE RedeemUsed(r) \/ RedeemExpired(r)
    BY <2>1, <2>3, RefuseKeeps DEF RedeemUsed, RedeemExpired, Verdicts, Refusals
  <2>. QED
    BY <1>3, <2>2, <2>3 DEF Redeem
<1>4. CASE ConstraintBroken(r)
  BY <1>4, RefuseKeeps DEF ConstraintBroken, Breaks, Verdicts, Refusals
<1>5. CASE Account(r)
  <2>1. pc[r] = "account" /\ op[r] = "finish" /\ Redeemed(r)
    BY <1>1, <1>5 DEF Account, RegistrationInv, Redeemed
  <2>2. /\ invites[inv[r]] \in Invite
        /\ invites[inv[r]].creator \in Users
    BY <2>1, RegistrationFacts
  <2>3. PICK row : row = [role |-> NextInviteeRole(invites[inv[r]].creator),
                          by   |-> invites[inv[r]].creator,
                          keys |-> ScopesOf(keys[r])]
    OBVIOUS
  <2>4. row \in User /\ row # NoRow /\ row.by = invites[inv[r]].creator
    <3>1. ScopesOf(keys[r]) \in SUBSET Scopes
      BY <1>1, ScopesTyped DEF TypeOK
    <3>2. NextInviteeRole(invites[inv[r]].creator) \in Roles
      BY DEF NextInviteeRole, Roles
    <3>. QED
      BY <2>2, <2>3, <3>1, <3>2, ConstantsAssumption DEF User
  <2>5. /\ pc'[r] = "commit"
        /\ pendUser' = [pendUser EXCEPT ![r] = row]
        /\ UNCHANGED <<clock, wired, users, invites, challenges, lock, op, who, inv,
                       keys, now, pendInvite, verdict>>
    BY <1>1, <1>5, <2>3 DEF Account, Goto, TypeOK, tables, arguments
  <2>6. pendUser'[r] = row
    BY <1>1, <2>5 DEF TypeOK
  <2>7. Others(r)
    BY <1>1, <1>5, <2>5 DEF Account, Goto, TypeOK, Others, Same
  <2>8. TypeOK'
    BY <1>1, <1>5, <2>4, <2>5 DEF Account, Goto, TypeOK, Labels, Working, InTx
  <2>9. OneRedeemer'
    BY <2>5 DEF Core, OneRedeemer, Holds
  <2>10. CreationInv(r)'
    BY <1>1, <2>1, <2>5 DEF CreationInv, Creating, Counted
  <2>11. RegistrationInv(r)'
    <3>1. /\ ~IsUsed(invites[inv[r]])
          /\ pendInvite[r] = [invites[inv[r]] EXCEPT !.usedBy = who[r]]
      BY <2>1, RedeemedFacts
    <3>2. /\ ~IsUsed(invites[inv[r]])'
          /\ pendInvite'[r] = [invites'[inv'[r]] EXCEPT !.usedBy = who'[r]]
      BY <3>1, <2>5 DEF IsUsed
    <3>. QED
      BY <1>1, <2>1, <2>4, <2>5, <2>6, <3>2 DEF RegistrationInv, Creating, Redeemed
  <2>. QED
    BY <2>5, <2>7, <2>8, <2>9, <2>10, <2>11, QuietForOthers DEF Core, RequestInv
<1>. QED
  BY <1>2, <1>3, <1>4, <1>5 DEF Register

-----------------------------------------------------------------------------
(* A request that ends.                                                    *)

(* What a commit installs: an invite under the id of its request, whose    *)
(* creator it has locked ...                                               *)
Issues(r) ==
    /\ Creating(r) /\ who[r] \in Users /\ lock[who[r]] = r
    /\ NewInvite[r] \in InviteIDs /\ invites[NewInvite[r]] = NoRow
    /\ users' = users
    /\ \E row \in Invite :
          /\ row.creator = who[r] /\ row.usedBy = None
          /\ invites' = [invites EXCEPT ![NewInvite[r]] = row]

(* ... or the user its invite was open for, and that in the invite.        *)
Admits(r) ==
    /\ Redeemed(r) /\ who[r] \in Users /\ inv[r] \in InviteIDs
    /\ invites[inv[r]] \in Invite /\ ~IsUsed(invites[inv[r]])
    /\ users[who[r]] = NoRow
    /\ \E row \in Invite :
          /\ row = [invites[inv[r]] EXCEPT !.usedBy = who[r]]
          /\ row.creator = invites[inv[r]].creator
          /\ row.expires = invites[inv[r]].expires
          /\ row.usedBy = who[r]
          /\ invites' = [invites EXCEPT ![inv[r]] = row]
    /\ \E user \in User :
          /\ user = pendUser[r] /\ user.by = invites[inv[r]].creator
          /\ users' = [users EXCEPT ![who[r]] = user]

(* A commit installs the one or the other, and nothing else.               *)
LEMMA CommitFacts ==
    ASSUME Core, NEW r \in Requests, pc[r] = "commit", Install(r)
    PROVE  Issues(r) \/ Admits(r)
<1>1. TypeOK /\ CreationInv(r) /\ RegistrationInv(r)
  BY DEF Core, RequestInv
<1>2. NoRow \notin Invite
  BY ConstantsAssumption
<1>3. CASE Creating(r)
  <2>1. /\ who[r] \in Users /\ lock[who[r]] = r /\ inv[r] = NewInvite[r]
        /\ invites[NewInvite[r]] = NoRow /\ pendUser[r] = NoRow
        /\ pendInvite[r] \in Invite /\ pendInvite[r].creator = who[r]
        /\ pendInvite[r].usedBy = None
    BY <1>1, <1>3 DEF CreationInv, RegistrationInv, Counted
  <2>2. NewInvite[r] \in InviteIDs
    BY NewIDAssumption
  <2>3. users' = users /\ invites' = [invites EXCEPT ![NewInvite[r]] = pendInvite[r]]
    BY <1>2, <2>1 DEF Install
  <2>. QED
    BY <1>3, <2>1, <2>2, <2>3 DEF Issues
<1>4. CASE ~Creating(r)
  <2>1. op[r] = "finish" /\ Redeemed(r)
    BY <1>1, <1>4 DEF RegistrationInv, Redeemed
  <2>2. /\ who[r] \in Users /\ inv[r] \in InviteIDs
        /\ invites[inv[r]] \in Invite
    BY <2>1, RegistrationFacts
  <2>3. /\ ~IsUsed(invites[inv[r]]) /\ users[who[r]] = NoRow
        /\ pendInvite[r] = [invites[inv[r]] EXCEPT !.usedBy = who[r]]
        /\ pendInvite[r] \in Invite /\ pendInvite[r] # NoRow
    BY <2>1, RedeemedFacts
  <2>4. /\ pendInvite[r].creator = invites[inv[r]].creator
        /\ pendInvite[r].expires = invites[inv[r]].expires
        /\ pendInvite[r].usedBy = who[r]
    BY <2>2, <2>3, RedeemedFields
  <2>5. /\ pendUser[r] \in User /\ pendUser[r] # NoRow
        /\ pendUser[r].by = invites[inv[r]].creator
    BY <1>1, <2>1 DEF RegistrationInv, TypeOK
  <2>6. /\ invites' = [invites EXCEPT ![inv[r]] = pendInvite[r]]
        /\ users' = [users EXCEPT ![who[r]] = pendUser[r]]
    BY <2>3, <2>5 DEF Install
  <2>. QED
    BY <2>1, <2>2, <2>3, <2>4, <2>5, <2>6 DEF Admits
<1>. QED
  BY <1>3, <1>4

(* What Finish does to the request, and that it touches no other one.      *)
LEMMA FinishFacts ==
    ASSUME Core, NEW r \in Requests, NEW answer \in Verdicts, Finish(r, answer)
    PROVE  /\ Others(r) /\ OneRedeemer'
           /\ users' \in [Users -> User \cup {NoRow}]
              /\ invites' \in [InviteIDs -> Invite \cup {NoRow}] => TypeOK'
           /\ pc'[r] = "done" /\ pendInvite'[r] = NoRow /\ pendUser'[r] = NoRow
           /\ UNCHANGED <<clock, wired, challenges>>
           /\ RequestInv(r)'
<1>1. TypeOK /\ CreationInv(r) /\ RegistrationInv(r)
  BY DEF Core, RequestInv
<1>2. /\ pc'[r] = "done" /\ pendInvite'[r] = NoRow /\ pendUser'[r] = NoRow
      /\ now'[r] = 0
      /\ UNCHANGED <<clock, wired, challenges, op, who, inv, keys>>
  BY <1>1 DEF Finish, Goto, TypeOK, arguments
<1>3. Others(r)
  BY <1>1, <1>2 DEF Finish, Goto, TypeOK, Others, Same
<1>4. lock' \in [Users -> Requests \cup {None}]
  BY <1>1 DEF Finish, TypeOK
<1>5. 0 \in 0..MaxTime /\ 0 <= clock'
  BY <1>1, <1>2, Numbers DEF TypeOK
<1>6. ASSUME users' \in [Users -> User \cup {NoRow}],
             invites' \in [InviteIDs -> Invite \cup {NoRow}]
      PROVE  TypeOK'
  BY <1>1, <1>2, <1>4, <1>5, <1>6 DEF Finish, Goto, TypeOK, Labels
<1>7. OneRedeemer'
  BY <1>2, <1>3, RowKept DEF Holds
<1>8. RequestInv(r)'
  BY <1>1, <1>2, <1>5
     DEF RequestInv, CreationInv, RegistrationInv, Creating, Counted, Redeemed
<1>. QED
  BY <1>2, <1>3, <1>6, <1>7, <1>8

(* A request that ends without a commit changes no table.                  *)
LEMMA EndKeeps ==
    ASSUME Core, NEW r \in Requests, NEW answer \in Verdicts,
           Finish(r, answer), UNCHANGED tables
    PROVE  Core'
<1>1. UNCHANGED <<users, invites>>
  BY DEF tables
<1>2. TypeOK'
  BY <1>1, FinishFacts DEF Core, TypeOK
<1>3. /\ \A q \in Requests \ {r} : RequestInv(q)'
      /\ ChallengeInv'
  BY <1>1, FinishFacts, QuietForOthers
<1>. QED
  BY <1>2, <1>3, FinishFacts DEF Core

(* A challenge that is given out binds an invite that exists and a         *)
(* candidate nobody else has.                                              *)
LEMMA ReadOpenKeeps ==
    ASSUME Core, NEW r \in Requests, ReadOpen(r)
    PROVE  Core'
<1>1. TypeOK /\ ChallengeInv /\ CreationInv(r) /\ RegistrationInv(r)
  BY DEF Core, RequestInv
<1>2. /\ pc[r] = "read" /\ pc'[r] = "done" /\ now'[r] = 0
      /\ invites[inv[r]] # NoRow
      /\ UNCHANGED <<clock, wired, users, invites, lock, op, who, inv, keys,
                     pendInvite, pendUser>>
  BY <1>1 DEF ReadOpen, Goto, TypeOK, tables, arguments, pending
<1>3. /\ op[r] = "begin" /\ who[r] = NewUser[r] /\ inv[r] \in InviteIDs
      /\ users[NewUser[r]] = NoRow
      /\ \A c \in challenges : c.user # NewUser[r]
  BY <1>1, <1>2 DEF RegistrationInv
<1>4. PICK new : new = [invite |-> inv[r], user |-> who[r],
                        expires |-> clock + ChallengeTTL]
  OBVIOUS
<1>5. /\ new \in Challenge /\ new.user = NewUser[r] /\ new.invite = inv[r]
      /\ challenges' = challenges \cup {new}
  <2>1. clock + ChallengeTTL \in Expiries
    BY <1>1, Numbers DEF TypeOK, Expiries
  <2>2. NewUser[r] \in Users
    BY NewIDAssumption
  <2>. QED
    BY <1>3, <1>4, <2>1, <2>2 DEF ReadOpen, Challenge
<1>6. Others(r)
  BY <1>1, <1>2 DEF ReadOpen, Goto, TypeOK, Others, Same
<1>7. clock' \in Nat /\ clock <= clock' /\ 0 <= clock' /\ 0 \in 0..MaxTime
  BY <1>1, <1>2, Numbers DEF TypeOK
<1>8. TypeOK'
  BY <1>1, <1>2, <1>5, <1>7 DEF ReadOpen, Goto, TypeOK, Labels, Verdicts
<1>9. OneRedeemer'
  BY <1>2 DEF Core, OneRedeemer, Holds
<1>10. ChallengeInv'
  <2>1. ASSUME NEW c \in challenges', NEW d \in challenges'
        PROVE  /\ invites'[c.invite] # NoRow
               /\ c.user = d.user => c.invite = d.invite
               /\ users'[c.user] # NoRow => UsedBy(c.invite, c.user)'
    <3>1. CASE c = new
      BY <1>2, <1>3, <1>5, <3>1
    <3>2. CASE c \in challenges /\ d = new
      BY <1>1, <1>2, <1>3, <1>5, <3>2 DEF ChallengeInv, UsedBy
    <3>3. CASE c \in challenges /\ d \in challenges
      BY <1>1, <1>2, <3>3 DEF ChallengeInv, UsedBy
    <3>. QED
      BY <1>5, <3>1, <3>2, <3>3
  <2>. QED
    BY <2>1 DEF ChallengeInv
<1>11. RequestInv(r)'
  BY <1>1, <1>2, <1>3, <1>7
     DEF RequestInv, CreationInv, RegistrationInv, Creating, Counted, Redeemed
<1>12. ASSUME NEW q \in Requests \ {r}
       PROVE  RequestInv(q)'
  <2>1. CreationInv(q) /\ RegistrationInv(q)
    BY DEF Core, RequestInv
  <2>2. Same(q)
    BY <1>6 DEF Others
  <2>3. NewUser[q] # NewUser[r]
    BY NewIDAssumption
  <2>4. pc[q] \in {"idle", "read"} =>
           /\ users'[NewUser[q]] = NoRow
           /\ \A c \in challenges' : c.user # NewUser[q]
    BY <1>2, <1>5, <2>1, <2>3 DEF RegistrationInv
  <2>5. pc[q] # "done" => invites'[NewInvite[q]] = NoRow
    BY <1>2, <2>1 DEF CreationInv
  <2>6. Active(who[q], now[q])' \subseteq Active(who[q], now[q])
    BY <1>2, <2>2 DEF Active, Same
  <2>7. challenges \subseteq challenges'
    BY <1>5
  <2>. QED
    BY <1>2, <1>7, <2>2, <2>4, <2>5, <2>6, <2>7, OtherKept
<1>. QED
  BY <1>8, <1>9, <1>10, <1>11, <1>12 DEF Core

(* A commit takes nothing from the requests that are still in flight: the  *)
(* id it inserts is its own, the row it updates is locked, and what it     *)
(* counted is behind the lock of the creator.                              *)
LEMMA CommitKeeps ==
    ASSUME Core, NEW r \in Requests, NEW answer \in Verdicts,
           pc[r] = "commit", Install(r), Finish(r, answer)
    PROVE  Core'
<1>1. TypeOK /\ OneRedeemer /\ ChallengeInv
  BY DEF Core
<1>2. /\ Others(r) /\ OneRedeemer' /\ RequestInv(r)'
      /\ UNCHANGED <<clock, wired, challenges>>
      /\ users' \in [Users -> User \cup {NoRow}]
         /\ invites' \in [InviteIDs -> Invite \cup {NoRow}] => TypeOK'
  BY FinishFacts
<1>3. clock' \in Nat /\ clock <= clock' /\ None \notin Users
  BY <1>1, <1>2, Numbers, ConstantsAssumption DEF TypeOK
<1>4. CASE Issues(r)
  <2>1. /\ who[r] \in Users /\ lock[who[r]] = r
        /\ NewInvite[r] \in InviteIDs /\ invites[NewInvite[r]] = NoRow
        /\ users' = users
    BY <1>4 DEF Issues
  <2>2. PICK row \in Invite :
           /\ row.creator = who[r] /\ row.usedBy = None
           /\ invites' = [invites EXCEPT ![NewInvite[r]] = row]
    BY <1>4 DEF Issues
  <2>3. \A i \in InviteIDs : invites'[i] = IF i = NewInvite[r] THEN row ELSE invites[i]
    BY <1>1, <2>2 DEF TypeOK
  <2>4. TypeOK'
    BY <1>1, <1>2, <2>1, <2>2 DEF TypeOK
  <2>5. ChallengeInv'
    <3>1. ASSUME NEW c \in challenges
          PROVE  invites'[c.invite] = invites[c.invite]
      <4>1. c.invite \in InviteIDs /\ invites[c.invite] # NoRow
        BY <1>1 DEF TypeOK, ChallengeInv, Challenge
      <4>. QED
        BY <2>1, <2>3, <4>1
    <3>. QED
      BY <1>1, <1>2, <2>1, <3>1 DEF ChallengeInv, UsedBy
  <2>6. ASSUME NEW q \in Requests \ {r}
        PROVE  RequestInv(q)'
    <3>1. Same(q) /\ CreationInv(q) /\ RegistrationInv(q)
      BY <1>2 DEF Others, Core, RequestInv
    <3>2. NewInvite[q] # NewInvite[r] /\ NewInvite[q] \in InviteIDs
      BY NewIDAssumption
    <3>3. pc[q] # "done" => invites'[NewInvite[q]] = NoRow
      BY <2>3, <3>1, <3>2 DEF CreationInv
    <3>4. pc[q] \in {"idle", "read"} =>
             /\ users'[NewUser[q]] = NoRow
             /\ \A c \in challenges' : c.user # NewUser[q]
      BY <1>2, <2>1, <3>1 DEF RegistrationInv
    <3>5. Redeemed(q) => invites'[inv[q]] = invites[inv[q]]
      <4>1. SUFFICES ASSUME Redeemed(q) PROVE invites'[inv[q]] = invites[inv[q]]
        OBVIOUS
      <4>2. inv[q] \in InviteIDs /\ invites[inv[q]] # NoRow
        BY <4>1, RegistrationFacts DEF Redeemed
      <4>. QED
        BY <2>1, <2>3, <4>2
    <3>6. who[q] \in Users /\ lock[who[q]] = q =>
             Active(who[q], now[q])' \subseteq Active(who[q], now[q])
      <4>1. SUFFICES ASSUME lock[who[q]] = q
                     PROVE  Active(who[q], now[q])' \subseteq Active(who[q], now[q])
        OBVIOUS
      <4>2. who[q] # who[r]
        BY <2>1, <4>1
      <4>. QED
        BY <2>2, <2>3, <3>1, <4>2 DEF Active, Same
    <3>. QED
      BY <1>2, <1>3, <3>1, <3>3, <3>4, <3>5, <3>6, OtherKept
  <2>. QED
    BY <1>2, <2>4, <2>5, <2>6 DEF Core
<1>5. CASE Admits(r)
  <2>1. /\ Redeemed(r) /\ who[r] \in Users /\ inv[r] \in InviteIDs
        /\ invites[inv[r]] \in Invite /\ invites[inv[r]].usedBy = None
        /\ invites[inv[r]] # NoRow
        /\ users[who[r]] = NoRow
    BY <1>5, ConstantsAssumption DEF Admits, IsUsed
  <2>2. PICK row \in Invite :
           /\ row.creator = invites[inv[r]].creator
           /\ row.expires = invites[inv[r]].expires
           /\ row.usedBy = who[r]
           /\ invites' = [invites EXCEPT ![inv[r]] = row]
    BY <1>5 DEF Admits
  <2>3. PICK user \in User : users' = [users EXCEPT ![who[r]] = user]
    BY <1>5 DEF Admits
  <2>4. /\ \A i \in InviteIDs : invites'[i] = IF i = inv[r] THEN row ELSE invites[i]
        /\ \A u \in Users : users'[u] = IF u = who[r] THEN user ELSE users[u]
    BY <1>1, <2>2, <2>3 DEF TypeOK
  <2>5. row # NoRow /\ user # NoRow
    BY ConstantsAssumption
  <2>6. TypeOK'
    BY <1>1, <1>2, <2>2, <2>3 DEF TypeOK
  <2>7. PICK mine \in challenges : mine.user = who[r] /\ mine.invite = inv[r]
    BY <2>1, RegistrationFacts DEF Redeemed
  <2>8. ChallengeInv'
    <3>1. ASSUME NEW c \in challenges, NEW d \in challenges
          PROVE  /\ invites'[c.invite] # NoRow
                 /\ c.user = d.user => c.invite = d.invite
                 /\ users'[c.user] # NoRow => UsedBy(c.invite, c.user)'
      <4>1. /\ c.invite \in InviteIDs /\ c.user \in Users
            /\ invites[c.invite] # NoRow
            /\ c.user = d.user => c.invite = d.invite
            /\ c.user = mine.user => c.invite = mine.invite
            /\ users[c.user] # NoRow => UsedBy(c.invite, c.user)
        BY <1>1 DEF TypeOK, Challenge, ChallengeInv
      <4>2. CASE c.user = who[r]
        BY <2>2, <2>4, <2>5, <2>7, <4>1, <4>2 DEF UsedBy
      <4>3. CASE c.user # who[r]
        BY <1>3, <2>1, <2>4, <2>5, <4>1, <4>3 DEF UsedBy
      <4>. QED
        BY <4>2, <4>3
    <3>. QED
      BY <1>2, <3>1 DEF ChallengeInv
  <2>9. ASSUME NEW q \in Requests \ {r}
        PROVE  RequestInv(q)'
    <3>1. Same(q) /\ CreationInv(q) /\ RegistrationInv(q)
      BY <1>2 DEF Others, Core, RequestInv
    <3>2. NewInvite[q] \in InviteIDs /\ NewUser[q] \in Users
      BY NewIDAssumption
    <3>3. pc[q] # "done" => invites'[NewInvite[q]] = NoRow
      BY <2>1, <2>4, <3>1, <3>2 DEF CreationInv
    <3>4. pc[q] \in {"idle", "read"} =>
             /\ users'[NewUser[q]] = NoRow
             /\ \A c \in challenges' : c.user # NewUser[q]
      BY <1>2, <2>4, <2>7, <3>1, <3>2 DEF RegistrationInv
    <3>5. Redeemed(q) => invites'[inv[q]] = invites[inv[q]]
      <4>1. SUFFICES ASSUME Redeemed(q) PROVE invites'[inv[q]] = invites[inv[q]]
        OBVIOUS
      <4>2. inv[q] \in InviteIDs
        BY <4>1, RegistrationFacts DEF Redeemed
      <4>3. Holds(q, inv[q]) /\ Holds(r, inv[r])
        BY <2>1, <4>1, RedeemedFacts
      <4>4. inv[q] # inv[r]
        BY <1>1, <2>1, <4>2, <4>3 DEF OneRedeemer
      <4>. QED
        BY <2>4, <4>2, <4>4
    <3>6. Active(who[q], now[q])' \subseteq Active(who[q], now[q])
      BY <1>3, <2>1, <2>2, <2>4, <3>1 DEF Active, Same
    <3>. QED
      BY <1>2, <1>3, <3>1, <3>3, <3>4, <3>5, <3>6, OtherKept
  <2>. QED
    BY <1>2, <2>6, <2>8, <2>9 DEF Core
<1>. QED
  BY <1>4, <1>5, CommitFacts

(* Time passes for everybody.                                              *)
LEMMA TickKeeps ==
    ASSUME Core, Tick
    PROVE  Core'
<1>1. TypeOK
  BY DEF Core
<1>2. /\ clock' \in 0..MaxTime /\ clock' \in Nat /\ clock <= clock'
      /\ UNCHANGED <<wired, users, invites, challenges, lock, pc, op, who, inv, keys,
                     now, pendInvite, pendUser, verdict>>
  BY <1>1, Numbers DEF Tick, TypeOK, tables, arguments, pending
<1>3. TypeOK'
  BY <1>1, <1>2 DEF TypeOK
<1>4. OneRedeemer' /\ ChallengeInv'
  BY <1>2 DEF Core, OneRedeemer, Holds, ChallengeInv, UsedBy
<1>5. ASSUME NEW q \in Requests
      PROVE  RequestInv(q)'
  <2>1. CreationInv(q) /\ RegistrationInv(q)
    BY DEF Core, RequestInv
  <2>2. Same(q)
    BY <1>2 DEF Same
  <2>3. Active(who[q], now[q])' \subseteq Active(who[q], now[q])
    BY <1>2 DEF Active
  <2>. QED
    BY <1>2, <2>1, <2>2, <2>3, OtherKept DEF CreationInv, RegistrationInv
<1>. QED
  BY <1>3, <1>4, <1>5 DEF Core

(* What is left of a request's steps: the ones that end it.                *)
LEMMA StepKeeps ==
    ASSUME Core, NEW r \in Requests, Step(r)
    PROVE  Core'
<1>1. verdict[r] \in Verdicts /\ {"ok", "error", "used", "expired"} \subseteq Verdicts
  BY DEF Core, TypeOK, Verdicts, Refusals
<1>2. CASE Start(r)
  BY <1>2, StartKeeps
<1>3. CASE Create(r)
  BY <1>3, CreateKeeps
<1>4. CASE Read(r)
  <2>1. CASE ReadOpen(r)
    BY <2>1, ReadOpenKeeps
  <2>2. CASE ReadUnknown(r) \/ ReadUsed(r) \/ ReadExpired(r)
    <3>1. PICK answer \in Verdicts : Finish(r, answer) /\ UNCHANGED tables
      BY <1>1, <2>2 DEF ReadUnknown, ReadUsed, ReadExpired, Turned
    <3>. QED
      BY <3>1, EndKeeps
  <2>. QED
    BY <1>4, <2>1, <2>2 DEF Read
<1>5. CASE Register(r)
  BY <1>5, RegisterKeeps
<1>6. CASE Commit(r) \/ CommitUnseen(r)
  <2>1. PICK answer \in Verdicts :
           pc[r] = "commit" /\ Install(r) /\ Finish(r, answer)
    BY <1>1, <1>6 DEF Commit, CommitUnseen
  <2>. QED
    BY <2>1, CommitKeeps
<1>7. CASE Rollback(r) \/ Fail(r)
  <2>1. PICK answer \in Verdicts : Finish(r, answer) /\ UNCHANGED tables
    BY <1>1, <1>7 DEF Rollback, Fail
  <2>. QED
    BY <2>1, EndKeeps
<1>. QED
  BY <1>2, <1>3, <1>4, <1>5, <1>6, <1>7 DEF Step, Proceed

(* Every step keeps the invariant without the cap.                         *)
LEMMA NextKeeps ==
    ASSUME Core, [Next]_vars
    PROVE  Core'
<1>1. CASE Tick
  BY <1>1, TickKeeps
<1>2. CASE \E r \in Requests : Step(r)
  BY <1>2, StepKeeps
<1>3. CASE UNCHANGED vars
  <2>1. UNCHANGED <<clock, wired, users, invites, challenges, lock, pc, op, who, inv,
                    keys, now, pendInvite, pendUser, verdict>>
    BY <1>3 DEF vars, tables, arguments, pending
  <2>2. TypeOK'
    BY <2>1 DEF Core, TypeOK
  <2>3. OneRedeemer' /\ ChallengeInv'
    BY <2>1 DEF Core, OneRedeemer, Holds, ChallengeInv, UsedBy
  <2>4. ASSUME NEW q \in Requests
        PROVE  RequestInv(q)'
    <3>1. CreationInv(q) /\ RegistrationInv(q)
      BY DEF Core, RequestInv
    <3>2. Same(q)
      BY <2>1 DEF Same
    <3>3. Active(who[q], now[q])' \subseteq Active(who[q], now[q])
      BY <2>1 DEF Active
    <3>4. clock' \in Nat /\ clock <= clock'
      BY <2>1, Numbers DEF Core, TypeOK
    <3>. QED
      BY <2>1, <3>1, <3>2, <3>3, <3>4, OtherKept DEF CreationInv, RegistrationInv
  <2>. QED
    BY <2>2, <2>3, <2>4 DEF Core
<1>. QED
  BY <1>1, <1>2, <1>3 DEF Next, Finished

(* It holds of what earlier traffic left.                                  *)
LEMMA InitHolds ==
    ASSUME Init
    PROVE  Core
<1>1. TypeOK
  <2>1. 0 \in 0..MaxTime
    BY Numbers
  <2>. QED
    BY <2>1, InitAssumption DEF Init, TypeOK, Labels, Verdicts
<1>2. OneRedeemer
  BY DEF Init, OneRedeemer, Holds
<1>3. ChallengeInv
  BY InitAssumption DEF Init, ChallengeInv
<1>4. ASSUME NEW r \in Requests
      PROVE  RequestInv(r)
  <2>1. /\ invites[NewInvite[r]] = NoRow /\ users[NewUser[r]] = NoRow
        /\ \A c \in challenges : c.user # NewUser[r]
    BY NewIDAssumption DEF Init
  <2>2. /\ pc[r] = "idle" /\ op[r] = "none" /\ now[r] = 0 /\ clock = 0
        /\ pendInvite[r] = NoRow /\ pendUser[r] = NoRow
    BY DEF Init
  <2>. QED
    BY <2>1, <2>2
       DEF RequestInv, CreationInv, RegistrationInv, Creating, Counted, Redeemed
<1>. QED
  BY <1>1, <1>2, <1>3, <1>4 DEF Core

-----------------------------------------------------------------------------
(* What follows.                                                           *)

(* At any time, what each request in flight knows is true, a row of        *)
(* invites is held by one registration at most, and a candidate is a user  *)
(* only if the invite of its challenge names it.                           *)
THEOREM Invariance == Spec => []Core
<1>1. Init => Core
  BY InitHolds
<1>2. Core /\ [Next]_vars => Core'
  BY NextKeeps
<1>. QED
  BY <1>1, <1>2, PTL DEF Spec

(* Rows, challenges, requests and answers are always well typed.           *)
THEOREM TypeCorrect == Spec => []TypeOK
<1>1. Core => TypeOK
  BY DEF Core
<1>. QED
  BY <1>1, Invariance, PTL

(* A row of a table changes only when a transaction commits.               *)
LEMMA StepTables ==
    ASSUME NEW r \in Requests, Step(r)
    PROVE  \/ users' = users /\ invites' = invites /\ clock' = clock
           \/ pc[r] = "commit" /\ Install(r) /\ clock' = clock
<1>1. CASE Start(r)
  BY <1>1 DEF Start, StartCreate, StartCreateRoot, StartBegin, StartFinish, Begin, tables
<1>2. CASE Create(r)
  BY <1>2 DEF Create, LockCreator, CountOpen, CountFull, Insert, Refuse, tables
<1>3. CASE Read(r)
  BY <1>3 DEF Read, ReadUnknown, ReadUsed, ReadExpired, ReadOpen, Turned, Finish, tables
<1>4. CASE Register(r)
  BY <1>4 DEF Register, Open, Redeem, RedeemUsed, RedeemExpired,
              RedeemOpen, ConstraintBroken, Breaks, Account, Refuse, tables
<1>5. CASE Commit(r) \/ CommitUnseen(r)
  BY <1>5 DEF Commit, CommitUnseen, Finish
<1>6. CASE Rollback(r) \/ Fail(r)
  BY <1>6 DEF Rollback, Fail, Finish, tables
<1>. QED
  BY <1>1, <1>2, <1>3, <1>4, <1>5, <1>6 DEF Step, Proceed

(* So while time passes, or a step commits, never both.                    *)
LEMMA TablesByCommit ==
    ASSUME Core, [Next]_vars
    PROVE  \/ users' = users /\ invites' = invites
              /\ clock' \in Nat /\ clock <= clock'
           \/ \E r \in Requests : pc[r] = "commit" /\ Install(r) /\ clock' = clock
<1>1. clock \in Nat
  BY Numbers DEF Core, TypeOK
<1>2. CASE Tick
  BY <1>1, <1>2 DEF Tick, tables
<1>3. CASE UNCHANGED vars
  BY <1>1, <1>3 DEF vars, tables
<1>4. CASE \E r \in Requests : Step(r)
  BY <1>1, <1>4, StepTables
<1>. QED
  BY <1>1, <1>2, <1>3, <1>4 DEF Next, Finished

(* A row of invites is never deleted and only ever changes from unused to  *)
(* used, once; a row of users never changes: two registrations with one    *)
(* invite cannot both write it, because the second finds it locked and     *)
(* then used.                                                              *)
THEOREM RowsFinal == Spec => RowsAreFinal
<1>. DEFINE Kept ==
              /\ \A i \in InviteIDs : invites[i] # NoRow =>
                    \/ invites'[i] = invites[i]
                    \/ /\ ~IsUsed(invites[i])
                       /\ \E u \in Users : invites'[i] = [invites[i] EXCEPT !.usedBy = u]
              /\ \A u \in Users : users[u] # NoRow => users'[u] = users[u]
<1>1. ASSUME Core, [Next]_vars PROVE Kept
  <2>1. CASE users' = users /\ invites' = invites
    BY <2>1
  <2>2. ASSUME NEW r \in Requests, pc[r] = "commit", Install(r)
        PROVE  Kept
    <3>1. TypeOK
      BY <1>1 DEF Core
    <3>2. CASE Issues(r)
      BY <3>1, <3>2 DEF Issues, TypeOK
    <3>3. CASE Admits(r)
      <4>1. ASSUME NEW i \in InviteIDs, invites[i] # NoRow
            PROVE  \/ invites'[i] = invites[i]
                   \/ /\ ~IsUsed(invites[i])
                      /\ \E u \in Users : invites'[i] = [invites[i] EXCEPT !.usedBy = u]
        BY <3>1, <3>3 DEF Admits, TypeOK
      <4>2. \A u \in Users : users[u] # NoRow => users'[u] = users[u]
        BY <3>1, <3>3 DEF Admits, TypeOK
      <4>. QED
        BY <4>1, <4>2
    <3>. QED
      BY <1>1, <2>2, <3>2, <3>3, CommitFacts
  <2>. QED
    BY <1>1, <2>1, <2>2, TablesByCommit
<1>2. Core /\ [Next]_vars => [Kept]_vars
  BY <1>1
<1>3. Core /\ [Next]_vars =>
         [/\ \A i \in InviteIDs : invites[i] # NoRow =>
                \/ invites'[i] = invites[i]
                \/ /\ ~IsUsed(invites[i])
                   /\ \E u \in Users : invites'[i] = [invites[i] EXCEPT !.usedBy = u]
          /\ \A u \in Users : users[u] # NoRow => users'[u] = users[u]]_vars
  BY <1>2
<1>. QED
  BY <1>3, Invariance, PTL DEF Spec, RowsAreFinal

(* However many of a user's requests overlap, the advisory lock keeps the  *)
(* invites of the user within the limit, if the handler was not given the  *)
(* unlimited policy of the root's own invites.                             *)
LEMMA CapKept ==
    ASSUME wired = "limited", Core, ActiveWithinLimit, [Next]_vars
    PROVE  ActiveWithinLimit'
<1>1. TypeOK /\ TypeOK'
  BY NextKeeps DEF Core
<1>2. \A i \in InviteIDs : invites[i] # NoRow => invites[i].expires \in Nat
  BY <1>1, Numbers DEF TypeOK, Invite, Expiries
<1>3. clock \in Nat /\ MaxActive \in Nat
  BY <1>1, Numbers DEF TypeOK
<1>4. SUFFICES ASSUME NEW u \in Users \ {Root}
               PROVE  Cardinality(Active(u, clock)') <= MaxActive
  BY DEF ActiveWithinLimit
<1>5. Cardinality(Active(u, clock)) <= MaxActive
  BY DEF ActiveWithinLimit
<1>6. ASSUME Active(u, clock)' \subseteq Active(u, clock)
      PROVE  Cardinality(Active(u, clock)') <= MaxActive
  <2>1. /\ Cardinality(Active(u, clock)') \in Nat
        /\ Cardinality(Active(u, clock)') <= Cardinality(Active(u, clock))
    BY <1>6, ActiveFinite, FS_Subset, FS_CardinalityType
  <2>. QED
    BY <1>3, <1>5, <2>1, ActiveFinite
<1>7. CASE users' = users /\ invites' = invites /\ clock' \in Nat /\ clock <= clock'
  <2>1. Active(u, clock)' \subseteq Active(u, clock)
    BY <1>2, <1>3, <1>7 DEF Active
  <2>. QED
    BY <1>6, <2>1
<1>8. ASSUME NEW r \in Requests, pc[r] = "commit", Install(r), clock' = clock
      PROVE  Cardinality(Active(u, clock)') <= MaxActive
  <2>1. CASE Admits(r)
    <3>1. Active(u, clock)' \subseteq Active(u, clock)
      BY <1>1, <1>8, <2>1, ConstantsAssumption DEF Admits, TypeOK, Active
    <3>. QED
      BY <1>6, <3>1
  <2>2. CASE Issues(r)
    <3>1. PICK row \in Invite :
             /\ row.creator = who[r] /\ row.usedBy = None
             /\ invites' = [invites EXCEPT ![NewInvite[r]] = row]
      BY <2>2 DEF Issues
    <3>2. NewInvite[r] \in InviteIDs /\ invites[NewInvite[r]] = NoRow /\ Creating(r)
      BY <2>2 DEF Issues
    <3>3. CASE who[r] # u
      <4>1. Active(u, clock)' \subseteq Active(u, clock)
        BY <1>1, <1>8, <3>1, <3>3 DEF TypeOK, Active
      <4>. QED
        BY <1>6, <4>1
    <3>4. CASE who[r] = u
      <4>1. CreationInv(r)
        BY DEF Core, RequestInv
      <4>2. Policy(r) = "limited" /\ Counted(r)
        BY <1>1, <1>8, <3>2, <3>4, <4>1, ConstantsAssumption
           DEF TypeOK, CreationInv, Creating, Counted, Policy
      <4>3. Cardinality(Active(u, now[r])) < MaxActive
        BY <3>4, <4>1, <4>2 DEF CreationInv
      <4>. DEFINE old == Active(u, now[r])
      <4>4. IsFiniteSet(old) /\ Cardinality(old) \in Nat /\ NewInvite[r] \notin old
        <5>1. IsFiniteSet(old) /\ Cardinality(old) \in Nat
          BY ActiveFinite
        <5>2. NewInvite[r] \notin old
          BY <3>2 DEF Active
        <5>. QED
          BY <5>1, <5>2
      <4>5. Active(u, clock)' \subseteq old \cup {NewInvite[r]}
        <5>1. now[r] \in Nat /\ now[r] <= clock
          BY <1>1, <4>1, Numbers DEF TypeOK, CreationInv
        <5>. QED
          BY <1>1, <1>2, <1>3, <1>8, <3>1, <5>1 DEF TypeOK, Active
      <4>. HIDE DEF old
      <4>6. /\ IsFiniteSet(old \cup {NewInvite[r]})
            /\ Cardinality(old \cup {NewInvite[r]}) = Cardinality(old) + 1
        BY <4>4, FS_AddElement
      <4>7. /\ Cardinality(Active(u, clock)') \in Nat
            /\ Cardinality(Active(u, clock)') <= Cardinality(old \cup {NewInvite[r]})
        BY <4>5, <4>6, FS_Subset, FS_CardinalityType
      <4>8. Cardinality(old) < MaxActive
        BY <4>3 DEF old
      <4>. QED
        BY <1>3, <4>4, <4>6, <4>7, <4>8
    <3>. QED
      BY <3>3, <3>4
  <2>. QED
    BY <1>8, <2>1, <2>2, CommitFacts
<1>. QED
  BY <1>7, <1>8, TablesByCommit

(* Earlier traffic kept within the limit.                                  *)
LEMMA InitCap ==
    ASSUME Init
    PROVE  ActiveWithinLimit
<1>1. ASSUME NEW u \in Users \ {Root}
      PROVE  Cardinality(Active(u, clock)) <= MaxActive
  <2>. DEFINE early == {i \in InviteIDs : /\ InitInvites[i] # NoRow
                                          /\ InitInvites[i].creator = u
                                          /\ InitInvites[i].expires > 0}
  <2>1. Cardinality(early) <= MaxActive
    BY InitAssumption
  <2>2. Active(u, clock) \subseteq early /\ early \subseteq InviteIDs
    BY DEF Active, Init
  <2>. HIDE DEF early
  <2>3. IsFiniteSet(early)
    BY <2>2, ConstantsAssumption, FS_Subset
  <2>4. /\ Cardinality(early) \in Nat /\ Cardinality(Active(u, clock)) \in Nat
        /\ Cardinality(Active(u, clock)) <= Cardinality(early)
    BY <2>2, <2>3, FS_Subset, FS_CardinalityType
  <2>. QED
    BY <2>1, <2>4, Numbers
<1>. QED
  BY <1>1 DEF ActiveWithinLimit

(* Nothing changes what the handler was given at startup.                  *)
LEMMA WiringStays ==
    ASSUME [Next]_vars
    PROVE  wired' = wired
<1>1. ASSUME NEW r \in Requests, Step(r)
      PROVE  wired' = wired
  <2>1. CASE Start(r)
    BY <2>1 DEF Start, StartCreate, StartCreateRoot, StartBegin, StartFinish, Begin
  <2>2. CASE Create(r)
    BY <2>2 DEF Create, LockCreator, CountOpen, CountFull, Insert, Refuse
  <2>3. CASE Read(r)
    BY <2>3 DEF Read, ReadUnknown, ReadUsed, ReadExpired, ReadOpen, Turned, Finish
  <2>4. CASE Register(r)
    BY <2>4 DEF Register, Open, Redeem, RedeemUsed, RedeemExpired, RedeemOpen,
                ConstraintBroken, Account, Refuse
  <2>5. CASE Commit(r) \/ CommitUnseen(r) \/ Rollback(r) \/ Fail(r)
    BY <2>5 DEF Commit, CommitUnseen, Rollback, Fail, Finish
  <2>. QED
    BY <1>1, <2>1, <2>2, <2>3, <2>4, <2>5 DEF Step, Proceed
<1>. QED
  BY <1>1 DEF Next, Tick, Finished, vars

(* CreateInvite (LimitedKeepsCap): where the handler was given the limited *)
(* use case, a user never has more than MaxActive invites that are open,   *)
(* however many of its requests overlap, although the container may have   *)
(* chosen the other: what a creation counted is still what there is when   *)
(* it commits, because it holds the lock of its creator.                   *)
THEOREM CapHolds == Spec => []LimitedKeepsCap
<1>1. Init => LimitedKeepsCap
  BY InitCap DEF LimitedKeepsCap
<1>2. Core /\ LimitedKeepsCap /\ [Next]_vars => LimitedKeepsCap'
  BY CapKept, WiringStays DEF LimitedKeepsCap
<1>. QED
  BY <1>1, <1>2, Invariance, PTL DEF Spec

(* The whole invariant: the types, what each request in flight knows, and  *)
(* the cap of the limited wiring.                                          *)
THEOREM InvariantHolds == Spec => []IInv
<1>1. Core /\ LimitedKeepsCap => IInv
  BY DEF Core, RequestInv, IInv
<1>. QED
  BY <1>1, Invariance, CapHolds, PTL

(* A commit that admits a user leaves it in the used_by of one invite,     *)
(* whose creator is its inviter; every other user is where it was.         *)
LEMMA AdmissionKept ==
    ASSUME Core, InviteAdmitsOne, [Next]_vars
    PROVE  InviteAdmitsOne'
<1>1. TypeOK /\ NoRow \notin User \cup Invite /\ None \notin Users
  BY ConstantsAssumption DEF Core
<1>2. CASE users' = users /\ invites' = invites
  BY <1>2 DEF InviteAdmitsOne, UsedBy, Admitted
<1>3. ASSUME NEW r \in Requests, pc[r] = "commit", Install(r)
      PROVE  InviteAdmitsOne'
  <2>1. CASE Issues(r)
    <3>1. /\ NewInvite[r] \in InviteIDs /\ invites[NewInvite[r]] = NoRow
          /\ users' = users
      BY <2>1 DEF Issues
    <3>2. PICK row \in Invite :
             /\ row.usedBy = None
             /\ invites' = [invites EXCEPT ![NewInvite[r]] = row]
      BY <2>1 DEF Issues
    <3>3. ASSUME NEW i \in InviteIDs, NEW u \in Users
          PROVE  /\ UsedBy(i, u)' <=> UsedBy(i, u)
                 /\ UsedBy(i, u) => invites'[i] = invites[i]
      BY <1>1, <3>1, <3>2 DEF TypeOK, UsedBy
    <3>4. Admitted' = Admitted
      BY <3>1 DEF Admitted
    <3>5. ASSUME NEW u \in Admitted'
          PROVE  \E i \in InviteIDs : /\ UsedBy(i, u)'
                                      /\ \A j \in InviteIDs : UsedBy(j, u)' => j = i
      BY <3>3, <3>4 DEF InviteAdmitsOne, Admitted
    <3>6. ASSUME NEW i \in InviteIDs, NEW u \in Users, UsedBy(i, u)'
          PROVE  users'[u] # NoRow /\ users'[u].by = invites'[i].creator
      BY <3>1, <3>3, <3>6 DEF InviteAdmitsOne
    <3>. QED
      BY <3>5, <3>6 DEF InviteAdmitsOne
  <2>2. CASE Admits(r)
    <3>1. /\ who[r] \in Users /\ inv[r] \in InviteIDs
          /\ invites[inv[r]].usedBy = None /\ users[who[r]] = NoRow
      BY <2>2 DEF Admits, IsUsed
    <3>2. PICK row \in Invite, user \in User :
             /\ row.creator = invites[inv[r]].creator /\ row.usedBy = who[r]
             /\ user.by = row.creator
             /\ invites' = [invites EXCEPT ![inv[r]] = row]
             /\ users' = [users EXCEPT ![who[r]] = user]
      BY <2>2 DEF Admits
    <3>3. /\ \A i \in InviteIDs : invites'[i] = IF i = inv[r] THEN row ELSE invites[i]
          /\ \A u \in Users : users'[u] = IF u = who[r] THEN user ELSE users[u]
          /\ row # NoRow /\ user # NoRow
      BY <1>1, <3>2 DEF TypeOK
    <3>4. ASSUME NEW i \in InviteIDs
          PROVE  ~UsedBy(i, who[r])
      BY <3>1 DEF InviteAdmitsOne
    <3>5. ASSUME NEW i \in InviteIDs, NEW u \in Users
          PROVE  UsedBy(i, u)' <=> UsedBy(i, u) \/ (i = inv[r] /\ u = who[r])
      <4>1. CASE i = inv[r]
        BY <1>1, <3>1, <3>2, <3>3, <4>1 DEF UsedBy
      <4>2. CASE i # inv[r]
        BY <3>3, <4>2 DEF UsedBy
      <4>. QED
        BY <4>1, <4>2
    <3>6. ASSUME NEW i \in InviteIDs, NEW u \in Users, UsedBy(i, u)'
          PROVE  users'[u] # NoRow /\ users'[u].by = invites'[i].creator
      <4>1. CASE UsedBy(i, u)
        <5>1. i # inv[r] /\ u # who[r]
          BY <1>1, <3>1, <3>4, <4>1 DEF UsedBy
        <5>. QED
          BY <3>3, <4>1, <5>1 DEF InviteAdmitsOne
      <4>2. CASE i = inv[r] /\ u = who[r]
        BY <3>2, <3>3, <4>2
      <4>. QED
        BY <3>5, <3>6, <4>1, <4>2
    <3>7. ASSUME NEW u \in Admitted'
          PROVE  \E i \in InviteIDs : /\ UsedBy(i, u)'
                                      /\ \A j \in InviteIDs : UsedBy(j, u)' => j = i
      <4>1. u \in Users /\ (u \in Admitted \/ u = who[r])
        BY <3>3 DEF Admitted
      <4>2. CASE u = who[r]
        BY <3>1, <3>4, <3>5, <4>2
      <4>3. CASE u # who[r]
        BY <3>5, <4>1, <4>3 DEF InviteAdmitsOne
      <4>. QED
        BY <4>2, <4>3
    <3>. QED
      BY <3>6, <3>7 DEF InviteAdmitsOne
  <2>. QED
    BY <1>3, <2>1, <2>2, CommitFacts
<1>. QED
  BY <1>2, <1>3, TablesByCommit

(* An invite admits one user and a user is admitted by one invite,         *)
(* whatever challenges are out there for it and however often each of them *)
(* comes back.                                                             *)
THEOREM AdmitsOne == Spec => []InviteAdmitsOne
<1>1. Init => InviteAdmitsOne
  BY InitAssumption, ConstantsAssumption DEF Init, InviteAdmitsOne, UsedBy, Admitted
<1>2. Core /\ InviteAdmitsOne /\ [Next]_vars => InviteAdmitsOne'
  BY AdmissionKept
<1>. QED
  BY <1>1, <1>2, Invariance, PTL DEF Spec

-----------------------------------------------------------------------------
(* The chain of trust and the answers.                                     *)

(* What a request carries from its arguments to its answer, and what the   *)
(* answer then says of the tables.                                         *)
Carried(r) ==
    /\ pc[r] \in Working \ {"rollback"} => verdict[r] = "none"
    /\ pc[r] = "rollback" => verdict[r] \in Refusals
    /\ pc[r] \in {"rollback", "done"} /\ verdict[r] = "too_many" => Creating(r)
    /\ Creating(r) => users[who[r]] # NoRow
    /\ op[r] = "finish" /\ pc[r] \in {"open", "redeem", "account", "commit"} =>
          keys[r] # <<>>
    /\ op[r] = "finish" /\ pc[r] = "commit" =>
          /\ pendUser[r].keys = ScopesOf(keys[r])
          /\ pendUser[r].role = "admin" <=> pendUser[r].by = Root

AnswerHolds(r) ==
    /\ Answered(r, {"create", "createRoot"}) =>
          invites[inv[r]] # NoRow /\ invites[inv[r]].creator = who[r]
    /\ Answered(r, {"finish"}) =>
          /\ users[who[r]] # NoRow /\ users[who[r]].keys = ScopesOf(keys[r])
          /\ invites[inv[r]].usedBy = who[r]
    /\ pc[r] = "done" /\ verdict[r] = "too_many" => invites[inv[r]] = NoRow

(* Only the root was invited by nobody, and whoever creates an invite is a *)
(* user.                                                                   *)
Rooted ==
    /\ users[Root] # NoRow
    /\ \A u \in Users : users[u] # NoRow => (users[u].by = None <=> u = Root)
    /\ \A i \in InviteIDs : invites[i] # NoRow => users[invites[i].creator] # NoRow

Trust ==
    /\ Rooted /\ ChainOfTrust
    /\ \A r \in Requests : Carried(r) /\ AnswerHolds(r)

(* A list of keys that is not empty has a scope.                           *)
LEMMA ScopesFound ==
    ASSUME NEW list \in KeyLists \cup {<<>>}, list # <<>>
    PROVE  ScopesOf(list) # {}
<1>1. list \in Seq(Scopes)
  BY ConstantsAssumption
<1>2. 1 \in DOMAIN list
  BY <1>1
<1>. QED
  BY <1>2 DEF ScopesOf

(* A step of one request leaves what another one carries and answers.      *)
LEMMA StepOfOne ==
    ASSUME Core, NEW r \in Requests, Step(r), NEW q \in Requests \ {r}
    PROVE  /\ pc'[q] = pc[q] /\ op'[q] = op[q] /\ who'[q] = who[q] /\ inv'[q] = inv[q]
           /\ keys'[q] = keys[q] /\ pendUser'[q] = pendUser[q]
           /\ verdict'[q] = verdict[q]
<1>1. TypeOK
  BY DEF Core
<1>2. CASE Start(r)
  BY <1>1, <1>2 DEF Start, StartCreate, StartCreateRoot, StartBegin, StartFinish, Begin,
                    Goto, TypeOK, pending
<1>3. CASE Create(r)
  BY <1>1, <1>3 DEF Create, LockCreator, CountOpen, CountFull, Insert, Refuse, Goto,
                    TypeOK, arguments, pending
<1>4. CASE Read(r)
  BY <1>1, <1>4 DEF Read, ReadUnknown, ReadUsed, ReadExpired, ReadOpen, Turned, Finish,
                    Goto, TypeOK, arguments, pending
<1>5. CASE Register(r)
  BY <1>1, <1>5 DEF Register, Open, Redeem, RedeemUsed, RedeemExpired,
                    RedeemOpen, ConstraintBroken, Breaks, Account, Refuse, Goto, TypeOK,
                    arguments, pending
<1>6. CASE Commit(r) \/ CommitUnseen(r) \/ Rollback(r) \/ Fail(r)
  BY <1>1, <1>6 DEF Commit, CommitUnseen, Rollback, Fail, Finish, Goto, TypeOK, arguments
<1>. QED
  BY <1>2, <1>3, <1>4, <1>5, <1>6 DEF Step, Proceed

(* How the tables may change under what a request knows of them.           *)
RowsKept ==
    /\ \A u \in Users : users[u] # NoRow => users'[u] = users[u]
    /\ \A i \in InviteIDs : invites[i] # NoRow =>
          /\ invites'[i] # NoRow /\ invites'[i].creator = invites[i].creator
          /\ IsUsed(invites[i]) => invites'[i] = invites[i]

(* Whatever else a step does, the rows it finds it keeps; and the only     *)
(* invite that can appear is the one of the request that commits.          *)
LEMMA RowsKeptByAll ==
    ASSUME Core, [Next]_vars
    PROVE  RowsKept
<1>1. TypeOK /\ NoRow \notin Invite
  BY ConstantsAssumption DEF Core
<1>2. CASE users' = users /\ invites' = invites
  BY <1>2 DEF RowsKept
<1>3. ASSUME NEW r \in Requests, pc[r] = "commit", Install(r)
      PROVE  RowsKept
  <2>1. CASE Issues(r)
    BY <1>1, <2>1 DEF Issues, TypeOK, RowsKept
  <2>2. CASE Admits(r)
    <3>1. \A u \in Users : users[u] # NoRow => users'[u] = users[u]
      BY <1>1, <2>2 DEF Admits, TypeOK
    <3>2. ASSUME NEW i \in InviteIDs, invites[i] # NoRow
          PROVE  /\ invites'[i] # NoRow /\ invites'[i].creator = invites[i].creator
                 /\ IsUsed(invites[i]) => invites'[i] = invites[i]
      BY <1>1, <2>2, <3>2 DEF Admits, TypeOK
    <3>. QED
      BY <3>1, <3>2 DEF RowsKept
  <2>. QED
    BY <1>3, <2>1, <2>2, CommitFacts
<1>. QED
  BY <1>2, <1>3, TablesByCommit

(* So a request that does not take the step carries on, and its answer     *)
(* stays true.                                                             *)
LEMMA OtherCarries ==
    ASSUME Core, NEW r \in Requests, Step(r), NEW q \in Requests \ {r},
           Carried(q), AnswerHolds(q)
    PROVE  Carried(q)' /\ AnswerHolds(q)'
<1>1. /\ pc'[q] = pc[q] /\ op'[q] = op[q] /\ who'[q] = who[q] /\ inv'[q] = inv[q]
      /\ keys'[q] = keys[q] /\ pendUser'[q] = pendUser[q]
      /\ verdict'[q] = verdict[q]
  BY StepOfOne
<1>2. RowsKept /\ Core'
  BY RowsKeptByAll, NextKeeps DEF Next
<1>3. TypeOK /\ CreationInv(q) /\ RegistrationInv(q)
  BY DEF Core, RequestInv
<1>4. Creating(q) => who[q] \in Users /\ inv[q] \in InviteIDs
  BY <1>3, NewIDAssumption DEF CreationInv
<1>5. op[q] = "finish" => who[q] \in Users /\ inv[q] \in InviteIDs /\ invites[inv[q]] # NoRow
  BY RegistrationFacts
<1>6. Carried(q)'
  BY <1>1, <1>2, <1>4 DEF Carried, RowsKept, Creating
<1>7. Answered(q, {"create", "createRoot"})' =>
         invites'[inv'[q]] # NoRow /\ invites'[inv'[q]].creator = who'[q]
  BY <1>1, <1>2, <1>4 DEF AnswerHolds, Answered, RowsKept, Creating
<1>8. Answered(q, {"finish"})' =>
         /\ users'[who'[q]] # NoRow /\ users'[who'[q]].keys = ScopesOf(keys'[q])
         /\ invites'[inv'[q]].usedBy = who'[q]
  <2>1. SUFFICES ASSUME Answered(q, {"finish"})
                 PROVE  /\ users'[who[q]] # NoRow /\ users'[who[q]].keys = ScopesOf(keys[q])
                        /\ invites'[inv[q]].usedBy = who[q]
    BY <1>1 DEF Answered
  <2>2. /\ users[who[q]] # NoRow /\ users[who[q]].keys = ScopesOf(keys[q])
        /\ invites[inv[q]].usedBy = who[q]
    BY <2>1 DEF AnswerHolds
  <2>3. who[q] \in Users /\ inv[q] \in InviteIDs /\ invites[inv[q]] # NoRow
    BY <1>5, <2>1 DEF Answered
  <2>4. IsUsed(invites[inv[q]])
    BY <2>2, <2>3, ConstantsAssumption DEF IsUsed
  <2>. QED
    BY <1>2, <2>2, <2>3, <2>4 DEF RowsKept
<1>9. pc'[q] = "done" /\ verdict'[q] = "too_many" => invites'[inv'[q]] = NoRow
  <2>1. SUFFICES ASSUME pc[q] = "done", verdict[q] = "too_many"
                 PROVE  invites'[inv[q]] = NoRow
    BY <1>1
  <2>2. Creating(q) /\ invites[inv[q]] = NoRow
    BY <2>1 DEF Carried, AnswerHolds
  <2>3. inv[q] = NewInvite[q] /\ NewInvite[q] # NewInvite[r] /\ NewInvite[q] \in InviteIDs
    BY <1>3, <2>2, NewIDAssumption DEF CreationInv
  <2>4. CASE invites' = invites
    BY <2>2, <2>4
  <2>5. CASE pc[r] = "commit" /\ Install(r)
    <3>1. CASE Issues(r)
      BY <1>3, <2>2, <2>3, <3>1 DEF Issues, TypeOK
    <3>2. CASE Admits(r)
      BY <1>3, <2>2, <2>3, <3>2, ConstantsAssumption DEF Admits, TypeOK
    <3>. QED
      BY <2>5, <3>1, <3>2, CommitFacts
  <2>. QED
    BY <2>4, <2>5, StepTables
<1>. QED
  BY <1>6, <1>7, <1>8, <1>9 DEF AnswerHolds

(* The request that takes the step carries on, or has its answer.          *)
LEMMA SelfCarries ==
    ASSUME Core, Rooted, NEW r \in Requests, Carried(r), Step(r)
    PROVE  Carried(r)' /\ AnswerHolds(r)'
<1>1. TypeOK /\ CreationInv(r) /\ RegistrationInv(r)
  BY DEF Core, RequestInv
<1>2. RowsKept
  BY RowsKeptByAll DEF Next
<1>3. Creating(r) => who[r] \in Users /\ users[who[r]] # NoRow /\ users'[who[r]] # NoRow
  BY <1>1, <1>2 DEF CreationInv, Carried, RowsKept
<1>. USE DEF Answered
<1>4. CASE Start(r)
  <2>1. /\ users' = users /\ users[Root] # NoRow
        /\ pc'[r] \in {"lock", "read", "open", "rollback"}
    BY <1>1, <1>4 DEF Start, StartCreate, StartCreateRoot, StartBegin, StartFinish,
                      Begin, Goto, TypeOK, tables, Rooted
  <2>2. CASE StartCreate(r) \/ StartCreateRoot(r)
    <3>1. /\ pc'[r] = "lock" /\ verdict'[r] = "none" /\ users'[who'[r]] # NoRow
          /\ op'[r] # "finish"
      BY <1>1, <2>1, <2>2 DEF StartCreate, StartCreateRoot, Begin, Goto, TypeOK
    <3>. QED
      BY <3>1 DEF Carried, AnswerHolds
  <2>3. CASE StartBegin(r)
    <3>1. pc'[r] = "read" /\ verdict'[r] = "none" /\ op'[r] = "begin"
      BY <1>1, <2>3 DEF StartBegin, Begin, Goto, TypeOK
    <3>. QED
      BY <3>1 DEF Carried, AnswerHolds, Creating
  <2>4. CASE StartFinish(r)
    <3>1. PICK c \in challenges, list \in KeyLists :
             Begin(r, "finish", c.user, c.invite, list,
                   IF Objection(c, list) = "none" THEN "open" ELSE "rollback",
                   Objection(c, list))
      BY <2>4 DEF StartFinish
    <3>2. /\ op'[r] = "finish" /\ keys'[r] = list /\ verdict'[r] = Objection(c, list)
          /\ pc'[r] = IF Objection(c, list) = "none" THEN "open" ELSE "rollback"
      BY <1>1, <3>1 DEF Begin, Goto, TypeOK
    <3>3. /\ Objection(c, list) \in {"none"} \cup (Refusals \ {"too_many"})
          /\ Objection(c, list) = "none" => list # <<>>
      BY DEF Objection, Refusals
    <3>. QED
      BY <3>2, <3>3 DEF Carried, AnswerHolds, Creating, Working, InTx
  <2>. QED
    BY <1>4, <2>2, <2>3, <2>4 DEF Start
<1>5. CASE Create(r)
  <2>1. CASE LockCreator(r) \/ CountOpen(r) \/ Insert(r)
    <3>1. /\ pc[r] \in {"lock", "count", "insert"} /\ pc'[r] \in {"count", "insert", "commit"}
          /\ UNCHANGED <<op, who, verdict>>
      BY <1>1, <2>1 DEF LockCreator, CountOpen, Insert, Goto, TypeOK, arguments
    <3>2. Creating(r)
      BY <1>1, <3>1 DEF CreationInv
    <3>. QED
      BY <1>3, <3>1, <3>2 DEF Carried, AnswerHolds, Creating, Working, InTx
  <2>2. CASE CountFull(r)
    <3>1. /\ pc[r] = "count" /\ pc'[r] = "rollback" /\ verdict'[r] = "too_many"
          /\ UNCHANGED <<op, who>>
      BY <1>1, <2>2 DEF CountFull, Refuse, Goto, TypeOK, arguments
    <3>2. Creating(r)
      BY <1>1, <3>1 DEF CreationInv
    <3>. QED
      BY <1>3, <3>1, <3>2 DEF Carried, AnswerHolds, Creating, Refusals
  <2>. QED
    BY <1>5, <2>1, <2>2 DEF Create
<1>6. CASE Read(r)
  <2>1. /\ pc[r] = "read" /\ pc'[r] = "done" /\ op' = op
        /\ verdict'[r] \in {"error", "used", "expired", "ok"}
    BY <1>1, <1>6 DEF Read, ReadUnknown, ReadUsed, ReadExpired, ReadOpen, Turned, Finish,
                      Goto, TypeOK, arguments
  <2>2. op'[r] = "begin"
    BY <1>1, <2>1 DEF RegistrationInv
  <2>. QED
    BY <2>1, <2>2 DEF Carried, AnswerHolds, Creating, Working, InTx
<1>7. CASE Register(r)
  <2>1. /\ pc[r] \in {"open", "redeem", "account"} /\ op' = op /\ keys' = keys
    BY <1>7 DEF Register, Open, Redeem, RedeemUsed, RedeemExpired,
                RedeemOpen, ConstraintBroken, Breaks, Account, Refuse, arguments
  <2>2. op[r] = "finish" /\ op'[r] = "finish" /\ ~Creating(r)' /\ keys'[r] # <<>>
    BY <1>1, <2>1 DEF RegistrationInv, Creating, Carried
  <2>3. CASE Open(r) \/ RedeemOpen(r)
    <3>1. pc'[r] \in {"redeem", "account"} /\ verdict'[r] = "none"
      BY <1>1, <2>1, <2>3 DEF Open, RedeemOpen, Goto, TypeOK, Carried, Working, InTx
    <3>. QED
      BY <2>2, <3>1 DEF Carried, AnswerHolds
  <2>4. CASE RedeemUsed(r) \/ RedeemExpired(r) \/ ConstraintBroken(r)
    <3>1. /\ pc'[r] = "rollback" /\ verdict'[r] \in {"used", "expired", "constraint"}
      BY <1>1, <2>4 DEF RedeemUsed, RedeemExpired, ConstraintBroken, Breaks, Refuse,
                        Goto, TypeOK
    <3>. QED
      BY <2>2, <3>1 DEF Carried, AnswerHolds, Refusals
  <2>5. CASE Account(r)
    <3>. DEFINE by == invites[inv[r]].creator
    <3>1. inv[r] \in InviteIDs /\ by \in Users /\ invites[inv[r]] # NoRow
      BY <2>2, RegistrationFacts
    <3>2. users[by] # NoRow /\ (users[by].by = None <=> by = Root)
      BY <3>1 DEF Rooted
    <3>3. NextInviteeRole(by) = "admin" <=> by = Root
      BY <3>2 DEF NextInviteeRole
    <3>. HIDE DEF by
    <3>4. /\ pc'[r] = "commit" /\ verdict'[r] = "none"
          /\ pendUser'[r] = [role |-> NextInviteeRole(by), by |-> by,
                             keys |-> ScopesOf(keys[r])]
      BY <1>1, <2>5 DEF Account, Goto, TypeOK, Carried, Working, InTx, by
    <3>5. /\ pendUser'[r].keys = ScopesOf(keys'[r])
          /\ pendUser'[r].role = "admin" <=> pendUser'[r].by = Root
      BY <2>1, <3>3, <3>4
    <3>. QED
      BY <2>2, <3>4, <3>5 DEF Carried, AnswerHolds
  <2>. QED
    BY <1>7, <2>3, <2>4, <2>5 DEF Register, Redeem
<1>8. CASE Commit(r) \/ CommitUnseen(r)
  <2>1. /\ pc[r] = "commit" /\ Install(r)
        /\ pc'[r] = "done" /\ verdict'[r] \in {"ok", "error"}
        /\ UNCHANGED <<op, who, inv, keys>>
    BY <1>1, <1>8 DEF Commit, CommitUnseen, Finish, Goto, TypeOK, arguments
  <2>2. Carried(r)'
    BY <1>3, <2>1 DEF Carried, Creating, Working, InTx
  <2>3. CASE Issues(r)
    <3>1. /\ inv[r] = NewInvite[r] /\ op[r] # "finish"
      BY <1>1, <2>3 DEF Issues, CreationInv, Creating
    <3>2. invites'[inv[r]] # NoRow /\ invites'[inv[r]].creator = who[r]
      BY <1>1, <2>3, <3>1, ConstantsAssumption DEF Issues, TypeOK
    <3>. QED
      BY <2>1, <2>2, <3>1, <3>2 DEF AnswerHolds
  <2>4. CASE Admits(r)
    <3>1. op[r] = "finish"
      BY <2>4 DEF Admits, Redeemed
    <3>2. /\ users'[who[r]] = pendUser[r] /\ pendUser[r] # NoRow
          /\ invites'[inv[r]].usedBy = who[r]
      BY <1>1, <2>4, ConstantsAssumption DEF Admits, TypeOK
    <3>3. pendUser[r].keys = ScopesOf(keys[r])
      BY <2>1, <3>1 DEF Carried
    <3>. QED
      BY <2>1, <2>2, <3>1, <3>2, <3>3 DEF AnswerHolds
  <2>. QED
    BY <2>1, <2>3, <2>4, CommitFacts
<1>9. CASE Rollback(r)
  <2>1. /\ pc[r] = "rollback" /\ pc'[r] = "done" /\ verdict'[r] = verdict[r]
        /\ UNCHANGED <<users, invites, op, who, inv, keys>>
    BY <1>1, <1>9 DEF Rollback, Finish, Goto, TypeOK, arguments, tables
  <2>2. verdict[r] \in Refusals /\ (verdict[r] = "too_many" => Creating(r))
    BY <2>1 DEF Carried
  <2>3. verdict[r] = "too_many" => invites[inv[r]] = NoRow
    BY <1>1, <2>1, <2>2 DEF CreationInv
  <2>. QED
    BY <1>3, <2>1, <2>2, <2>3 DEF Carried, AnswerHolds, Creating, Refusals, Working, InTx
<1>10. CASE Fail(r)
  <2>1. /\ pc'[r] = "done" /\ verdict'[r] = "error" /\ UNCHANGED <<op, who>>
    BY <1>1, <1>10 DEF Fail, Finish, Goto, TypeOK, arguments
  <2>. QED
    BY <1>3, <2>1 DEF Carried, AnswerHolds, Creating, Working, InTx
<1>. QED
  BY <1>4, <1>5, <1>6, <1>7, <1>8, <1>9, <1>10 DEF Step, Proceed

(* Every step keeps the chain of trust and the answers.                    *)
LEMMA TrustKept ==
    ASSUME Core, Trust, [Next]_vars
    PROVE  Trust'
<1>1. TypeOK /\ NoRow \notin User \cup Invite /\ None \notin Users /\ Root \in Users
  BY ConstantsAssumption DEF Core
<1>2. CASE UNCHANGED <<users, invites, pc, op, who, inv, keys, pendUser, verdict>>
  BY <1>2 DEF Trust, Rooted, ChainOfTrust, Admitted, Carried, AnswerHolds, Answered,
              Creating
<1>3. ASSUME NEW r \in Requests, Step(r)
      PROVE  Trust'
  <2>1. Rooted /\ Carried(r)
    BY DEF Trust
  <2>2. ASSUME NEW q \in Requests
        PROVE  Carried(q)' /\ AnswerHolds(q)'
    <3>1. Carried(q) /\ AnswerHolds(q)
      BY DEF Trust
    <3>2. CASE q = r
      BY <1>3, <2>1, <3>2, SelfCarries
    <3>3. CASE q # r
      BY <1>3, <3>1, <3>3, OtherCarries
    <3>. QED
      BY <3>2, <3>3
  <2>3. CASE users' = users /\ invites' = invites
    BY <2>2, <2>3 DEF Trust, Rooted, ChainOfTrust, Admitted
  <2>4. CASE pc[r] = "commit" /\ Install(r)
    <3>1. CASE Issues(r)
      <4>1. /\ Creating(r) /\ who[r] \in Users /\ users' = users
            /\ users[who[r]] # NoRow
        BY <2>1, <3>1 DEF Issues, Carried
      <4>2. PICK row \in Invite :
               row.creator = who[r] /\ invites' = [invites EXCEPT ![NewInvite[r]] = row]
        BY <3>1 DEF Issues
      <4>3. \A i \in InviteIDs : invites'[i] = IF i = NewInvite[r] THEN row ELSE invites[i]
        BY <1>1, <4>2 DEF TypeOK
      <4>4. Rooted'
        BY <2>1, <4>1, <4>2, <4>3 DEF Rooted
      <4>5. ChainOfTrust'
        BY <4>1 DEF Trust, ChainOfTrust, Admitted
      <4>. QED
        BY <2>2, <4>4, <4>5 DEF Trust
    <3>2. CASE Admits(r)
      <4>. DEFINE by == invites[inv[r]].creator
      <4>1. /\ op[r] = "finish" /\ who[r] \in Users /\ inv[r] \in InviteIDs
            /\ invites[inv[r]] # NoRow /\ by \in Users /\ users[who[r]] = NoRow
        BY <3>2, RegistrationFacts DEF Admits, Redeemed
      <4>2. users[by] # NoRow /\ users[Root] # NoRow
        BY <2>1, <4>1 DEF Rooted
      <4>3. PICK user \in User :
               /\ user = pendUser[r] /\ user.by = by
               /\ users' = [users EXCEPT ![who[r]] = user]
        BY <3>2 DEF Admits
      <4>4. PICK row \in Invite :
               row.creator = by /\ invites' = [invites EXCEPT ![inv[r]] = row]
        BY <3>2 DEF Admits
      <4>5. /\ user.role = "admin" <=> user.by = Root
            /\ user.keys # {}
        <5>1. /\ keys[r] # <<>> /\ user.keys = ScopesOf(keys[r])
              /\ user.role = "admin" <=> user.by = Root
          BY <2>1, <2>4, <4>1, <4>3 DEF Carried
        <5>2. ScopesOf(keys[r]) # {}
          BY <1>1, <5>1, ScopesFound DEF TypeOK
        <5>. QED
          BY <5>1, <5>2
      <4>. HIDE DEF by
      <4>6. /\ \A u \in Users : users'[u] = IF u = who[r] THEN user ELSE users[u]
            /\ \A i \in InviteIDs : invites'[i] = IF i = inv[r] THEN row ELSE invites[i]
        BY <1>1, <4>3, <4>4 DEF TypeOK
      <4>7. user # NoRow /\ user.by # None /\ who[r] # Root
        BY <1>1, <4>1, <4>2, <4>3
      <4>8. Rooted'
        <5>1. users'[Root] # NoRow
          BY <1>1, <4>2, <4>6, <4>7
        <5>2. \A u \in Users : users'[u] # NoRow => (users'[u].by = None <=> u = Root)
          BY <2>1, <4>6, <4>7 DEF Rooted
        <5>3. ASSUME NEW i \in InviteIDs, invites'[i] # NoRow
              PROVE  users'[invites'[i].creator] # NoRow
          <6>1. CASE i = inv[r]
            BY <4>1, <4>2, <4>4, <4>6, <4>7, <6>1
          <6>2. CASE i # inv[r]
            <7>1. /\ invites[i] # NoRow /\ invites'[i] = invites[i]
                  /\ users[invites[i].creator] # NoRow
              BY <2>1, <4>6, <5>3, <6>2 DEF Rooted
            <7>2. invites[i].creator \in Users
              BY <1>1, <7>1 DEF TypeOK, Invite
            <7>. QED
              BY <4>6, <4>7, <7>1, <7>2
          <6>. QED
            BY <6>1, <6>2
        <5>. QED
          BY <5>1, <5>2, <5>3 DEF Rooted
      <4>9. ChainOfTrust'
        <5>1. ASSUME NEW u \in Admitted'
              PROVE  /\ users'[u].by \in Users /\ users'[users'[u].by] # NoRow
                     /\ users'[u].role = "admin" <=> users'[u].by = Root
                     /\ users'[u].keys # {}
          <6>1. u \in Users /\ users'[u] # NoRow /\ InitUsers[u] = NoRow
            BY DEF Admitted
          <6>2. CASE u = who[r]
            BY <4>1, <4>2, <4>3, <4>5, <4>6, <4>7, <6>1, <6>2
          <6>3. CASE u # who[r]
            <7>1. u \in Admitted /\ users'[u] = users[u]
              BY <4>6, <6>1, <6>3 DEF Admitted
            <7>2. /\ users[u].by \in Users /\ users[users[u].by] # NoRow
                  /\ users[u].role = "admin" <=> users[u].by = Root
                  /\ users[u].keys # {}
              BY <7>1 DEF Trust, ChainOfTrust
            <7>. QED
              BY <4>6, <4>7, <7>1, <7>2
          <6>. QED
            BY <6>2, <6>3
        <5>. QED
          BY <5>1 DEF ChainOfTrust
      <4>. QED
        BY <2>2, <4>8, <4>9 DEF Trust
    <3>. QED
      BY <2>4, <3>1, <3>2, CommitFacts
  <2>. QED
    BY <1>3, <2>3, <2>4, StepTables
<1>. QED
  BY <1>2, <1>3 DEF Next, Finished, Tick, vars, tables, arguments, pending

(* Nobody has been admitted and nothing answered at first.                 *)
LEMMA InitTrust ==
    ASSUME Init
    PROVE  Trust
<1>1. Rooted /\ ChainOfTrust
  BY InitAssumption DEF Init, Rooted, ChainOfTrust, Admitted
<1>2. ASSUME NEW r \in Requests
      PROVE  Carried(r) /\ AnswerHolds(r)
  <2>1. pc[r] = "idle" /\ op[r] = "none"
    BY DEF Init
  <2>. QED
    BY <2>1 DEF Carried, AnswerHolds, Answered, Creating, Working, InTx
<1>. QED
  BY <1>1, <1>2 DEF Trust

(* Hence the chain of trust and the answers hold at any time.              *)
LEMMA TrustHolds == Spec => []Trust
<1>1. Init => Trust
  BY InitTrust
<1>2. Core /\ Trust /\ [Next]_vars => Trust'
  BY TrustKept
<1>. QED
  BY <1>1, <1>2, Invariance, PTL DEF Spec

(* The chain of trust: every user admitted was invited by a user who       *)
(* exists, has a wrapped key, and is an admin if and only if the root      *)
(* invited it.                                                             *)
THEOREM TrustChained == Spec => []ChainOfTrust
<1>1. Trust => ChainOfTrust
  BY DEF Trust
<1>. QED
  BY <1>1, TrustHolds, PTL

(* Whatever happens after a request was answered, its answer stays true to *)
(* the tables.                                                             *)
THEOREM AnswersCorrect == Spec => []AnswersHold
<1>1. Trust => AnswersHold
  BY DEF Trust, AnswerHolds, AnswersHold
<1>. QED
  BY <1>1, TrustHolds, PTL

-----------------------------------------------------------------------------
(* What spends an invite.                                                  *)

(* A registration that is about to commit repeats no scope.                *)
Checked(r) == op[r] = "finish" /\ pc[r] = "commit" => ~Repeats(keys[r])

Spent == SpentByRegistration /\ \A r \in Requests : Checked(r)

(* A request that has been answered takes no further step.                 *)
LEMMA DoneIsOver ==
    ASSUME NEW r \in Requests, Step(r)
    PROVE  pc[r] # "done"
<1>1. CASE Start(r)
  BY <1>1 DEF Start, StartCreate, StartCreateRoot, StartBegin, StartFinish, Begin
<1>2. CASE Create(r)
  BY <1>2 DEF Create, LockCreator, CountOpen, CountFull, Insert
<1>3. CASE Read(r)
  BY <1>3 DEF Read, ReadUnknown, ReadUsed, ReadExpired, ReadOpen
<1>4. CASE Register(r)
  BY <1>4 DEF Register, Open, Redeem, RedeemUsed, RedeemExpired, RedeemOpen,
              ConstraintBroken, Breaks, Account
<1>5. CASE Commit(r) \/ CommitUnseen(r) \/ Rollback(r) \/ Fail(r)
  BY <1>5 DEF Commit, CommitUnseen, Rollback, Fail, Working, InTx
<1>. QED
  BY <1>1, <1>2, <1>3, <1>4, <1>5 DEF Step, Proceed

(* The account is written only where no scope is repeated.                 *)
LEMMA CheckedKept ==
    ASSUME Core, NEW r \in Requests, Step(r), Checked(r)
    PROVE  Checked(r)'
<1>1. TypeOK /\ CreationInv(r)
  BY DEF Core, RequestInv
<1>2. CASE Start(r)
  BY <1>1, <1>2 DEF Start, StartCreate, StartCreateRoot, StartBegin, StartFinish, Begin,
                    Goto, TypeOK, Checked
<1>3. CASE Create(r)
  <2>1. Creating(r) /\ op' = op
    BY <1>1, <1>3 DEF Create, LockCreator, CountOpen, CountFull, Insert, Refuse,
                      CreationInv, arguments
  <2>. QED
    BY <2>1 DEF Creating, Checked
<1>4. CASE Read(r) \/ Open(r) \/ Redeem(r) \/ ConstraintBroken(r)
  <2>1. pc'[r] \in {"done", "redeem", "account", "rollback"}
    BY <1>1, <1>4 DEF Read, ReadUnknown, ReadUsed, ReadExpired, ReadOpen, Turned, Finish,
                      Open, Redeem, RedeemUsed, RedeemExpired, RedeemOpen,
                      ConstraintBroken, Refuse, Goto, TypeOK
  <2>. QED
    BY <2>1 DEF Checked
<1>5. CASE Account(r)
  BY <1>5 DEF Account, Checked, arguments
<1>6. CASE Commit(r) \/ CommitUnseen(r) \/ Rollback(r) \/ Fail(r)
  <2>1. pc'[r] = "done"
    BY <1>1, <1>6 DEF Commit, CommitUnseen, Rollback, Fail, Finish, Goto, TypeOK
  <2>. QED
    BY <2>1 DEF Checked
<1>. QED
  BY <1>2, <1>3, <1>4, <1>5, <1>6 DEF Step, Proceed, Register

(* An invite that was spent stays so by the same request, and one that is  *)
(* spent by this step is by a registration that commits.                   *)
LEMMA SpentKept ==
    ASSUME Core, Trust, InviteAdmitsOne, Spent, [Next]_vars
    PROVE  Spent'
<1>1. TypeOK /\ None \notin Users /\ NoRow \notin Invite
  BY ConstantsAssumption DEF Core
<1>2. CASE UNCHANGED <<users, invites, pc, op, who, inv, keys, verdict>>
  BY <1>2 DEF Spent, SpentByRegistration, Redeemer, Checked
<1>3. ASSUME NEW r \in Requests, Step(r)
      PROVE  Spent'
  <2>1. RowsKept /\ pc[r] # "done"
    BY <1>3, RowsKeptByAll, DoneIsOver DEF Next
  <2>2. ASSUME NEW i \in InviteIDs, invites[i] # NoRow, IsUsed(invites[i])
        PROVE  \E q \in Requests : Redeemer(q, i)'
    <3>1. PICK q \in Requests : Redeemer(q, i)
      BY <2>2 DEF Spent, SpentByRegistration
    <3>2. q # r
      BY <2>1, <3>1 DEF Redeemer
    <3>3. /\ pc'[q] = pc[q] /\ op'[q] = op[q] /\ who'[q] = who[q] /\ inv'[q] = inv[q]
          /\ keys'[q] = keys[q] /\ verdict'[q] = verdict[q]
      BY <1>3, <3>2, StepOfOne
    <3>4. invites'[i] = invites[i]
      BY <2>1, <2>2 DEF RowsKept
    <3>5. who[q] \in Users /\ users[who[q]] # NoRow
      <4>1. invites[i].usedBy \in Users
        BY <1>1, <2>2 DEF TypeOK, Invite, IsUsed
      <4>2. UsedBy(i, who[q]) /\ who[q] \in Users
        BY <2>2, <3>1, <4>1 DEF Redeemer, UsedBy
      <4>. QED
        BY <4>2 DEF InviteAdmitsOne
    <3>6. users'[who[q]] = users[who[q]]
      BY <2>1, <3>5 DEF RowsKept
    <3>. QED
      BY <3>1, <3>3, <3>4, <3>6 DEF Redeemer
  <2>3. ASSUME NEW i \in InviteIDs, invites'[i] # NoRow, IsUsed(invites'[i]),
               invites[i] = NoRow \/ ~IsUsed(invites[i])
        PROVE  Redeemer(r, i)'
    <3>1. invites' # invites
      BY <2>3
    <3>2. pc[r] = "commit" /\ Install(r)
      BY <1>3, <3>1, StepTables
    <3>3. CASE Issues(r)
      <4>1. PICK row \in Invite :
               row.usedBy = None /\ invites' = [invites EXCEPT ![NewInvite[r]] = row]
        BY <3>3 DEF Issues
      <4>. QED
        BY <1>1, <2>3, <4>1 DEF TypeOK, IsUsed
    <3>4. CASE Admits(r)
      <4>1. /\ op[r] = "finish" /\ who[r] \in Users /\ inv[r] \in InviteIDs
            /\ users'[who[r]] = pendUser[r]
            /\ invites'[inv[r]].usedBy = who[r]
        BY <1>1, <3>4 DEF Admits, Redeemed, TypeOK
      <4>2. i = inv[r]
        BY <1>1, <2>3, <3>4 DEF Admits, TypeOK
      <4>3. ~Repeats(keys[r]) /\ pendUser[r].keys = ScopesOf(keys[r])
        BY <3>2, <4>1 DEF Spent, Checked, Trust, Carried
      <4>4. /\ pc'[r] = "done" /\ verdict'[r] \in {"ok", "error"}
            /\ UNCHANGED <<op, who, inv, keys>>
        <5>1. CASE Commit(r) \/ CommitUnseen(r)
          BY <1>1, <5>1 DEF Commit, CommitUnseen, Finish, Goto, TypeOK, arguments
        <5>2. CASE Rollback(r) \/ Fail(r)
          BY <3>1, <5>2 DEF Rollback, Fail, tables
        <5>3. CASE Start(r)
          BY <3>2, <5>3 DEF Start, StartCreate, StartCreateRoot, StartBegin, StartFinish,
                            Begin
        <5>4. CASE Create(r)
          BY <3>2, <5>4 DEF Create, LockCreator, CountOpen, CountFull, Insert
        <5>5. CASE Read(r)
          BY <3>2, <5>5 DEF Read, ReadUnknown, ReadUsed, ReadExpired, ReadOpen
        <5>6. CASE Register(r)
          BY <3>2, <5>6 DEF Register, Open, Redeem, RedeemUsed, RedeemExpired, RedeemOpen,
                            ConstraintBroken, Breaks, Account
        <5>. QED
          BY <1>3, <5>1, <5>2, <5>3, <5>4, <5>5, <5>6 DEF Step, Proceed
      <4>. QED
        BY <4>1, <4>2, <4>3, <4>4 DEF Redeemer
    <3>. QED
      BY <3>2, <3>3, <3>4, CommitFacts
  <2>4. SpentByRegistration'
    BY <2>2, <2>3 DEF SpentByRegistration
  <2>5. ASSUME NEW q \in Requests
        PROVE  Checked(q)'
    <3>1. Checked(q)
      BY DEF Spent
    <3>2. CASE q = r
      BY <1>3, <3>1, <3>2, CheckedKept
    <3>3. CASE q # r
      <4>1. pc'[q] = pc[q] /\ op'[q] = op[q] /\ keys'[q] = keys[q]
        BY <1>3, <3>3, StepOfOne
      <4>. QED
        BY <3>1, <4>1 DEF Checked
    <3>. QED
      BY <3>2, <3>3
  <2>. QED
    BY <2>4, <2>5 DEF Spent
<1>. QED
  BY <1>2, <1>3 DEF Next, Finished, Tick, vars, tables, arguments

(* FinishInviteRegistration (SpentByRegistration): whoever registers at    *)
(* the same time, with whatever challenges and keys, an invite is spent by *)
(* a registration that went through and by nothing else: what a refused or *)
(* failed one has written over it is gone.                                 *)
THEOREM SpentOnlyByRegistration == Spec => []SpentByRegistration
<1>1. Init => Spent
  BY InitAssumption DEF Init, Spent, SpentByRegistration, Checked, IsUsed
<1>2. Core /\ Trust /\ InviteAdmitsOne /\ Spent /\ [Next]_vars => Spent'
  BY SpentKept
<1>3. Spent => SpentByRegistration
  BY DEF Spent
<1>. QED
  BY <1>1, <1>2, <1>3, Invariance, TrustHolds, AdmitsOne, PTL DEF Spec

-----------------------------------------------------------------------------
(* The schema.                                                             *)

(* Nobody registers: no registration gets past its invite, none succeeds,  *)
(* and users stays as it was.                                              *)
NobodyRegisters ==
    /\ users = InitUsers
    /\ \A r \in Requests : ~Answered(r, {"finish"})

NobodyRedeems == \A r \in Requests : ~Redeemed(r)

(* Where used_by is checked at once, the candidate of an invite that is    *)
(* still open is no user, so that its row cannot be saved.                 *)
LEMMA NobodyRedeemsKept ==
    ASSUME CheckedAtCommit = FALSE, Core, Trust, NobodyRegisters, NobodyRedeems,
           NEW r \in Requests, Step(r)
    PROVE  /\ users' = users
           /\ ~Redeemed(r)' /\ ~Answered(r, {"finish"})'
<1>1. TypeOK /\ CreationInv(r) /\ RegistrationInv(r) /\ ~Redeemed(r)
      /\ ~Answered(r, {"finish"})
  BY DEF Core, RequestInv, NobodyRedeems, NobodyRegisters
<1>2. op[r] # "finish" \/ pc[r] \notin {"account", "commit"}
  BY <1>1 DEF Redeemed
<1>3. users' = users
  <2>1. ASSUME pc[r] = "commit", Install(r)
        PROVE  users' = users
    BY <1>2, <2>1, CommitFacts DEF Issues, Admits, Redeemed
  <2>. QED
    BY <2>1, StepTables
<1>4. CASE Start(r)
  <2>1. pc'[r] \in {"lock", "read", "open", "rollback"}
    BY <1>1, <1>4 DEF Start, StartCreate, StartCreateRoot, StartBegin, StartFinish, Begin,
                      Goto, TypeOK
  <2>. QED
    BY <1>3, <2>1 DEF Redeemed, Answered
<1>5. CASE Create(r)
  <2>1. Creating(r) /\ op' = op
    BY <1>1, <1>5 DEF Create, LockCreator, CountOpen, CountFull, Insert, Refuse, arguments,
                      CreationInv
  <2>. QED
    BY <1>3, <2>1 DEF Redeemed, Answered, Creating
<1>6. CASE Read(r)
  <2>1. op[r] = "begin" /\ op' = op
    BY <1>1, <1>6 DEF Read, ReadUnknown, ReadUsed, ReadExpired, ReadOpen, Turned, Finish,
                      arguments, RegistrationInv
  <2>. QED
    BY <1>3, <2>1 DEF Redeemed, Answered
<1>7. CASE Open(r) \/ RedeemUsed(r) \/ RedeemExpired(r) \/ ConstraintBroken(r)
  <2>1. pc'[r] \in {"redeem", "rollback"}
    BY <1>1, <1>7 DEF Open, RedeemUsed, RedeemExpired, ConstraintBroken, Breaks, Refuse,
                      Goto, TypeOK
  <2>. QED
    BY <1>3, <2>1 DEF Redeemed, Answered
<1>8. CASE RedeemOpen(r)
  <2>1. pc[r] = "redeem" /\ ~IsUsed(invites[inv[r]]) /\ users[who[r]] # NoRow
    BY <1>8 DEF RedeemOpen, Orphan
  <2>2. op[r] = "finish"
    BY <1>1, <2>1 DEF RegistrationInv
  <2>3. /\ who[r] \in Users
        /\ \E c \in challenges : c.user = who[r] /\ c.invite = inv[r]
    BY <2>2, RegistrationFacts
  <2>4. UsedBy(inv[r], who[r])
    BY <2>1, <2>3 DEF Core, ChallengeInv
  <2>. QED
    BY <2>1, <2>3, <2>4, ConstantsAssumption DEF UsedBy, IsUsed
<1>9. CASE Account(r)
  BY <1>1, <1>2, <1>9 DEF Account, RegistrationInv
<1>10. CASE Commit(r) \/ CommitUnseen(r)
  <2>1. pc[r] = "commit" /\ op' = op
    BY <1>10 DEF Commit, CommitUnseen, Finish, arguments
  <2>. QED
    BY <1>2, <1>3, <2>1 DEF Redeemed, Answered
<1>11. CASE Rollback(r) \/ Fail(r)
  <2>1. pc'[r] = "done" /\ op' = op
        /\ verdict'[r] \in Refusals \cup {"error"}
    BY <1>1, <1>11 DEF Rollback, Fail, Finish, Goto, TypeOK, arguments, Trust, Carried
  <2>. QED
    BY <1>3, <2>1 DEF Redeemed, Answered, Refusals
<1>. QED
  BY <1>4, <1>5, <1>6, <1>7, <1>8, <1>9, <1>10, <1>11 DEF Step, Proceed, Register, Redeem

(* Registration, with the schema as it is (users are inserted after the    *)
(* invite that names them is saved, and the foreign key of used_by is not  *)
(* deferred): whatever invites, challenges and requests there are, nobody  *)
(* ever registers.                                                         *)
THEOREM SchemaAdmitsNobody ==
    ASSUME CheckedAtCommit = FALSE
    PROVE  Spec => []NobodyRegisters
<1>1. Init => NobodyRegisters /\ NobodyRedeems
  BY DEF Init, NobodyRegisters, NobodyRedeems, Answered, Redeemed
<1>2. Core /\ Trust /\ NobodyRegisters /\ NobodyRedeems /\ [Next]_vars
         => NobodyRegisters' /\ NobodyRedeems'
  <2>1. ASSUME Core, Trust, NobodyRegisters, NobodyRedeems, NEW r \in Requests, Step(r)
        PROVE  NobodyRegisters' /\ NobodyRedeems'
    <3>1. ASSUME NEW q \in Requests \ {r}
          PROVE  ~Redeemed(q)' /\ ~Answered(q, {"finish"})'
      <4>1. pc'[q] = pc[q] /\ op'[q] = op[q] /\ verdict'[q] = verdict[q]
        BY <2>1, <3>1, StepOfOne
      <4>2. ~Redeemed(q) /\ ~Answered(q, {"finish"})
        BY <2>1 DEF NobodyRegisters, NobodyRedeems
      <4>. QED
        BY <4>1, <4>2 DEF Redeemed, Answered
    <3>2. users' = users /\ ~Redeemed(r)' /\ ~Answered(r, {"finish"})'
      BY <2>1, NobodyRedeemsKept
    <3>. QED
      BY <2>1, <3>1, <3>2 DEF NobodyRegisters, NobodyRedeems
  <2>2. ASSUME NobodyRegisters, NobodyRedeems, UNCHANGED <<users, pc, op, verdict>>
        PROVE  NobodyRegisters' /\ NobodyRedeems'
    BY <2>2 DEF NobodyRegisters, NobodyRedeems, Redeemed, Answered
  <2>. QED
    BY <2>1, <2>2 DEF Next, Tick, Finished, vars, tables, arguments
<1>. QED
  BY <1>1, <1>2, Invariance, TrustHolds, PTL DEF Spec

-----------------------------------------------------------------------------
(* Invites implements InviteBook.                                          *)

(* The rows of the one are the rows of the other.                          *)
LEMMA BookRows ==
    /\ Book!User = User /\ Book!Invite = Invite
    /\ \A u \in Users : Book!OpenOf(u) = Active(u, clock)
BY DEF Book!User, Book!Invite, Book!OpenOf, User, Invite, Roles, Expiries, Active

(* To count is the same in both modules.                                   *)
LEMMA BookCount ==
    ASSUME NEW S
    PROVE  Book!Cardinality(S) = Cardinality(S)
BY DEF Book!Cardinality, Cardinality

(* The commit of a creation is an offer within the cap: what it counted is *)
(* still all there is, and of that some may have expired since.            *)
LEMMA IssuesIsOffer ==
    ASSUME Core, Trust, NEW r \in Requests, pc[r] = "commit", Issues(r), clock' = clock,
           wired' = wired
    PROVE  \E i \in Book!Changed, u \in Users : Book!Offer(u, i)
<1>1. TypeOK /\ CreationInv(r) /\ Carried(r)
  BY DEF Core, RequestInv, Trust
<1>. DEFINE u == who[r]
            i == NewInvite[r]
<1>2. /\ Creating(r) /\ u \in Users /\ i \in InviteIDs /\ invites[i] = NoRow
      /\ users' = users /\ users[u] # NoRow
  BY <1>1 DEF Issues, Carried
<1>3. PICK row \in Invite : /\ row.creator = u /\ row.usedBy = None
                            /\ invites' = [invites EXCEPT ![i] = row]
  BY DEF Issues
<1>4. invites'[i] = row
  BY <1>1, <1>2, <1>3 DEF TypeOK
<1>5. row \in Book!Unused(u)
  BY <1>3 DEF Invite, Expiries, Book!Unused
<1>6. ASSUME wired = "limited", u # Root
      PROVE  Cardinality(Book!OpenOf(u)) < MaxActive
  <2>1. Policy(r) = "limited" /\ Counted(r)
    BY <1>1, <1>2, <1>6, ConstantsAssumption
       DEF TypeOK, CreationInv, Creating, Counted, Policy
  <2>2. Cardinality(Active(u, now[r])) < MaxActive
    BY <1>1, <2>1 DEF CreationInv
  <2>3. Active(u, clock) \subseteq Active(u, now[r])
    <3>1. now[r] \in Nat /\ now[r] <= clock /\ clock \in Nat
      BY <1>1, Numbers DEF TypeOK, CreationInv
    <3>2. \A j \in InviteIDs : invites[j] # NoRow => invites[j].expires \in Nat
      BY <1>1, Numbers DEF TypeOK, Invite, Expiries
    <3>. QED
      BY <3>1, <3>2 DEF Active
  <2>4. /\ Cardinality(Active(u, clock)) \in Nat
        /\ Cardinality(Active(u, clock)) <= Cardinality(Active(u, now[r]))
        /\ Cardinality(Active(u, now[r])) \in Nat
    BY <2>3, ActiveFinite, FS_Subset
  <2>5. Cardinality(Active(u, clock)) < MaxActive
    BY <2>2, <2>4, Numbers
  <2>. QED
    BY <1>2, <2>5, BookRows
<1>. HIDE DEF u, i
<1>7. Book!Offer(u, i)
  <2>1. invites'[i] \in Book!Unused(u) /\ invites' = [invites EXCEPT ![i] = invites'[i]]
    BY <1>3, <1>4, <1>5
  <2>2. wired = "limited" /\ u # Root => Cardinality(Book!OpenOf(u)) < MaxActive
    BY <1>6
  <2>3. UNCHANGED <<wired = "limited", clock, users>>
    BY <1>2
  <2>4. users[u] # NoRow /\ invites[i] = NoRow
    BY <1>2
  <2>. QED
    BY <2>1, <2>2, <2>3, <2>4, BookCount DEF Book!Offer
<1>8. i \in Book!Changed
  BY <1>2, <1>3, <1>4, ConstantsAssumption DEF Book!Changed
<1>. QED
  BY <1>2, <1>7, <1>8

(* The commit of a registration admits its candidate: the invite it has    *)
(* locked is still unused, and its inviter and its keys are those it read. *)
LEMMA AdmitsIsAdmission ==
    ASSUME Core, Trust, NEW r \in Requests, pc[r] = "commit", Admits(r), clock' = clock,
           wired' = wired
    PROVE  \E i \in Book!Changed, u \in Users : Book!Admit(u, i)
<1>1. TypeOK /\ Carried(r)
  BY DEF Core, Trust
<1>. DEFINE u  == who[r]
            i  == inv[r]
            by == invites[i].creator
<1>2. /\ op[r] = "finish" /\ u \in Users /\ i \in InviteIDs
      /\ invites[i] \in Invite /\ invites[i].usedBy = None /\ users[u] = NoRow
  BY DEF Admits, Redeemed, IsUsed
<1>3. invites[i] # NoRow
  BY <1>2, ConstantsAssumption
<1>4. PICK user \in User : /\ user = pendUser[r] /\ user.by = by
                           /\ users' = [users EXCEPT ![u] = user]
  BY DEF Admits
<1>5. invites' = [invites EXCEPT ![i].usedBy = u]
  BY DEF Admits
<1>6. users'[u] = user
  BY <1>1, <1>2, <1>4 DEF TypeOK
<1>7. user.keys # {}
  <2>1. keys[r] # <<>> /\ user.keys = ScopesOf(keys[r])
    BY <1>1, <1>2, <1>4 DEF Carried
  <2>. QED
    BY <1>1, <2>1, ScopesFound DEF TypeOK
<1>8. user.role = "admin" <=> by = Root
  BY <1>1, <1>2, <1>4 DEF Carried
<1>. HIDE DEF u, i, by
<1>9. user \in Book!InvitedBy(by)
  <2>1. user \in [role : Roles, by : Users \cup {None}, keys : SUBSET Scopes]
    BY DEF User
  <2>2. user.role = IF by = Root THEN "admin" ELSE "member"
    BY <1>8, <2>1 DEF Roles
  <2>3. user.by = by /\ user.keys \in (SUBSET Scopes) \ {{}}
    BY <1>4, <1>7, <2>1
  <2>. QED
    BY <2>1, <2>2, <2>3 DEF Book!InvitedBy
<1>10. Book!Admit(u, i)
  BY <1>2, <1>3, <1>4, <1>5, <1>6, <1>9 DEF Book!Admit, by
<1>11. i \in Book!Changed
  BY <1>1, <1>2, <1>5, ConstantsAssumption DEF TypeOK, Invite, Book!Changed
<1>. QED
  BY <1>2, <1>10, <1>11

(* CreateInvite, FinishInviteRegistration (OneBook): whoever's requests    *)
(* overlap, every commit is one offer within the cap or one admission, and *)
(* nothing else shows in the tables.                                       *)
THEOREM BookImplemented == Spec => OneBook
<1>. DEFINE Simulated == [Book!BookNext]_<<wired = "limited", clock, users, invites>>
<1>1. Init => Book!BookInit
  <2>. SUFFICES ASSUME Init PROVE Book!BookInit
    OBVIOUS
  <2>1. TypeOK
    BY InitHolds DEF Core
  <2>. QED
    BY <2>1, InitAssumption, BookRows DEF Init, TypeOK, Book!BookInit
<1>2. Core /\ Trust /\ [Next]_vars => Simulated
  <2>. SUFFICES ASSUME Core, Trust, [Next]_vars PROVE Simulated
    OBVIOUS
  <2>1. CASE Tick
    <3>1. Book!Pass
      BY <2>1, WiringStays, Numbers DEF Tick, tables, Core, TypeOK, Book!Pass
    <3>. QED
      BY <3>1 DEF Book!BookNext
  <2>2. ASSUME NEW r \in Requests, Step(r)
        PROVE  Simulated
    <3>1. CASE users' = users /\ invites' = invites /\ clock' = clock
      BY <3>1, WiringStays
    <3>2. CASE pc[r] = "commit" /\ Install(r) /\ clock' = clock
      <4>1. \E i \in Book!Changed, u \in Users : Book!Offer(u, i) \/ Book!Admit(u, i)
        BY <3>2, WiringStays, CommitFacts, IssuesIsOffer, AdmitsIsAdmission
      <4>. QED
        BY <4>1 DEF Book!BookNext
    <3>. QED
      BY <2>2, <3>1, <3>2, StepTables
  <2>3. CASE UNCHANGED vars
    BY <2>3 DEF vars, tables
  <2>. QED
    BY <2>1, <2>2, <2>3 DEF Next, Finished
<1>. QED
  BY <1>1, <1>2, Invariance, TrustHolds, PTL DEF Spec, OneBook, Book!BookSpec, Book!book
=============================================================================
