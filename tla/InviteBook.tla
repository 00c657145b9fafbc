----------------------------- MODULE InviteBook ------------------------------
(***************************************************************************)
(* What the tables invites and users promise to whoever reads them, with   *)
(* no requests, challenges, locks or transactions in sight: a member who   *)
(* has room under the cap offers an invite in one step, and an invite that *)
(* is unused admits one new user, is marked with it and gives it an        *)
(* inviter, a role and keys, in one step.  Rows change in no other way.    *)
(***************************************************************************)
EXTENDS Naturals, FiniteSets

CONSTANTS
    Users,      \* user ids
    Root,       \* the root user
    InviteIDs,  \* invite ids
    Scopes,     \* scopes of wrapped keys
    MaxActive,  \* open invites of a user at a time
    LastExpiry, \* no invite expires later than this
    NoRow,      \* users[u] or invites[i] when there is no such row
    None        \* no user

User   == [role : {"admin", "member"}, by : Users \cup {None}, keys : SUBSET Scopes]
Invite == [creator : Users, expires : 0..LastExpiry, usedBy : Users \cup {None}]

VARIABLES
    capped,     \* does MaxActive bind all but the root?
    clock, users, invites

book == <<capped, clock, users, invites>>

BookInit ==
    /\ capped \in BOOLEAN
    /\ clock = 0
    /\ users   \in [Users -> User \cup {NoRow}]
    /\ invites \in [InviteIDs -> Invite \cup {NoRow}]
    /\ users[Root] # NoRow
    /\ \A i \in InviteIDs : invites[i] # NoRow =>
          invites[i].usedBy = None /\ users[invites[i].creator] # NoRow

OpenOf(u) ==
    {i \in InviteIDs : /\ invites[i] # NoRow
                       /\ invites[i].creator = u /\ invites[i].usedBy = None
                       /\ invites[i].expires > clock}

Pass ==
    /\ clock' \in Nat /\ clock' > clock
    /\ UNCHANGED <<capped, users, invites>>

(* An invite may expire whenever its creator's policy says.                *)
Unused(u) == [creator : {u}, expires : 0..LastExpiry, usedBy : {None}]

Offer(u, i) ==
    /\ users[u] # NoRow /\ invites[i] = NoRow
    /\ invites'[i] \in Unused(u)
    /\ invites' = [invites EXCEPT ![i] = invites'[i]]
    /\ capped /\ u # Root => Cardinality(OpenOf(u)) < MaxActive
    /\ UNCHANGED <<capped, clock, users>>

(* Those the root invites are admins, those they invite are members; both  *)
(* have at least one key.                                                  *)
InvitedBy(u) == [role : {IF u = Root THEN "admin" ELSE "member"},
                 by   : {u},
                 keys : (SUBSET Scopes) \ {{}}]

Admit(u, i) ==
    /\ invites[i] # NoRow /\ invites[i].usedBy = None
    /\ users[u] = NoRow
    /\ users'[u] \in InvitedBy(invites[i].creator)
    /\ users'   = [users EXCEPT ![u] = users'[u]]
    /\ invites' = [invites EXCEPT ![i].usedBy = u]
    /\ UNCHANGED <<capped, clock>>

Changed == {i \in InviteIDs : invites'[i] # invites[i]}

BookNext == Pass \/ \E i \in Changed, u \in Users : Offer(u, i) \/ Admit(u, i)

BookSpec == BookInit /\ [][BookNext]_book
=============================================================================
