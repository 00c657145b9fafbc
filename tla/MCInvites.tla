------------------------------ MODULE MCInvites ------------------------------
(***************************************************************************)
(* Values for the constants of Invites.  The root invited ua.  ua has one  *)
(* invite, i1, and the root has another, i2, that expires earlier; i3 is   *)
(* no invite.  Two clients hold challenges for i1 and one for i2.          *)
(***************************************************************************)
EXTENDS Invites, TLC

CONSTANTS root, ua, c1, c2, c3, n1, n2, n3, i1, i2, i3, j1, j2, j3, r1, r2, r3,
          main, decoy

MCUsers    == {root, ua, c1, c2, c3, n1, n2, n3}
MCInviteIDs == {i1, i2, i3, j1, j2, j3}
MCScopes   == {main, decoy}
MCKeyLists == {<<>>, <<main>>, <<main, decoy>>, <<main, main>>}

MCNewInvite == [r \in Requests |-> CASE r = r1 -> j1 [] r = r2 -> j2 [] r = r3 -> j3]
MCNewUser   == [r \in Requests |-> CASE r = r1 -> n1 [] r = r2 -> n2 [] r = r3 -> n3]

MCInitUsers ==
    [u \in MCUsers |->
        CASE u = root -> [role |-> "admin", by |-> None, keys |-> {}]
          [] u = ua   -> [role |-> "admin", by |-> root, keys |-> {main}]
          [] OTHER    -> NoRow]

MCInitInvites ==
    [i \in MCInviteIDs |->
        CASE i = i1 -> [creator |-> ua,   expires |-> 1, usedBy |-> None]
          [] i = i2 -> [creator |-> root, expires |-> 0, usedBy |-> None]
          [] OTHER  -> NoRow]

MCInitChallenges ==
    {[invite |-> i1, user |-> c1, expires |-> 0],
     [invite |-> i1, user |-> c2, expires |-> 1],
     [invite |-> i2, user |-> c3, expires |-> 1]}

MCWired  == {"limited", "unlimited"}

(* Requests that arrive are alike: renaming two of them, together with the *)
(* ids the generator gives them, changes nothing.                          *)
MCSymmetry ==
    {[e \in Requests \cup {MCNewInvite[r] : r \in Requests}
                     \cup {MCNewUser[r] : r \in Requests} |->
        IF e \in Requests THEN p[e]
        ELSE LET r == CHOOSE r \in Requests : e \in {MCNewInvite[r], MCNewUser[r]}
             IN  IF e = MCNewInvite[r] THEN MCNewInvite[p[r]] ELSE MCNewUser[p[r]]] :
        p \in Permutations(Requests)}
=============================================================================
