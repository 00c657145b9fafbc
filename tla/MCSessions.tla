----------------------------- MODULE MCSessions -----------------------------
(***************************************************************************)
(* Values for the constants of Sessions.  u1 invited u2; s1 and s2 are     *)
(* live, s2 expires one tick earlier, s3 was traded or revoked earlier.    *)
(***************************************************************************)
EXTENDS Sessions, TLC

CONSTANTS u1, u2, s1, s2, s3, r1, r2, r3, n1, n2, n3

MCUsers  == {u1, u2}
MCTokens == {s1, s2, s3, n1, n2, n3}

MCDescendants == [u \in MCUsers |-> IF u = u1 THEN {u1, u2} ELSE {u2}]

MCNewID == [r \in Requests |-> CASE r = r1 -> n1 [] r = r2 -> n2 [] r = r3 -> n3]

MCInitTable ==
    [s \in MCTokens |->
        CASE s = s1 -> [user |-> u1, expires |-> 2, revoked |-> FALSE]
          [] s = s2 -> [user |-> u2, expires |-> 1, revoked |-> FALSE]
          [] s = s3 -> [user |-> u2, expires |-> 2, revoked |-> TRUE]
          [] OTHER  -> NoRow]

(* Requests that arrive are alike: renaming two of them, together with the *)
(* ids the generator gives them, changes nothing.                          *)
MCSymmetry ==
    {[e \in Requests \cup {MCNewID[r] : r \in Requests} |->
        IF e \in Requests THEN p[e]
        ELSE MCNewID[p[CHOOSE r \in Requests : MCNewID[r] = e]]] :
        p \in Permutations(Requests)}
=============================================================================
