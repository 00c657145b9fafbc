------------------------------- MODULE MCLogins -------------------------------
(***************************************************************************)
(* Values for the constants of Logins.  ua has an authenticator a1 that    *)
(* counts and one, a2, that does not; ub has b1.  The counter of a1 is at  *)
(* 1.  s1 and s2 are sessions of ua, t of ub.                              *)
(***************************************************************************)
EXTENDS Logins, TLC

CONSTANTS ua, ub, a1, a2, b1, s1, s2, t, r1, r2, r3, r4

MCOwner     == [c \in Creds |-> IF c = b1 THEN ub ELSE ua]
MCInitCount == [c \in Creds |-> IF c = a1 THEN 1 ELSE 0]
MCOldOwner  == [s \in OldSessions |-> IF s = t THEN ub ELSE ua]

MCAssertions ==
    {[cred |-> a1, count |-> n] : n \in 1..3} \cup
    {[cred |-> a2, count |-> 0], [cred |-> b1, count |-> 1]}

MCSymmetry == Permutations(Requests)
=============================================================================
