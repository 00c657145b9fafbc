---------------------------- MODULE SessionsAlone ----------------------------
(***************************************************************************)
(* Sessions with a memory: have any two requests been handled at the same  *)
(* time so far?  As long as they have not, more holds of the sessions.     *)
(***************************************************************************)
EXTENDS Sessions

VARIABLE alone

Alone == \A r, q \in InFlight : r = q

AloneInit == Init /\ alone = TRUE

AloneNext == Next /\ alone' = (alone /\ Alone')

AloneSpec == AloneInit /\ [][AloneNext]_<<vars, alone>>

-----------------------------------------------------------------------------
(* Revoking a chain, or the sessions of a clone's user, ends every session *)
(* descended from the ones it listed (RevokeAllUserSessions.Execute).      *)
LoneChainLeavesNoHeir == alone => ChainLeavesNoHeir

(* A device that has logged out does not refresh its session again         *)
(* (RevokeSession.Execute, FindRefreshTokenByIDForUpdate).                 *)
LoneLogoutEndsSession == [][alone' => LogoutObeyed]_<<vars, alone>>

(* Every step is one of the ledger that trades a token at most once: each  *)
(* token has one heir, and only a live one is traded                       *)
(* (RefreshAccessToken.validateRefreshToken).                              *)
LoneLedger == [][alone' => TradedLive]_<<vars, alone>>

-----------------------------------------------------------------------------
(* Why these hold.  While a request is in flight nobody else writes, so    *)
(* that what it read is still there: the token a refresh is rotating is    *)
(* live, and so is every session a revocation has listed until it saves    *)
(* them.  A token that was traded is revoked, hence neither listed nor     *)
(* traded again.                                                           *)
LoneRequest(r) ==
    /\ pc[r] = "rotate" => ~table[tok[r]].revoked
    /\ pc[r] = "commit" /\ op[r] = "refresh" => ~table[tok[r]].revoked
    /\ pc[r] \in {"save", "commit"} /\ op[r] \in RevokingAll =>
          \A s \in listed[r] : ~table[s].revoked

HeirsApart ==
    /\ \A r, q \in Requests :
          ToldAllRevoked(r) /\ Successor(q, NewID[q]) => tok[q] \notin listed[r]
    /\ TokenSpentOnce

(* The inductive invariant of SessionsProofs, for the lone case.           *)
LoneInv ==
    /\ IInv
    /\ alone => /\ Alone
                /\ \A r \in Requests : LoneRequest(r)
                /\ HeirsApart
=============================================================================
