---------------------------- MODULE SessionLedger ----------------------------
(***************************************************************************)
(* What the refresh_tokens table promises to its clients, with no requests *)
(* or transactions in sight: a row appears once and is never               *)
(* deleted, its owner and expiry never change, it can only go from live to *)
(* revoked, and a token is traded for a new one by revoking it and adding  *)
(* its successor in one step.                                              *)
(*                                                                         *)
(* The ledger also says which session was traded for which.  Two promises  *)
(* are stated.  SpecSpendOnce trades a token only while it is live, so that *)
(* no session ever has two heirs.  SpecSpendStale also lets a token that   *)
(* is already revoked be traded again: that is all the concurrent program  *)
(* keeps, see Sessions.                                                    *)
(***************************************************************************)
EXTENDS Naturals

CONSTANTS Users,       \* user ids
          Tokens,      \* refresh token ids; a row's token hash is its id here
          LastExpiry,  \* no row expires later than this
          NoRow        \* the value of table[s] when row s does not exist

Row == [user : Users, expires : 0..LastExpiry, revoked : BOOLEAN]

VARIABLES table,  \* the rows of refresh_tokens
          heirs   \* the pairs <<p, s>> such that s was traded for p

LedgerInit ==
    /\ table \in [Tokens -> Row \cup {NoRow}]
    /\ heirs = {}

Exists(s) == table[s] # NoRow
Live(s)   == Exists(s) /\ ~table[s].revoked

(* A login or a registration adds a live row under a fresh id.             *)
Fresh == [user : Users, expires : 0..LastExpiry, revoked : {FALSE}]

Issue ==
    \E s \in Tokens :
        /\ ~Exists(s)
        /\ table'[s] \in Fresh
        /\ table' = [table EXCEPT ![s] = table'[s]]
        /\ UNCHANGED heirs

(* Rows that exist are revoked, any number of them at once.                *)
Revoke ==
    LET changed == {s \in Tokens : Exists(s) /\ table'[s] # table[s]}
    IN  /\ table' = [s \in Tokens |-> IF s \in changed
                                      THEN [table[s] EXCEPT !.revoked = TRUE]
                                      ELSE table[s]]
        /\ UNCHANGED heirs

(* Token p is traded for s: p is revoked and s, live, takes over its owner *)
(* and its expiry.                                                         *)
Trade(p, s) ==
    /\ Exists(p)
    /\ ~Exists(s)
    /\ table' = [table EXCEPT ![p] = [table[p] EXCEPT !.revoked = TRUE],
                              ![s] = [user    |-> table[p].user,
                                      expires |-> table[p].expires,
                                      revoked |-> FALSE]]
    /\ heirs' = heirs \cup {<<p, s>>}

NextSpendOnce  == Issue \/ Revoke \/ \E p, s \in Tokens : Live(p) /\ Trade(p, s)
NextSpendStale == Issue \/ Revoke \/ \E p, s \in Tokens : Trade(p, s)

SpecSpendOnce  == LedgerInit /\ [][NextSpendOnce]_<<table, heirs>>
SpecSpendStale == LedgerInit /\ [][NextSpendStale]_<<table, heirs>>
=============================================================================
