---------------------------- MODULE MCSessionsAlone ----------------------------
(***************************************************************************)
(* SessionsAlone with the values that MCSessions gives to the constants.   *)
(***************************************************************************)
EXTENDS MCSessions, SessionsAlone
=============================================================================
