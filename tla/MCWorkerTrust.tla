---------------------------- MODULE MCWorkerTrust ----------------------------
(***************************************************************************)
(* Two users, two profiles of one worker, of which one may write more.     *)
(***************************************************************************)
EXTENDS WorkerTrust, TLC

CONSTANTS narrow, wide, code

Widens == narrow :> {} @@ wide :> {code}
=============================================================================
