---------------------------- MODULE MCAutomations ----------------------------
(***************************************************************************)
(* Two clients that share a configuration; the user has a server of the    *)
(* generated one's name, or a hook of their own.  The second version is    *)
(* served on one line, as the bundle of test/automations.test.js is.       *)
(***************************************************************************)
EXTENDS Automations, TLC

CONSTANTS prompt, guide, servers, large, small

Forms    == prompt :> "script" @@ guide :> "notes" @@ servers :> "config"
Bundles  == large :> <<prompt, guide, servers>> @@ small :> <<servers, prompt>>
Served   == <<<<[name |-> "snipara", command |-> "first"]>>,
              <<[name |-> "snipara", command |-> "second"], [type |-> "run", command |-> "check"]>>>>
Mine     == {[list |-> <<[name |-> "snipara", type |-> "mine"]>>, layout |-> "printed"],
             [list |-> <<[type |-> "run", command |-> "check", env |-> "mine"], [env |-> "bare"]>>,
              layout |-> "other"]}
Nameables == {"snipara", "first", "second", "run", "check", "mine", "bare"}

\* What the proofs take for granted of a bundle.
ASSUME PlainBundle == Apart /\ NoKeyTwice
=============================================================================
