-------------------------- MODULE MCRequestPipeline --------------------------
(***************************************************************************)
(* Datagrams for model checking RequestPipeline, named after what they     *)
(* are: setup and teardown of call A (12 tokens), setup of call B, a setup *)
(* cut to five tokens, one with an empty call id (11 tokens), a ping, a    *)
(* config request, one token of junk and an unknown command.               *)
(***************************************************************************)
EXTENDS RequestPipeline

MCCommand == [setupA |-> "S", teardownA |-> "D", setupB |-> "S",
              short |-> "S", noCallId |-> "S", ping |-> "P", config |-> "G",
              junk |-> "junk", unknown |-> "X"]

MCTokens == [setupA |-> 12, teardownA |-> 12, setupB |-> 13,
             short |-> 5, noCallId |-> 11, ping |-> 2, config |-> 2,
             junk |-> 1, unknown |-> 4]

MCCallId == [r \in DOMAIN MCCommand |->
               IF r \in {"setupA", "teardownA"} THEN "A" ELSE "B"]

MCCallIds == {"A", "B"}

AllRequests == DOMAIN MCCommand
=============================================================================
