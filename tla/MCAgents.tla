-------------------------------- MODULE MCAgents --------------------------------
(* A model-checking instance of Agents. *)
EXTENDS Agents, TLC

(* Events of one ticket: to be implemented, to be reviewed, and one that   *)
(* does not parse.                                                         *)
MCTicketRequest ==
  {[ticket |-> "T1", status |-> "Ready for Implementation",
    admitted |-> TRUE, pr |-> FALSE, valid |-> TRUE],
   [ticket |-> "T1", status |-> "In Review",
    admitted |-> TRUE, pr |-> TRUE, valid |-> TRUE],
   [ticket |-> "T1", status |-> "In Review",
    admitted |-> TRUE, pr |-> TRUE, valid |-> FALSE]}

MCSlice ==
  {[inView |-> TRUE, enabled |-> TRUE, overrides |-> FALSE, map |-> <<>>],
   [inView |-> TRUE, enabled |-> TRUE, overrides |-> TRUE,
    map |-> ("In Review" :> "review-it")]}

(* The switches of the source, and all of them flipped. *)
MCRelease == {{"groom-it"}, {"code-it", "groom-it", "spec-it", "review-it", "validate-it"}}
=================================================================================
