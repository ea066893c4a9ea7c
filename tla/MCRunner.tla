------------------------------ MODULE MCRunner ------------------------------
(* Instances of Runner for TLC. *)
EXTENDS Runner

\* A closing text, an empty ending, a provider error with text, an abort.
MCMessages ==
  {[text |-> TRUE, stop |-> "stop"], [text |-> FALSE, stop |-> "stop"],
   [text |-> TRUE, stop |-> "error"], [text |-> FALSE, stop |-> "aborted"]}

\* The messages that tell the ends of a negotiation apart.
MCFewMessages ==
  {[text |-> TRUE, stop |-> "stop"], [text |-> FALSE, stop |-> "artifact"]}
=============================================================================
