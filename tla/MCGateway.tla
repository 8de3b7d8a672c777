---- MODULE MCGateway ----
(* Instances of Gateway for TLC. *)
EXTENDS Gateway

(* A whole body, and ones that break off: with and without their length    *)
(* declared, and one of a type that is not logged.                         *)
MCBodies ==
  {[text |-> TRUE, declared |-> TRUE, cut |-> FALSE], [text |-> TRUE, declared |-> TRUE, cut |-> TRUE],
   [text |-> TRUE, declared |-> FALSE, cut |-> TRUE], [text |-> FALSE, declared |-> FALSE, cut |-> TRUE]}

(* Nothing, one line, and lines that end in CR LF with a blank one between. *)
MCStreamLists ==
  {<<>>, <<[url |-> "a", cr |-> FALSE]>>,
   <<[url |-> "", cr |-> TRUE], [url |-> "a", cr |-> TRUE], [url |-> "", cr |-> TRUE], [url |-> "b", cr |-> TRUE]>>}
====
