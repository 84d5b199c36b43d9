----------------------------- MODULE MCNetwork -----------------------------
(***************************************************************************)
(* A network on one or two of three nodes, the last of which can be an     *)
(* access node, with malformed keys or without keys.                       *)
(***************************************************************************)
EXTENDS NetworkResource

Block(nodes, wg, keys) == [nodes |-> nodes, wg |-> wg, keys |-> keys]

MCBlocks == {Block({1, 2}, FALSE, NoKeys), Block({2}, TRUE, NoKeys), Block({2, 3}, TRUE, NoKeys)}
            \cup {Block({2}, TRUE, bad) : bad \in Malformed}
MCFaultSets == {{"revert", "cancel", "expire"}, {"chain", "deploy", "down", "expire"}, {"kill", "cancel"}}
=============================================================================
