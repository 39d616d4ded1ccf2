---------------------------- MODULE CanvasGraphMC -----------------------------
(* Instances of CanvasGraph for TLC. *)
EXTENDS CanvasGraph, TLC

MCInputs  == [trigger |-> <<>>, step |-> [in |-> "text"],
              merge |-> [a |-> "any", b |-> "text"], exec |-> [in |-> "number"]]
MCOutputs == [trigger |-> [out |-> "text"], step |-> [out |-> "text"],
              merge |-> [out |-> "any"], exec |-> <<>>]
MCPlanned == {"exec"}

Arrow(source, target, port) ==
    Edge([source |-> source, sourceHandle |-> "out", target |-> target, targetHandle |-> port])

\* An empty canvas, and a chain of three whose ends could be joined; one of its
\* nodes was stored with a blank field.
Unfilled(type) == [Node(type, 0) EXCEPT !.blank = TRUE]
Chain == [nodes |-> (1 :> Node("merge", 0) @@ 2 :> Unfilled("step") @@ 3 :> Node("merge", 0)),
          edges |-> (1 :> Arrow(1, 2, "in") @@ 2 :> Arrow(2, 3, "a"))]
MCDrafts  == {NoDraft, Chain}
MCRecipes == {[nodes |-> (1 :> Node("trigger", 0) @@ 2 :> Node("step", 1)),
               edges |-> (1 :> Arrow(1, 2, "in"))]}
=============================================================================
