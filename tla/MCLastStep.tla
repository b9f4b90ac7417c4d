------------------------------ MODULE MCLastStep ------------------------------
(* Two panes and two workspaces.  At the start an agent idles in one pane, *)
(* or works in it.  Panes, and workspaces, are interchangeable.            *)
EXTENDS LastStep, TLC

CONSTANTS p1, p2, w1, w2

In(w, on) == [ws |-> w, on |-> on]
NoAgent == [p \in Panes |-> Gone]
MCStarts == {[NoAgent EXCEPT ![p] = In(w, on)] :
               p \in Panes, w \in Workspaces, on \in BOOLEAN}

Symmetry == {f @@ g : f \in Permutations(Panes), g \in Permutations(Workspaces)}

=============================================================================
