----------------------------- MODULE MCDbRouter -----------------------------
(***************************************************************************)
(* Instances of DbRouter for TLC: all requests while the primary fails, or *)
(* one request while both nodes do.                                        *)
(***************************************************************************)
EXTENDS DbRouter, TLC

Situated == {[present |-> Request, unsteady |-> {"primary"}]}
            \cup {[present |-> {q}, unsteady |-> Node] : q \in Request}

Symmetry == Permutations(Request) \cup Permutations(Instance)
=============================================================================
