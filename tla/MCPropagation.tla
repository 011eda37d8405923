---------------------------- MODULE MCPropagation ----------------------------
(* Command lines for TLC: statuses as they are and, which                     *)
(* OkMeansPropagated leaves out, WARNING as OK.                               *)
EXTENDS Propagation

MCRemappings == {Unmapped, [Unmapped EXCEPT !.WARNING = OK]}
AsTheyAre == {Unmapped}
=============================================================================
