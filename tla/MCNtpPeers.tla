------------------------------ MODULE MCNtpPeers ------------------------------
(* Values of the constants of NtpPeers for TLC: one peer, with an offset and  *)
(* a jitter around the thresholds 1 and 2.                                    *)
EXTENDS NtpPeers

MCRange == [start |-> 1, end |-> 2]

OnePeer == {<<p>> : p \in [selected : BOOLEAN, down : BOOLEAN, offset : {-3, -2, 1}, jitter : {0, 2, 3}]}

MCRemappings == {Unmapped, [Unmapped EXCEPT !.CRITICAL = WARNING]}
=============================================================================
