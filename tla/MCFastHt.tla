------------------------------ MODULE MCFastHt ------------------------------
EXTENDS FastHt
(* Two salts; keys that differ by Byte share a fingerprint.                *)
MCSalts == {[k \in Keys |-> k], [k \in Keys |-> k \div 2]}
Spec == HtInit /\ [][HtNext]_htVars
=============================================================================
