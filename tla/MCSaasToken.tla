---------------------------- MODULE MCSaasToken ----------------------------
(* Instance of SaasToken for TLC: an old process with two callers and a    *)
(* new one with one.                                                       *)
EXTENDS SaasToken

CONSTANTS old, new, c1, c2, c3

MCProcesses == {old, new}
MCCallers == {c1, c2, c3}
MCHost == [c \in MCCallers |-> IF c = c3 THEN new ELSE old]

=============================================================================
