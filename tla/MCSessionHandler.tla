-------------------------- MODULE MCSessionHandler --------------------------
(* SessionHandler with three session ids, two configurations that differ in *)
(* their key map, and requests for data.                                    *)
EXTENDS SessionHandler, TLC

CONSTANTS s1, s2, s3, atok, kotoeri, desktop, mobile, onDevice, downloaded

MCSessionIds == {s1, s2, s3}
MCConfigs == {atok, kotoeri}
MCKeymap == [c \in MCConfigs |-> c]
MCPriority == [r \in Requests |-> IF r = onDevice THEN 10 ELSE 50]

Symmetry == Permutations(MCSessionIds)
=============================================================================
