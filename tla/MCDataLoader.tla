---------------------------- MODULE MCDataLoader ----------------------------
(* DataLoader with three requests: one of high priority, two that tie. *)
EXTENDS DataLoader

CONSTANTS onDevice, downloaded, bundled

MCRequests == {onDevice, downloaded, bundled}
MCPriority == [r \in MCRequests |-> IF r = onDevice THEN 10 ELSE 50]
=============================================================================
