---- MODULE MCOfflineSync ----
(* A farmer, a farm of that farmer, a correction of the farmer, and a visit of a farmer the *)
(* server knows, from one phone; the server refuses the farm and the visit.                 *)
EXTENDS OfflineSync

CONSTANTS farmer, farm, correction, visit, r1, r2, none, synced

MCCreates == {farmer, farm, visit}
MCEdits == {correction}
MCParent == (farmer :> none) @@ (farm :> farmer) @@ (correction :> farmer) @@ (visit :> none)
MCBad == {farm, visit}
MCDays == {[writes |-> {farmer}, mishaps |-> 3],
           [writes |-> {farmer, correction}, mishaps |-> 1],
           [writes |-> {visit, farmer}, mishaps |-> 0],
           [writes |-> {farmer, farm}, mishaps |-> 1]}
MCSlots == {r1, r2}
====
