------------------------------ MODULE SyncGate ------------------------------
(***************************************************************************)
(* What NewSyncCGITask's two flags amount to (NewSyncCGITask.h:19-24),     *)
(* without tasks, threads or messages: a gate that lets one sync run at a  *)
(* time.                                                                   *)
(*                                                                         *)
(*   open   no sync is running: a request starts one                       *)
(*   busy   a sync is running and nobody asked for another                 *)
(*   again  a sync is running and another one must follow it               *)
(*   lost   the running sync ended without reaching its report to the      *)
(*          server: nobody is left to open the gate                        *)
(***************************************************************************)
VARIABLE gate

TypeOK == gate \in {"open", "busy", "again", "lost"}

Init == gate = "open"

(* A request starts the sync or is merged with one that must follow. *)
Request ==
    \/ gate = "open" /\ gate' = "busy"
    \/ gate = "busy" /\ gate' = "again"

(* The report that follows a sync has ended: open, or run the next sync. *)
Finish ==
    \/ gate = "busy" /\ gate' = "open"
    \/ gate = "again" /\ gate' = "busy"

(* The sync ended on a path that starts no report. *)
Lose ==
    /\ gate \in {"busy", "again"}
    /\ gate' = "lost"

Next == Request \/ Finish \/ Lose

Spec == Init /\ [][Next]_gate
=============================================================================
