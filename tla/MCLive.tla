------------------------------- MODULE MCLive -------------------------------
(* The two channels to an operator: the live views, fed by the event stream  *)
(* of the control service, and the steering socket of the parent.  Each      *)
(* behaviour exercises one of them, the subject, and the other stands still. *)
EXTENDS LiveView, SteeringIpc

CONSTANT Subjects    \* the channels this run looks at

VARIABLE focus       \* the subject of this behaviour

(* An operator sends a command, the same id with another body, a replacement *)
(* of it and its withdrawal.                                                 *)
MCAdmitted(id, text, replaces, expiring) ==
  [op |-> "admit", id |-> id, body |-> text, sup |-> replaces, exp |-> expiring]
MCAdmit == {MCAdmitted("c", "x", "none", TRUE), MCAdmitted("c", "y", "none", TRUE),
            MCAdmitted("d", "x", "c", FALSE)}
MCWithdraw == {[op |-> "withdraw", id |-> "c", reason |-> "r"]}

mcVars == <<focus, liveVars, ipcVars>>

Init ==
  /\ focus \in Subjects
  /\ LiveInit /\ (focus # "view" => viewer = "room")
  /\ IpcInit

Next ==
  /\ UNCHANGED focus
  /\ \/ focus = "view" /\ LiveNext /\ UNCHANGED ipcVars
     \/ focus = "ipc" /\ IpcNext /\ UNCHANGED liveVars

Spec == Init /\ [][Next]_mcVars
=============================================================================
