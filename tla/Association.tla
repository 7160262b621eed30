----------------------------- MODULE Association -----------------------------
(***************************************************************************)
(* What user-node mapping promises, with no messages, tasks or retries:    *)
(* the cloud learns ids, the node believes in one, and the node never      *)
(* believes in an id other than the one the cloud holds.  A node that      *)
(* believes in an id gives it up before the cloud can learn another.       *)
(***************************************************************************)
CONSTANTS Id,      (* user ids, the dummy one that stands for a reset too    *)
          NoUser

VARIABLES belief,  (* the id the node takes to be confirmed                  *)
          cloud    (* the id the cloud holds                                 *)

Init == belief = NoUser /\ cloud = NoUser

GiveUp == belief' = NoUser /\ UNCHANGED cloud

Learn(u) ==
    /\ belief \in {NoUser, u}
    /\ cloud' = u
    /\ UNCHANGED belief

Confirm ==
    /\ cloud # NoUser
    /\ belief' = cloud
    /\ UNCHANGED cloud

Next == GiveUp \/ Confirm \/ \E u \in Id : Learn(u)

Spec == Init /\ [][Next]_<<belief, cloud>>

(* The promise: what the node believes is what the cloud holds.             *)
Agreement == belief \in {NoUser, cloud}
=============================================================================
