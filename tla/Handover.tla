------------------------------ MODULE Handover ------------------------------
(***************************************************************************)
(* What a native transfer promises.  Two ends of a call that runs over a   *)
(* third party come to speak to each other directly: each may agree to it  *)
(* or take its word back, and one switches over only when the other has    *)
(* agreed, which from then on keeps its word.                              *)
(***************************************************************************)
CONSTANT Ends

VARIABLE status   \* what each end does: "bridged", "ready" to be switched, "direct"

Bridged == status = [e \in Ends |-> "bridged"]

(* The end agrees to be switched over. *)
Agree(e) == status[e] = "bridged" /\ status' = [status EXCEPT ![e] = "ready"]

(* It takes its word back, as long as nobody counts on it. *)
Withdraw(e) ==
  /\ status[e] = "ready"
  /\ \A o \in Ends : status[o] # "direct"
  /\ status' = [status EXCEPT ![e] = "bridged"]

(* It is switched over, when everybody has agreed. *)
Switch(e) ==
  /\ status[e] = "ready"
  /\ \A o \in Ends : status[o] # "bridged"
  /\ status' = [status EXCEPT ![e] = "direct"]

HandoverSpec == Bridged /\ [][\E e \in Ends : Agree(e) \/ Withdraw(e) \/ Switch(e)]_status

=============================================================================
