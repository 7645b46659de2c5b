---------------------------- MODULE WritePromise ----------------------------
(***************************************************************************)
(* What src/willow promises of a write, whatever its request met: it runs  *)
(* at most once; one whose error carries no transaction never ran and      *)
(* never will, so calling it again is safe; one that may have reached the  *)
(* node is only ever sent again as it was (README.md, "When a write        *)
(* fails").                                                                *)
(***************************************************************************)
EXTENDS Naturals

CONSTANT Ops

VARIABLES
  status,  \* what the application knows of each write
  runs     \* how often each write ran

Statuses == {"idle", "sent", "accepted", "kept", "resent", "failed", "landed"}

Init ==
  /\ status = [w \in Ops |-> "idle"]
  /\ runs = [w \in Ops |-> 0]

To(w, s) == status' = [status EXCEPT ![w] = s] /\ UNCHANGED runs

\* Called for the first time, or again after an error without transaction.
Start(w) == status[w] \in {"idle", "failed"} /\ To(w, "sent")

\* Refused, or never sent: it has not run, and runs only if called again.
Fail(w) == status[w] = "sent" /\ runs[w] = 0 /\ To(w, "failed")

Accept(w) == status[w] \in {"sent", "resent"} /\ To(w, "accepted")
Keep(w) == status[w] \in {"sent", "resent"} /\ To(w, "kept")
Resend(w) == status[w] = "kept" /\ To(w, "resent")

\* Its nonce was used, by this write or another one.
Settled(w) == status[w] \in {"accepted", "kept"} /\ To(w, "landed")

Run(w) ==
  /\ status[w] \notin {"idle", "failed"}
  /\ runs[w] = 0
  /\ runs' = [runs EXCEPT ![w] = 1]
  /\ UNCHANGED status

Next ==
  \E w \in Ops :
    \/ Start(w) \/ Fail(w) \/ Accept(w) \/ Keep(w) \/ Resend(w) \/ Settled(w)
    \/ Run(w)

Spec == Init /\ [][Next]_<<status, runs>>
=============================================================================
