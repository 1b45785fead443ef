--------------------------- MODULE SerialHandlers ---------------------------
(***************************************************************************)
(* What reqSem promises to the handlers of mongoBackend, without           *)
(* semaphores: a request that arrives waits, then works alone, and ends,   *)
(* perhaps with something left to do beside the other requests.  No        *)
(* request begins twice, and none ends that has not begun.                 *)
(***************************************************************************)
CONSTANT Thread

VARIABLE phase   \* of the request of every thread

Init == phase = [t \in Thread |-> "idle"]

Become(t, p) == phase' = [phase EXCEPT ![t] = p]

Request(t) == phase[t] = "idle" /\ Become(t, "waiting")

Begin(t) ==
  /\ phase[t] = "waiting"
  /\ \A u \in Thread : phase[u] # "working"
  /\ Become(t, "working")

End(t) == phase[t] = "working" /\ (Become(t, "idle") \/ Become(t, "leaving"))

Leave(t) == phase[t] = "leaving" /\ Become(t, "idle")

Next == \E t \in Thread : Request(t) \/ Begin(t) \/ End(t) \/ Leave(t)

Spec == Init /\ [][Next]_phase
=============================================================================
