-------------------------- MODULE MCRuntimeBroker --------------------------
(* RuntimeBroker with two users whose Workers come, go and come again. *)
EXTENDS RuntimeBroker, TLC

CONSTANTS alice, bob, c1, c2

MCUsers == {alice, bob}
MCCredentials == {c1, c2}

Symmetry == Permutations(MCUsers) \cup Permutations(MCCredentials)

(* What is over and can have no effect any more is not told apart. *)
Gone(k) == k = 0 \/ ~Receives(k)

OpenCalls ==
  [i \in Calls |->
     IF call[i].at = "pending" \/ call[i].at = "none" THEN call[i]
     ELSE IF Gone(call[i].on) THEN [at |-> "settled"] ELSE [at |-> "settled", on |-> call[i].on]]

OpenStreams ==
  [s \in Streams |->
     IF Streaming(s) /\ ~stream[s].listed /\ stream[s].start # "begun"
     THEN IF Gone(stream[s].on) THEN [on |-> 0] ELSE [on |-> stream[s].on]
     ELSE stream[s]]

OpenWaits ==
  [w \in Waiters |-> IF waiter[w].at \in {"resolved", "rejected"} THEN [at |-> "settled"]
                     ELSE waiter[w]]

Open == <<enabled, sockets, credential, OpenCalls, OpenStreams, OpenWaits, old>>
=============================================================================
