----------------------- MODULE SubscriptionLifecycle -----------------------
(***************************************************************************)
(* What the sidecar promises of its Subscribe RPCs, whatever refreshes,    *)
(* failures and shutdowns they go through: a stream opens once, attaches   *)
(* to its pubsub and detaches any number of times, never twice in a row,   *)
(* closes only detached and for good, and the server stops only when no    *)
(* stream is left open, after which none opens.                            *)
(***************************************************************************)
CONSTANT Streams

VARIABLES phase,    (* of each stream *)
          stopped   (* the server has returned from Serve *)

vars == <<phase, stopped>>

Init == phase = [s \in Streams |-> "absent"] /\ stopped = FALSE

Become(s, from, to) ==
    /\ ~stopped
    /\ phase[s] = from
    /\ phase' = [phase EXCEPT ![s] = to]
    /\ UNCHANGED stopped

Open(s)   == Become(s, "absent", "open")
Attach(s) == Become(s, "open", "attached")
Detach(s) == Become(s, "attached", "open")
Close(s)  == Become(s, "open", "closed")

Stop ==
    /\ \A s \in Streams : phase[s] \in {"absent", "closed"}
    /\ stopped' = TRUE
    /\ UNCHANGED phase

Next == Stop \/ \E s \in Streams : Open(s) \/ Attach(s) \/ Detach(s) \/ Close(s)

Spec == Init /\ [][Next]_vars
=============================================================================
