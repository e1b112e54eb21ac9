------------------------------ MODULE MCSidecar ------------------------------
(* A small instance of Sidecar for TLC: one stream, which leaves the choice *)
(* of the pubsub to the configuration; two configurations that name the    *)
(* same pubsub but have different pipelines.                               *)
EXTENDS Sidecar, TLC

CONSTANTS s1, p

ByConfiguration == [s \in Streams |-> None]
SameName == <<p, p>>
=============================================================================
