------------------------- MODULE MCJetStreamConsumer -------------------------
(* Small instances of JetStreamConsumer for TLC.                           *)
EXTENDS JetStreamConsumer, TLC
=============================================================================
