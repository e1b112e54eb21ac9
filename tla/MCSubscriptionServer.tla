------------------------ MODULE MCSubscriptionServer ------------------------
(* Small instances of SubscriptionServer for TLC. *)
EXTENDS SubscriptionServer, TLC

=============================================================================
