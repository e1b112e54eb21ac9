--------------------------- MODULE MCObjectWatcher ---------------------------
(* Small instances of ObjectWatcher for TLC: two components, the second    *)
(* outside the namespace of watcher w1, and one configuration.             *)
EXTENDS ObjectWatcher, TLC

CONSTANTS component, configuration, c1, c2, f1, w1, w2, w3

MCKindOf ==
    [x \in Objects \cup Listeners |-> IF x \in {f1, w3} THEN configuration ELSE component]

MCMatches == [l \in Listeners |-> IF l = w1 THEN {c1} ELSE Objects \cap {c1, c2, f1}]

(* One kind and one namespace only. *)
OneKind == [x \in Objects \cup Listeners |-> component]
MatchAll == [l \in Listeners |-> Objects]
=============================================================================
