----------------------------- MODULE MCProcess -----------------------------
(* What surrounds the runtime of a sidecar: its process, its health endpoint  *)
(* and the injector that put it beside its application.  They share no state: *)
(* part says which of them runs, the others stay as they are.                 *)
EXTENDS SidecarProcess, SidecarInjector, HealthCheck

VARIABLE part
partVars == <<part, processVars, injectorVars, hcVars>>

-----------------------------------------------------------------------------
\* A valid setting, one that arrives malformed, the first with another propagator.
MCSetting == 1 :> [endpoint |-> "otel", propagator |-> "w3c"]
          @@ 2 :> [endpoint |-> "", propagator |-> "w3c"]
          @@ 3 :> [endpoint |-> "otel", propagator |-> "jaeger"]
MCMalformed == {<<"telemetry", 2>>}
MCEvents == {"components" :> 0 @@ "telemetry" :> 2, "components" :> 1 @@ "telemetry" :> 0}
Doc(wf, k, s) == [wellFormed |-> wf, kind |-> k, spec |-> s]
File(y, r, docs) == [isYaml |-> y, readable |-> r, documents |-> docs]
MCFiles == <<File(TRUE, TRUE, <<Doc(TRUE, "Component", 1), Doc(FALSE, "Component", 2),
                                Doc(TRUE, "Configuration", 3), Doc(TRUE, "Component", 4)>>),
             File(TRUE, FALSE, <<Doc(TRUE, "Component", 5)>>),
             File(FALSE, TRUE, <<Doc(TRUE, "Component", 6)>>)>>
MCCommandLines == [mode : {"kubernetes", "standalone"}, appID : {"", "app"}, address : {"", "operator"},
                   config : {"", "parses", "broken"}, path : {"", "dir"}]

-----------------------------------------------------------------------------
(* Pods that differ in one respect at a time from an ordinary one, and the   *)
(* pods with every combination of containers and of their variables.         *)
Own == [name |-> "RUSI_GRPC_PORT", value |-> "7"]
Other == [name |-> "HOME", value |-> "/"]
App(envs, mounts) == [name |-> "app", env |-> envs, mounts |-> mounts]
Apps == {App(e, {}) : e \in {<<>>, <<Own>>, <<Other>>, <<Other, Own>>}}
Named == [name |-> "rusid", env |-> <<>>, mounts |-> {}]
Pod(a, cs, is) == [name |-> "p", annotations |-> a, labels |-> {"app"},
                   containers |-> cs, initContainers |-> is]
On == [enabled |-> "yes"]
Plain == App(<<>>, {"token"})
AnnotatedWith == {
    [enabled |-> "no"], [enabled |-> "1", config |-> "c"], On,
    [enabled |-> "on"] @@ ("app-id" :> "shop") @@ ("enable-debug" :> "true"),
    On @@ ("app-id" :> "") @@ ("debug-port" :> "40001") @@ ("enable-debug" :> "y"),
    On @@ ("debug-port" :> "many") @@ ("enable-metrics" :> "off"),
    On @@ ("cpu-limit" :> "100m") @@ ("memory-limit" :> "much"),
    On @@ ("memory-request" :> "1Gi") @@ ("liveness-delay" :> "0"),
    On @@ ("env" :> <<<<"A", "1">>, <<"">>, <<"A", "b", "c">>>>)}

MCPods ==
    LET shapes == {Pod(On, cs, is) : cs \in {<<>>} \cup {<<c>> : c \in Apps} \cup {<<c, d>> : c, d \in Apps},
                                     is \in {<<>>, <<Plain>>}}
        named  == {Pod(On, <<Plain, Named>>, <<>>), Pod(On, <<Plain>>, <<Named>>)}
        others == {Pod(a, <<Plain>>, <<>>) : a \in AnnotatedWith}
        odd    == {[p EXCEPT !.name = ""] : p \in others} \cup {[p EXCEPT !.labels = {}] : p \in others}
    IN  shapes \cup named \cup others \cup odd

-----------------------------------------------------------------------------
(* Version 1.10 in bytes; no requirement, 1.1, and 1.9, which it is less than. *)
MCVersion == <<49, 46, 49, 48>>
MCMinVersions == {<<>>, <<49, 46, 49>>, <<49, 46, 57>>}

PartInit ==
    /\ part \in {"process", "injector", "health"}
    /\ part # "process" => mode = "standalone" /\ main = "running"
    /\ part # "injector" => /\ pod = CHOOSE p \in Pods : TRUE
                            /\ config = [validate |-> FALSE, asInit |-> FALSE, ignore |-> FALSE]
                            /\ requester = CHOOSE r \in Others : TRUE
    /\ part # "health" => hcMin = <<>>
    /\ ProcessInit /\ InjectorInit /\ HealthInit

PartNext ==
    /\ UNCHANGED part
    /\ \/ part = "process" /\ ProcessNext /\ UNCHANGED <<injectorVars, hcVars>>
       \/ part = "injector" /\ InjectorNext /\ UNCHANGED <<processVars, hcVars>>
       \/ part = "health" /\ HealthNext /\ UNCHANGED <<processVars, injectorVars>>

\* The liveness properties are those of SidecarProcess, and so is the fairness:
\* behaviours of the other machines count for the safety properties only.
PartSpec == PartInit /\ [][PartNext]_partVars /\ ProcessFairness
=============================================================================
