-------------------------- MODULE SidecarInjector --------------------------
(***************************************************************************)
(* The admission webhook (pkg/injector): a pod that is about to be created *)
(* is reviewed, the answer is a refusal, a plain permission or a JSON      *)
(* patch, and the API server applies it.  A stored pod may be submitted    *)
(* again, as a restore or an export and create do.  Names, images, ports   *)
(* and durations are strings that are only compared.                       *)
(***************************************************************************)
EXTENDS Naturals, SequencesExt

CONSTANTS
    Pods,                   \* the pods that users and controllers submit
    Accounts, Mandatory,    \* service accounts of controllers, and the one that must exist
    Others,                 \* everybody else who submits pods
    MaxReviews              \* bound: how often one pod is submitted

ASSUME InjectorAssumption ==
    /\ Mandatory \in Accounts /\ Accounts \cap Others = {} /\ MaxReviews \in Nat

\* A pod as the API server accepts it: names of containers differ, so that one of
\* them at most has the sidecar's.
Sidecars(p) == {i \in DOMAIN (p.containers \o p.initContainers) :
                    (p.containers \o p.initContainers)[i].name = "rusid"}
IsPod(p) ==
    /\ p = [name |-> p.name, annotations |-> p.annotations, labels |-> p.labels,
            containers |-> p.containers, initContainers |-> p.initContainers]
    /\ p.containers \in Seq(Range(p.containers))
    /\ p.initContainers \in Seq(Range(p.initContainers))
    /\ \A c \in Range(p.containers) : /\ {"name", "env"} \subseteq DOMAIN c
                                      /\ c.env \in Seq(Range(c.env))
    /\ \A i, j \in Sidecars(p) : i = j

ASSUME PodsAssumption == \A p \in Pods : IsPod(p)

VARIABLES
    config,     \* validate, asInit: the webhook's Config; ignore: its failurePolicy
    authUIDs,   \* the accounts found at the start
    requester,  \* who submits the pod
    pod,        \* the pod under review, or as it was stored
    phase,      \* "submitted", "answered", "created", "refused"
    answer,     \* the AdmissionResponse
    reviews     \* how often the pod was submitted
injectorVars == <<config, authUIDs, requester, pod, phase, answer, reviews>>

-----------------------------------------------------------------------------
(* Annotations: a partial function from keys to values. *)
Truthy == {"y", "yes", "true", "on", "1"}           \* in any case of letters
Numerals == {"0", "7", "9091", "40001"}             \* what ParseInt accepts
Quantities == {"100m", "1Gi"}                       \* what ParseQuantity accepts

BoolOr(a, key, default) == IF key \in DOMAIN a THEN a[key] \in Truthy ELSE default
StringOr(a, key, default) == IF key \in DOMAIN a /\ a[key] # "" THEN a[key] ELSE default
Int32Or(a, key, default) ==
    IF key \in DOMAIN a /\ a[key] \in Numerals THEN a[key] ELSE default

\* The pairs of the env annotation, one tuple of pieces for each: those that are
\* not name and value are skipped.
ParseEnvString(a) ==
    IF "env" \notin DOMAIN a THEN <<>>
    ELSE LET pairs == SelectSeq(a["env"], LAMBDA p : Len(p) = 2)
         IN  [i \in DOMAIN pairs |-> [name |-> pairs[i][1], value |-> pairs[i][2]]]

\* A quantity that does not parse leaves the sidecar without any requirement.
ResourceKeys == {"cpu-limit", "memory-limit", "cpu-request", "memory-request"}
ResourceRequirements(a) ==
    IF \E k \in ResourceKeys \cap DOMAIN a : a[k] \notin Quantities THEN <<>>
    ELSE [k \in ResourceKeys \cap (DOMAIN a \cup {"memory-limit", "memory-request"}) |->
            IF k \in DOMAIN a THEN a[k]
            ELSE IF k = "memory-limit" THEN "512Mi" ELSE "20Mi"]

GetAppID(p) == StringOr(p.annotations, "app-id", p.name)

\* The mount of the service account's token in the first container that has one.
TokenMounts(p) == {"token"} \cap UNION {c.mounts : c \in Range(p.containers)}

Probe(a, kind) ==
    [delay     |-> Int32Or(a, kind \o "-delay", "3"),
     timeout   |-> Int32Or(a, kind \o "-timeout", "3"),
     period    |-> Int32Or(a, kind \o "-period", "15"),
     threshold |-> Int32Or(a, kind \o "-threshold", "3")]

SidecarContainer(p) ==
    LET a == p.annotations
        debug == BoolOr(a, "enable-debug", FALSE)
        debugPort == Int32Or(a, "debug-port", "40000")
    IN  [name      |-> "rusid",
         command   |-> IF debug THEN "/dlv" ELSE "/rusid",
         args      |-> [id |-> GetAppID(p), v |-> StringOr(a, "log-level", "2"),
                        config  |-> StringOr(a, "config", "default"),
                        metrics |-> BoolOr(a, "enable-metrics", TRUE),
                        listen  |-> IF debug THEN debugPort ELSE ""],
         ports     |-> {"50003", "8080"} \cup (IF debug THEN {debugPort} ELSE {}),
         ready     |-> Probe(a, "readiness"),
         live      |-> Probe(a, "liveness"),
         restart   |-> IF config.asInit THEN "Always" ELSE "",
         env       |-> <<[name |-> "NAMESPACE", value |-> "ns"]>> \o ParseEnvString(a),
         mounts    |-> TokenMounts(p),
         resources |-> ResourceRequirements(a)]

-----------------------------------------------------------------------------
(* The patch: a sequence of "add" operations, each at a path. *)
PortVar == [name |-> "RUSI_GRPC_PORT", value |-> "50003"]
(* Mutant of ContainsSidecar: init containers are not looked at. *)
ContainsRegularSidecar(p) == \E c \in Range(p.containers) : c.name = "rusid"

(* podContainsSidecarContainer *)
ContainsSidecar(p) == \E c \in Range(p.containers) \cup Range(p.initContainers) : c.name = "rusid"
Enabled(p) == BoolOr(p.annotations, "enabled", FALSE)

(* Mutant of EnvPatchOperations: the variable is added to the application's own. *)
EnvPatchOperationsAlways(i, envs) ==
    IF envs = <<>> THEN <<[at |-> <<"env", i>>, value |-> <<PortVar>>]>>
    ELSE <<[at |-> <<"env", i, "-">>, value |-> PortVar]>>

EnvPatchOperations(i, envs) ==
    IF envs = <<>> THEN <<[at |-> <<"env", i>>, value |-> <<PortVar>>]>>
    ELSE IF \E j \in DOMAIN envs : envs[j].name = PortVar.name THEN <<>>
    ELSE <<[at |-> <<"env", i, "-">>, value |-> PortVar]>>

(* Mutant of SidecarPath: the list is not made where there is none. *)
SidecarPathAppend(p) ==
    LET list == IF config.asInit THEN "initContainers" ELSE "containers"
    IN  [at |-> <<list, "-">>, value |-> SidecarContainer(p)]

SidecarPath(p) ==
    LET list == IF config.asInit THEN "initContainers" ELSE "containers"
    IN  IF p[list] = <<>> THEN [at |-> <<list>>, value |-> <<SidecarContainer(p)>>]
        ELSE [at |-> <<list, "-">>, value |-> SidecarContainer(p)]

PodPatchOperations(p) ==
    IF ~Enabled(p) \/ ContainsSidecar(p) THEN <<>>
    ELSE <<SidecarPath(p), [at |-> <<"label">>, value |-> "rusi"]>>
         \o FlattenSeq([i \in DOMAIN p.containers |->
                            EnvPatchOperations(i, p.containers[i].env)])

Refusal == [allowed |-> FALSE, patch |-> <<>>]

ValidateKubernetesAppID(id) == id # ""

(* Mutant of HandleRequest: the id of the application is not validated. *)
HandleRequestUnvalidated(p, r) ==
    IF config.validate /\ r \notin authUIDs THEN Refusal
    ELSE [allowed |-> TRUE, patch |-> PodPatchOperations(p)]

(* handleRequest.  The requester is looked up before the pod is looked at. *)
HandleRequest(p, r) ==
    IF \/ config.validate /\ r \notin authUIDs
       \/ Enabled(p) /\ ~ContainsSidecar(p) /\ ~ValidateKubernetesAppID(GetAppID(p))
      THEN Refusal
      ELSE [allowed |-> TRUE, patch |-> PodPatchOperations(p)]

-----------------------------------------------------------------------------
(* The API server applies a patch as RFC 6902 says: "add" needs the parent  *)
(* of its target, and "-" stands for the end of a list that exists.         *)
Applicable(p, op) ==
    CASE op.at[1] = "label" -> p.labels # {}
      [] op.at[1] = "env"   -> /\ op.at[2] \in DOMAIN p.containers
                               /\ Len(op.at) = 3 => p.containers[op.at[2]].env # <<>>
      [] OTHER              -> Len(op.at) = 2 => p[op.at[1]] # <<>>

Add(list, value, atEnd) == IF atEnd THEN Append(list, value) ELSE value
ApplyOp(p, op) ==
    CASE op.at[1] = "label" -> [p EXCEPT !.labels = @ \cup {"app-runtime"}]
      [] op.at[1] = "env"   -> [p EXCEPT !.containers[op.at[2]].env = Add(@, op.value, Len(op.at) = 3)]
      [] OTHER              -> [p EXCEPT ![op.at[1]] = Add(@, op.value, Len(op.at) = 2)]

Failed == [failed |-> TRUE]
ApplyPatch(p, patch) ==
    FoldLeft(LAMBDA q, op : IF q # Failed /\ Applicable(q, op) THEN ApplyOp(q, op) ELSE Failed,
             p, patch)

-----------------------------------------------------------------------------
\* AllowedControllersServiceAccountUID: all but one of the accounts may be missing,
\* without that one the injector does not start.
Serving == config.validate => Mandatory \in authUIDs

Config == [validate : BOOLEAN, asInit : BOOLEAN, ignore : BOOLEAN]

InjectorInit ==
    /\ config \in Config
    /\ authUIDs \in IF config.validate THEN SUBSET Accounts ELSE {{}}
    /\ pod \in Pods /\ requester \in Accounts \cup Others
    /\ phase = "submitted" /\ answer = Refusal /\ reviews = 1

Review == /\ phase = "submitted" /\ Serving
          /\ answer' = HandleRequest(pod, requester)
          /\ phase' = "answered"
          /\ UNCHANGED <<config, authUIDs, requester, pod, reviews>>

\* Nobody serves the webhook: its configuration says what becomes of the pod.
Unserved == /\ phase = "submitted" /\ ~Serving
            /\ phase' = IF config.ignore THEN "created" ELSE "refused"
            /\ UNCHANGED <<config, authUIDs, requester, pod, answer, reviews>>

ApplyAnswer ==
    LET patched == ApplyPatch(pod, answer.patch)
    IN  /\ phase = "answered"
        /\ IF answer.allowed /\ patched # Failed
             THEN phase' = "created" /\ pod' = patched
             ELSE phase' = "refused" /\ UNCHANGED pod
        /\ UNCHANGED <<config, authUIDs, requester, answer, reviews>>

Resubmit == /\ phase = "created" /\ reviews < MaxReviews
            /\ phase' = "submitted" /\ reviews' = reviews + 1
            /\ requester' \in Accounts \cup Others
            /\ answer' = Refusal
            /\ UNCHANGED <<config, authUIDs, pod>>

InjectorNext == Review \/ Unserved \/ ApplyAnswer \/ Resubmit
InjectorSpec == InjectorInit /\ [][InjectorNext]_injectorVars

-----------------------------------------------------------------------------
\* A patch gives each application container the port of the sidecar exactly once,
\* leaves the port a container brings itself, and changes nothing else of it
\* (addRusiEnvVarsToContainers, whose indexes are those of the pod before the
\* sidecar was added).
PortsOf(c) == {j \in DOMAIN c.env : c.env[j].name = PortVar.name}
AppsFindTheSidecar ==
    [][pod' # pod =>
        \A i \in DOMAIN pod.containers :
            LET before == pod.containers[i]
                after  == pod'.containers[i]
            IN  /\ [after EXCEPT !.env = <<>>] = [before EXCEPT !.env = <<>>]
                /\ IsPrefix(before.env, after.env)
                /\ PortsOf(before) # {} => after = before
                /\ PortsOf(before) = {} => \E j \in DOMAIN after.env :
                                             PortsOf(after) = {j} /\ after.env[j] = PortVar]_injectorVars

\* A patch is refused by the API server only where the pod has no labels
\* (pod_patch.go:160 adds one to them): every other path the webhook makes up
\* fits the pod, with or without containers and variables.
PatchesFit == phase = "answered" /\ pod.labels # {} => ApplyPatch(pod, answer.patch) # Failed

\* However often a pod is submitted it has one sidecar at most, whichever list of
\* containers the sidecar is put in; if it asks for one and is stored it has one, its
\* own or one that knows its application, unless nobody served the webhook
\* (pod_patch.go:101, podContainsSidecarContainer, ValidateKubernetesAppID).
OneNamedSidecar ==
    /\ \A i, j \in Sidecars(pod) : i = j
    /\ phase = "created" /\ Enabled(pod) /\ Serving =>
          \E i \in Sidecars(pod) :
              pod \in Pods \/ LET c == (pod.containers \o pod.initContainers)[i]
                             IN  c.args.id = GetAppID(pod) /\ c.args.id # ""
=============================================================================
