--------------------------- MODULE Injector_proofs ---------------------------
(***************************************************************************)
(* The safety of SidecarInjector for any pods, accounts and configuration. *)
(* A patch has as many operations as the pod has containers without the    *)
(* port, and is applied one operation after another: what it does is       *)
(* proved by induction, in the form that a set of naturals that holds zero *)
(* and the successor of each member holds them all.                        *)
(***************************************************************************)
EXTENDS SidecarInjector, WellFoundedInduction, TLAPS

-----------------------------------------------------------------------------
(* Induction. *)
LessThan == {p \in Nat \X Nat : p[1] < p[2]}

LEMMA LessThanWellFounded == IsWellFoundedOn(LessThan, Nat)
BY NatLessThanWellFounded, Z3 DEF OpToRel, LessThan

LEMMA SetInduction ==
    ASSUME NEW T, 0 \in T, \A n \in Nat : n \in T => n + 1 \in T
    PROVE  \A n \in Nat : n \in T
<1> DEFINE Missing == Nat \ T
<1> SUFFICES ASSUME Missing # {} PROVE FALSE
    OBVIOUS
<1>1. PICK m \in Missing : \A y \in Missing : <<y, m>> \notin LessThan
    BY WFMin, LessThanWellFounded
<1>2. m # 0 /\ m - 1 \in Nat /\ m - 1 < m /\ (m - 1) + 1 = m
    OBVIOUS
<1>3. m - 1 \in Missing
    BY <1>2
<1>4. <<m - 1, m>> \in LessThan
    BY <1>2 DEF LessThan
<1> QED BY <1>1, <1>3, <1>4

-----------------------------------------------------------------------------
(* One operation of a patch after another. *)
ApplyStep(q, op) == IF q # Failed /\ Applicable(q, op) THEN ApplyOp(q, op) ELSE Failed

(* The fold of FoldLeft over the subsets of 1 .. m. *)
IsFold(f, p, ops, m) ==
    f = [s \in SUBSET (1 .. m) |->
            IF s = {} THEN p ELSE ApplyStep(f[s \ {Max(s)}], ops[Max(s)])]

LEMMA MaxFacts ==
    ASSUME NEW m \in Nat, NEW s \in SUBSET (1 .. m + 1), m + 1 \in s
    PROVE  Max(s) = m + 1
<1>1. m + 1 \in s /\ \A y \in s : m + 1 >= y
    OBVIOUS
<1>2. Max(s) \in s /\ \A y \in s : Max(s) >= y
    BY <1>1 DEF Max
<1>3. Max(s) \in 1 .. m + 1 /\ Max(s) >= m + 1
    BY <1>2
<1> QED BY <1>3

LEMMA FoldExists ==
    ASSUME NEW p, NEW ops, NEW N \in Nat
    PROVE  \E f : IsFold(f, p, ops, N)
<1> DEFINE T == {m \in Nat : \E f : IsFold(f, p, ops, m)}
<1>1. 0 \in T
  <2>1. IsFold([s \in SUBSET (1 .. 0) |-> p], p, ops, 0)
    <3>1. \A s \in SUBSET (1 .. 0) : s = {}
        OBVIOUS
    <3> QED BY <3>1 DEF IsFold
  <2> QED BY <2>1
<1>2. ASSUME NEW m \in Nat, m \in T PROVE m + 1 \in T
  <2>1. PICK f : IsFold(f, p, ops, m)
      BY <1>2
  <2> DEFINE h == [s \in SUBSET (1 .. m + 1) |->
                       IF m + 1 \in s THEN ApplyStep(f[s \ {m + 1}], ops[m + 1]) ELSE f[s]]
  <2>2. ASSUME NEW s \in SUBSET (1 .. m + 1)
        PROVE  h[s] = IF s = {} THEN p ELSE ApplyStep(h[s \ {Max(s)}], ops[Max(s)])
    <3>1. CASE m + 1 \in s
      <4>1. Max(s) = m + 1 /\ s # {}
          BY <3>1, MaxFacts
      <4>2. s \ {m + 1} \in SUBSET (1 .. m + 1) /\ m + 1 \notin s \ {m + 1}
          OBVIOUS
      <4>3. h[s \ {m + 1}] = f[s \ {m + 1}]
          BY <4>2
      <4> QED BY <3>1, <4>1, <4>3
    <3>2. CASE m + 1 \notin s
      <4>1. s \in SUBSET (1 .. m)
          BY <3>2
      <4>2. s \ {Max(s)} \in SUBSET (1 .. m + 1) /\ m + 1 \notin s \ {Max(s)}
          BY <3>2
      <4>3. h[s] = f[s] /\ h[s \ {Max(s)}] = f[s \ {Max(s)}]
          BY <3>2, <4>2
      <4>4. f[s] = IF s = {} THEN p ELSE ApplyStep(f[s \ {Max(s)}], ops[Max(s)])
          BY <2>1, <4>1 DEF IsFold
      <4> QED BY <4>3, <4>4
    <3> QED BY <3>1, <3>2
  <2>3. h = [s \in SUBSET (1 .. m + 1) |-> h[s]]
      OBVIOUS
  <2> HIDE DEF h
  <2>4. IsFold(h, p, ops, m + 1)
      BY <2>2, <2>3 DEF IsFold
  <2> QED BY <2>4
<1> HIDE DEF T
<1>3. N \in T
    BY <1>1, <1>2, SetInduction
<1> QED BY <1>3 DEF T

(* after[n] is the pod when the first n operations have been applied.      *)
Applied(after, p, ops) ==
    /\ after[0] = p
    /\ \A n \in DOMAIN ops : after[n] = ApplyStep(after[n - 1], ops[n])
    /\ ApplyPatch(p, ops) = after[Len(ops)]

LEMMA PatchIsApplied ==
    ASSUME NEW p, NEW S, NEW ops \in Seq(S)
    PROVE  \E after : Applied(after, p, ops)
<1> DEFINE iter[s \in SUBSET DOMAIN ops] ==
               IF s = {} THEN p ELSE ApplyStep(iter[s \ {Max(s)}], ops[Max(s)])
           after == [n \in 0 .. Len(ops) |-> iter[1 .. n]]
<1>1. ApplyPatch(p, ops) = iter[DOMAIN ops]
    BY DEF ApplyPatch, FoldLeft, MapThenFoldSet, ApplyStep
<1>2. DOMAIN ops = 1 .. Len(ops) /\ Len(ops) \in Nat
    OBVIOUS
<1>3. iter = [s \in SUBSET DOMAIN ops |->
                IF s = {} THEN p ELSE ApplyStep(iter[s \ {Max(s)}], ops[Max(s)])]
  <2> DEFINE Fold(f) == f = [s \in SUBSET DOMAIN ops |->
                                IF s = {} THEN p ELSE ApplyStep(f[s \ {Max(s)}], ops[Max(s)])]
  <2>1. \E f : IsFold(f, p, ops, Len(ops))
      BY <1>2, FoldExists
  <2>2. \E f : Fold(f)
      BY <1>2, <2>1 DEF IsFold
  <2>3. iter = CHOOSE f : Fold(f)
      OBVIOUS
  <2> HIDE DEF iter, Fold
  <2>4. Fold(iter)
      BY <2>2, <2>3
  <2> QED BY <2>4 DEF Fold
<1> HIDE DEF iter
<1>4. after[0] = p
  <2>1. {} \in SUBSET DOMAIN ops /\ 1 .. 0 = {}
      OBVIOUS
  <2> QED BY <1>2, <1>3, <2>1
<1>5. ASSUME NEW n \in DOMAIN ops PROVE after[n] = ApplyStep(after[n - 1], ops[n])
  <2>1. n - 1 \in Nat /\ (n - 1) + 1 = n /\ n \in 1 .. n /\ 1 .. n \in SUBSET DOMAIN ops
      BY <1>2
  <2>2. Max(1 .. n) = n
      BY <2>1, MaxFacts
  <2>3. (1 .. n) \ {n} = 1 .. n - 1
      BY <2>1
  <2>4. iter[1 .. n] = ApplyStep(iter[1 .. n - 1], ops[n])
      BY <1>3, <2>1, <2>2, <2>3
  <2> QED BY <1>2, <2>1, <2>4
<1>6. Applied(after, p, ops)
    BY <1>1, <1>2, <1>4, <1>5 DEF Applied
<1> QED BY <1>6

-----------------------------------------------------------------------------
(* The operations for the environments, one container after another.       *)
EnvOps(cs) == [i \in DOMAIN cs |-> EnvPatchOperations(i, cs[i].env)]
Target(op) == op.at[2]
IsEnvOp(op, i, cs) == EnvOps(cs)[i] = <<op>>

(* What the operations of the first n containers are.                      *)
EnvOpsOf(ops, cs, n) ==
    /\ ops \in Seq(Range(ops))
    /\ \A k \in DOMAIN ops : Target(ops[k]) \in 1 .. n /\ IsEnvOp(ops[k], Target(ops[k]), cs)
    /\ \A k, l \in DOMAIN ops : Target(ops[k]) = Target(ops[l]) => k = l
    /\ \A i \in 1 .. n : EnvOps(cs)[i] # <<>> => \E k \in DOMAIN ops : Target(ops[k]) = i

LEMMA OneOperation ==
    ASSUME NEW cs, NEW i \in DOMAIN cs
    PROVE  \/ EnvOps(cs)[i] = <<>>
           \/ \E op : IsEnvOp(op, i, cs) /\ Target(op) = i
<1> DEFINE first == [at |-> <<"env", i>>, value |-> <<PortVar>>]
           next  == [at |-> <<"env", i, "-">>, value |-> PortVar]
<1>1. EnvOps(cs)[i] \in {<<>>, <<first>>, <<next>>}
    BY DEF EnvOps, EnvPatchOperations
<1>2. Target(first) = i /\ Target(next) = i
    BY DEF Target
<1> HIDE DEF first, next
<1> QED BY <1>1, <1>2 DEF IsEnvOp

LEMMA IsSequence ==
    ASSUME NEW S, NEW s \in Seq(S)
    PROVE  s \in Seq(Range(s))
<1>1. \A k \in 1 .. Len(s) : s[k] \in Range(s)
    BY DEF Range
<1> QED BY <1>1

LEMMA EnvOpsExtend ==
    ASSUME NEW S, NEW cs \in Seq(S), NEW n \in Nat, n + 1 \in DOMAIN cs,
           NEW ops, EnvOpsOf(ops, cs, n), NEW more, more = EnvOps(cs)[n + 1]
    PROVE  EnvOpsOf(ops \o more, cs, n + 1)
<1> DEFINE all == ops \o more
<1>1. /\ ops \in Seq(Range(ops)) /\ Len(ops) \in Nat /\ DOMAIN ops = 1 .. Len(ops)
      /\ \A k \in DOMAIN ops : Target(ops[k]) \in 1 .. n /\ IsEnvOp(ops[k], Target(ops[k]), cs)
      /\ \A k, l \in DOMAIN ops : Target(ops[k]) = Target(ops[l]) => k = l
      /\ \A i \in 1 .. n : EnvOps(cs)[i] # <<>> => \E k \in DOMAIN ops : Target(ops[k]) = i
    BY DEF EnvOpsOf
<1>2. CASE more = <<>>
  <2>1. all = ops
      BY <1>1, <1>2
  <2>2. \A i \in 1 .. n + 1 : i \in 1 .. n \/ i = n + 1
      OBVIOUS
  <2>3. \A i \in 1 .. n : i \in 1 .. n + 1
      OBVIOUS
  <2>4. EnvOpsOf(ops, cs, n + 1)
      BY <1>1, <1>2, <2>2, <2>3 DEF EnvOpsOf
  <2> QED BY <2>1, <2>4
<1>3. ASSUME NEW op, IsEnvOp(op, n + 1, cs), Target(op) = n + 1
      PROVE  EnvOpsOf(all, cs, n + 1)
  <2>1. all = Append(ops, op)
      BY <1>1, <1>3 DEF IsEnvOp
  <2>2. /\ DOMAIN all = DOMAIN ops \cup {Len(ops) + 1} /\ Len(ops) + 1 \notin DOMAIN ops
        /\ \A k \in DOMAIN ops : all[k] = ops[k]
        /\ all[Len(ops) + 1] = op
      BY <1>1, <2>1
  <2>3. all \in Seq(Range(all))
    <3>1. all \in Seq(Range(ops) \cup {op})
        BY <1>1, <2>1
    <3> HIDE DEF all
    <3> QED BY <3>1, IsSequence
  <2> HIDE DEF all
  <2>4. ASSUME NEW k \in DOMAIN all
        PROVE  Target(all[k]) \in 1 .. n + 1 /\ IsEnvOp(all[k], Target(all[k]), cs)
    <3>1. CASE k \in DOMAIN ops BY <1>1, <2>2, <3>1
    <3>2. CASE k = Len(ops) + 1 BY <1>3, <2>2, <3>2
    <3> QED BY <2>2, <3>1, <3>2
  <2>5. ASSUME NEW k \in DOMAIN all, NEW l \in DOMAIN all, Target(all[k]) = Target(all[l])
        PROVE  k = l
    <3>1. \A j \in DOMAIN ops : Target(ops[j]) # n + 1
        BY <1>1
    <3> QED BY <1>1, <1>3, <2>2, <2>5, <3>1
  <2>6. ASSUME NEW i \in 1 .. n + 1, EnvOps(cs)[i] # <<>>
        PROVE  \E k \in DOMAIN all : Target(all[k]) = i
    <3>1. CASE i = n + 1 BY <1>3, <2>2, <3>1
    <3>2. CASE i \in 1 .. n BY <1>1, <2>2, <2>6, <3>2
    <3> QED BY <3>1, <3>2
  <2> QED BY <2>3, <2>4, <2>5, <2>6 DEF EnvOpsOf
<1> QED BY <1>2, <1>3, OneOperation

LEMMA NoEnvOps == ASSUME NEW cs PROVE EnvOpsOf(<<>>, cs, 0)
BY DEF EnvOpsOf

(* FlattenSeq of lists of operations.                                      *)
IsFlattening(f, seqs, m) ==
    f = [i \in 1 .. m |-> IF i = 1 THEN seqs[i] ELSE f[i - 1] \o seqs[i]]

LEMMA FlattenExists ==
    ASSUME NEW seqs, NEW N \in Nat
    PROVE  \E f : IsFlattening(f, seqs, N)
<1> DEFINE T == {m \in Nat : \E f : IsFlattening(f, seqs, m)}
<1>1. 0 \in T
  <2>1. IsFlattening([i \in 1 .. 0 |-> <<>>], seqs, 0)
      BY DEF IsFlattening
  <2> QED BY <2>1
<1>2. ASSUME NEW m \in Nat, m \in T PROVE m + 1 \in T
  <2>1. PICK f : IsFlattening(f, seqs, m)
      BY <1>2
  <2> DEFINE h == [i \in 1 .. m + 1 |->
                       IF i = m + 1 THEN IF m = 0 THEN seqs[1] ELSE f[m] \o seqs[m + 1] ELSE f[i]]
  <2>2. ASSUME NEW i \in 1 .. m + 1
        PROVE  h[i] = IF i = 1 THEN seqs[i] ELSE h[i - 1] \o seqs[i]
    <3>1. CASE i = m + 1
      <4>1. i # 1 => i - 1 \in 1 .. m + 1 /\ i - 1 # m + 1 /\ i - 1 = m
          BY <3>1
      <4> QED BY <3>1, <4>1
    <3>2. CASE i # m + 1
      <4>1. i \in 1 .. m /\ (i # 1 => i - 1 \in 1 .. m + 1 /\ i - 1 # m + 1)
          BY <3>2
      <4> QED BY <2>1, <3>2, <4>1 DEF IsFlattening
    <3> QED BY <3>1, <3>2
  <2>3. h = [i \in 1 .. m + 1 |-> h[i]]
      OBVIOUS
  <2> HIDE DEF h
  <2>4. IsFlattening(h, seqs, m + 1)
      BY <2>2, <2>3 DEF IsFlattening
  <2> QED BY <2>4
<1> HIDE DEF T
<1>3. N \in T
    BY <1>1, <1>2, SetInduction
<1> QED BY <1>3 DEF T

LEMMA FlattenedEnvOps ==
    ASSUME NEW S, NEW cs \in Seq(S)
    PROVE  EnvOpsOf(FlattenSeq(EnvOps(cs)), cs, Len(cs))
<1> DEFINE seqs == EnvOps(cs)
<1>1. Len(cs) \in Nat /\ DOMAIN cs = 1 .. Len(cs) /\ Len(seqs) = Len(cs)
    BY DEF EnvOps
<1>2. CASE Len(cs) = 0
  <2>1. seqs = <<>>
      BY <1>1, <1>2 DEF EnvOps
  <2>2. FlattenSeq(seqs) = <<>>
      BY <2>1 DEF FlattenSeq
  <2> QED BY <1>2, <2>2, NoEnvOps
<1>3. CASE Len(cs) # 0
  <2> DEFINE flat[i \in 1 .. Len(seqs)] == IF i = 1 THEN seqs[i] ELSE flat[i - 1] \o seqs[i]
             T == {m \in Nat : m + 1 <= Len(cs) => EnvOpsOf(flat[m + 1], cs, m + 1)}
  <2>1. FlattenSeq(seqs) = flat[Len(seqs)]
      BY <1>1, <1>3 DEF FlattenSeq
  <2> HIDE DEF seqs
  <2>2. \E f : IsFlattening(f, seqs, Len(seqs))
    <3>1. Len(seqs) \in Nat
        BY <1>1
    <3> QED BY <3>1, FlattenExists
  <2>3. flat = CHOOSE f : IsFlattening(f, seqs, Len(seqs))
      BY DEF IsFlattening
  <2> HIDE DEF flat
  <2>4. IsFlattening(flat, seqs, Len(seqs))
      BY <2>2, <2>3
  <2>5. \A i \in 1 .. Len(cs) : flat[i] = IF i = 1 THEN seqs[i] ELSE flat[i - 1] \o seqs[i]
      BY <1>1, <2>4 DEF IsFlattening
  <2>6. 0 \in T
    <3>1. EnvOpsOf(<<>> \o seqs[1], cs, 0 + 1)
      <4>1. 0 \in Nat /\ 0 + 1 \in DOMAIN cs /\ seqs[1] = EnvOps(cs)[0 + 1]
          BY <1>1, <1>3 DEF seqs
      <4> QED BY <4>1, NoEnvOps, EnvOpsExtend
    <3>2. <<>> \o seqs[1] = seqs[1]
      <4>1. seqs[1] = <<>> \/ \E op : seqs[1] = <<op>>
          BY <1>1, <1>3, OneOperation DEF seqs, IsEnvOp
      <4> QED BY <4>1
    <3> QED BY <1>1, <1>3, <2>5, <3>1, <3>2
  <2>7. ASSUME NEW m \in Nat, m \in T PROVE m + 1 \in T
    <3> SUFFICES ASSUME (m + 1) + 1 <= Len(cs) PROVE EnvOpsOf(flat[(m + 1) + 1], cs, (m + 1) + 1)
        OBVIOUS
    <3>1. EnvOpsOf(flat[m + 1], cs, m + 1)
        BY <1>1, <2>7
    <3>2. flat[(m + 1) + 1] = flat[m + 1] \o seqs[(m + 1) + 1]
      <4>1. /\ (m + 1) + 1 \in 1 .. Len(cs) /\ (m + 1) + 1 # 1
            /\ ((m + 1) + 1) - 1 = m + 1
          BY <1>1
      <4> QED BY <2>5, <4>1
    <3>3. m + 1 \in Nat /\ (m + 1) + 1 \in DOMAIN cs
        BY <1>1
    <3>4. seqs[(m + 1) + 1] = EnvOps(cs)[(m + 1) + 1]
        BY DEF seqs
    <3> QED BY <3>1, <3>2, <3>3, <3>4, EnvOpsExtend
  <2> HIDE DEF T
  <2>8. \A m \in Nat : m \in T
      BY <2>6, <2>7, SetInduction
  <2>9. Len(cs) - 1 \in Nat /\ (Len(cs) - 1) + 1 = Len(cs)
      BY <1>1, <1>3
  <2>10. EnvOpsOf(flat[(Len(cs) - 1) + 1], cs, (Len(cs) - 1) + 1)
      BY <1>1, <2>8, <2>9 DEF T
  <2>11. EnvOpsOf(FlattenSeq(seqs), cs, Len(cs))
      BY <1>1, <2>1, <2>9, <2>10
  <2> QED BY <2>11 DEF seqs
<1> QED BY <1>2, <1>3

-----------------------------------------------------------------------------
(* What each kind of operation does to a pod.                              *)
Shape(q) == q = [name |-> q.name, annotations |-> q.annotations, labels |-> q.labels,
                 containers |-> q.containers, initContainers |-> q.initContainers]

WithSidecar(p) ==
    IF config.asInit THEN [p EXCEPT !.initContainers = Append(@, SidecarContainer(p))]
    ELSE [p EXCEPT !.containers = Append(@, SidecarContainer(p))]
Labelled(q) == [q EXCEPT !.labels = @ \cup {"app-runtime"}]
WithPort(q, i) == [q EXCEPT !.containers[i].env = Append(@, PortVar)]

LEMMA PodsHaveNotFailed == ASSUME NEW q, Shape(q) PROVE q # Failed
<1>1. "name" \in DOMAIN q
    BY DEF Shape
<1>2. "name" \notin DOMAIN Failed
    BY DEF Failed
<1> QED BY <1>1, <1>2

LEMMA SidecarIsAdded ==
    ASSUME NEW p, IsPod(p)
    PROVE  ApplyStep(p, SidecarPath(p)) = WithSidecar(p)
<1> DEFINE c == SidecarContainer(p)
<1>1. Shape(p) /\ p # Failed
    BY PodsHaveNotFailed DEF IsPod, Shape
<1>2. CASE config.asInit
  <2> DEFINE list == p.initContainers
  <2>1. CASE list = <<>>
    <3>1. SidecarPath(p) = [at |-> <<"initContainers">>, value |-> <<c>>]
        BY <1>2, <2>1 DEF SidecarPath
    <3>2. Applicable(p, SidecarPath(p)) /\ ApplyOp(p, SidecarPath(p)) = [p EXCEPT !.initContainers = <<c>>]
        BY <3>1 DEF Applicable, ApplyOp, Add
    <3>3. <<c>> = Append(list, c)
        BY <2>1
    <3> QED BY <1>1, <1>2, <3>2, <3>3 DEF ApplyStep, WithSidecar
  <2>2. CASE list # <<>>
    <3>1. SidecarPath(p) = [at |-> <<"initContainers", "-">>, value |-> c]
        BY <1>2, <2>2 DEF SidecarPath
    <3>2. /\ Applicable(p, SidecarPath(p))
          /\ ApplyOp(p, SidecarPath(p)) = [p EXCEPT !.initContainers = Append(@, c)]
        BY <2>2, <3>1 DEF Applicable, ApplyOp, Add
    <3> QED BY <1>1, <1>2, <3>2 DEF ApplyStep, WithSidecar
  <2> QED BY <2>1, <2>2
<1>3. CASE ~config.asInit
  <2> DEFINE list == p.containers
  <2>1. CASE list = <<>>
    <3>1. SidecarPath(p) = [at |-> <<"containers">>, value |-> <<c>>]
        BY <1>3, <2>1 DEF SidecarPath
    <3>2. Applicable(p, SidecarPath(p)) /\ ApplyOp(p, SidecarPath(p)) = [p EXCEPT !.containers = <<c>>]
        BY <3>1 DEF Applicable, ApplyOp, Add
    <3>3. <<c>> = Append(list, c)
        BY <2>1
    <3> QED BY <1>1, <1>3, <3>2, <3>3 DEF ApplyStep, WithSidecar
  <2>2. CASE list # <<>>
    <3>1. SidecarPath(p) = [at |-> <<"containers", "-">>, value |-> c]
        BY <1>3, <2>2 DEF SidecarPath
    <3>2. /\ Applicable(p, SidecarPath(p))
          /\ ApplyOp(p, SidecarPath(p)) = [p EXCEPT !.containers = Append(@, c)]
        BY <2>2, <3>1 DEF Applicable, ApplyOp, Add
    <3> QED BY <1>1, <1>3, <3>2 DEF ApplyStep, WithSidecar
  <2> QED BY <2>1, <2>2
<1> QED BY <1>2, <1>3

LabelOp == [at |-> <<"label">>, value |-> "rusi"]
LEMMA LabelIsAdded ==
    ASSUME NEW q, q # Failed
    PROVE  ApplyStep(q, LabelOp) = IF q.labels = {} THEN Failed ELSE Labelled(q)
<1>1. LabelOp.at[1] = "label"
    BY DEF LabelOp
<1> QED BY <1>1 DEF ApplyStep, Applicable, ApplyOp, Labelled

LEMMA PortIsAdded ==
    ASSUME NEW q, q # Failed, NEW i \in DOMAIN q.containers, NEW cs, i \in DOMAIN cs,
           q.containers[i].env = cs[i].env, NEW op, IsEnvOp(op, i, cs)
    PROVE  ApplyStep(q, op) = WithPort(q, i)
<1> DEFINE first == [at |-> <<"env", i>>, value |-> <<PortVar>>]
           next  == [at |-> <<"env", i, "-">>, value |-> PortVar]
           env == q.containers[i].env
<1>1. \/ env = <<>> /\ op = first
      \/ env # <<>> /\ op = next
    BY DEF IsEnvOp, EnvOps, EnvPatchOperations
<1>2. CASE env = <<>> /\ op = first
  <2>1. op.at[1] = "env" /\ op.at[2] = i /\ Len(op.at) = 2 /\ op.value = <<PortVar>>
      BY <1>2
  <2>2. Applicable(q, op)
      BY <2>1 DEF Applicable
  <2>3. ApplyOp(q, op) = [q EXCEPT !.containers[i].env = <<PortVar>>]
      BY <2>1 DEF ApplyOp, Add
  <2>4. <<PortVar>> = Append(env, PortVar)
      BY <1>2
  <2> QED BY <2>2, <2>3, <2>4 DEF ApplyStep, WithPort
<1>3. CASE env # <<>> /\ op = next
  <2>1. op.at[1] = "env" /\ op.at[2] = i /\ Len(op.at) = 3 /\ op.value = PortVar
      BY <1>3
  <2>2. Applicable(q, op)
      BY <1>3, <2>1 DEF Applicable
  <2>3. ApplyOp(q, op) = [q EXCEPT !.containers[i].env = Append(@, PortVar)]
      BY <2>1 DEF ApplyOp, Add
  <2> QED BY <2>2, <2>3 DEF ApplyStep, WithPort
<1> QED BY <1>1, <1>2, <1>3

-----------------------------------------------------------------------------
(* The pod when n of the operations for the environments are applied.      *)
Prepared(p) == Labelled(WithSidecar(p))
AddPort(c) == [c EXCEPT !.env = Append(@, PortVar)]
Partly(q, p, ops, n) ==
    /\ Shape(q)
    /\ q.name = p.name /\ q.annotations = p.annotations
    /\ q.labels = p.labels \cup {"app-runtime"}
    /\ q.initContainers = WithSidecar(p).initContainers
    /\ q.containers = [i \in DOMAIN WithSidecar(p).containers |->
                          IF \E k \in 1 .. n : Target(ops[k]) = i THEN AddPort(WithSidecar(p).containers[i])
                          ELSE WithSidecar(p).containers[i]]

LEMMA WithSidecarFacts ==
    ASSUME NEW p, IsPod(p)
    PROVE  /\ Shape(WithSidecar(p))
           /\ WithSidecar(p).name = p.name /\ WithSidecar(p).annotations = p.annotations
           /\ WithSidecar(p).labels = p.labels
           /\ config.asInit => /\ WithSidecar(p).initContainers = Append(p.initContainers, SidecarContainer(p))
                              /\ WithSidecar(p).containers = p.containers
           /\ ~config.asInit => /\ WithSidecar(p).containers = Append(p.containers, SidecarContainer(p))
                               /\ WithSidecar(p).initContainers = p.initContainers
           /\ WithSidecar(p).containers \in Seq(Range(WithSidecar(p).containers))
           /\ WithSidecar(p).initContainers \in Seq(Range(WithSidecar(p).initContainers))
           /\ DOMAIN p.containers \subseteq DOMAIN WithSidecar(p).containers
           /\ \A i \in DOMAIN p.containers : WithSidecar(p).containers[i] = p.containers[i]
<1> DEFINE c == SidecarContainer(p)
<1>1. /\ Shape(p) /\ p.containers \in Seq(Range(p.containers))
      /\ p.initContainers \in Seq(Range(p.initContainers))
    BY DEF IsPod, Shape
<1> HIDE DEF c
<1>2. /\ Append(p.containers, c) \in Seq(Range(p.containers) \cup {c})
      /\ Append(p.initContainers, c) \in Seq(Range(p.initContainers) \cup {c})
      /\ DOMAIN p.containers \subseteq DOMAIN Append(p.containers, c)
      /\ \A i \in DOMAIN p.containers : Append(p.containers, c)[i] = p.containers[i]
    BY <1>1
<1>3. /\ Append(p.containers, c) \in Seq(Range(Append(p.containers, c)))
      /\ Append(p.initContainers, c) \in Seq(Range(Append(p.initContainers, c)))
    BY <1>2, IsSequence
<1>4. WithSidecar(p) = IF config.asInit THEN [p EXCEPT !.initContainers = Append(@, c)]
                       ELSE [p EXCEPT !.containers = Append(@, c)]
    BY DEF WithSidecar, c
<1>5. CASE config.asInit
  <2>1. /\ WithSidecar(p).initContainers = Append(p.initContainers, c)
        /\ WithSidecar(p).containers = p.containers
        /\ WithSidecar(p).name = p.name /\ WithSidecar(p).annotations = p.annotations
        /\ WithSidecar(p).labels = p.labels /\ Shape(WithSidecar(p))
      BY <1>1, <1>4, <1>5 DEF Shape
  <2> QED BY <1>1, <1>3, <1>5, <2>1 DEF c
<1>6. CASE ~config.asInit
  <2>1. /\ WithSidecar(p).containers = Append(p.containers, c)
        /\ WithSidecar(p).initContainers = p.initContainers
        /\ WithSidecar(p).name = p.name /\ WithSidecar(p).annotations = p.annotations
        /\ WithSidecar(p).labels = p.labels /\ Shape(WithSidecar(p))
      BY <1>1, <1>4, <1>6 DEF Shape
  <2> QED BY <1>1, <1>2, <1>3, <1>6, <2>1 DEF c
<1> QED BY <1>5, <1>6

LEMMA LabelsReplaced ==
    ASSUME NEW q, Shape(q), NEW v, NEW r, r = [q EXCEPT !.labels = v]
    PROVE  /\ Shape(r) /\ r.name = q.name /\ r.annotations = q.annotations
           /\ r.labels = v /\ r.containers = q.containers
           /\ r.initContainers = q.initContainers
BY DEF Shape

WithContainers(q, v) == [q EXCEPT !.containers = v]

LEMMA ContainersReplaced ==
    ASSUME NEW q, Shape(q), NEW v, NEW r, r = WithContainers(q, v)
    PROVE  /\ Shape(r) /\ r.name = q.name /\ r.annotations = q.annotations
           /\ r.labels = q.labels /\ r.containers = v
           /\ r.initContainers = q.initContainers
BY DEF Shape, WithContainers

LEMMA PreparedIsPartly ==
    ASSUME NEW p, IsPod(p), NEW ops
    PROVE  Partly(Prepared(p), p, ops, 0)
<1> DEFINE w == WithSidecar(p)
<1>1. Shape(w) /\ w.name = p.name /\ w.annotations = p.annotations /\ w.labels = p.labels
      /\ w.containers \in Seq(Range(w.containers))
    BY WithSidecarFacts
<1> HIDE DEF w
<1>3. w.containers = [i \in DOMAIN w.containers |-> w.containers[i]]
    BY <1>1
<1>4. w.containers = [i \in DOMAIN w.containers |->
                        IF \E k \in 1 .. 0 : Target(ops[k]) = i THEN AddPort(w.containers[i])
                        ELSE w.containers[i]]
    BY <1>3
<1>5. Shape(Labelled(w)) /\ Labelled(w).containers = w.containers
      /\ Labelled(w).name = w.name /\ Labelled(w).annotations = w.annotations
      /\ Labelled(w).labels = w.labels \cup {"app-runtime"}
      /\ Labelled(w).initContainers = w.initContainers
  <2>1. Labelled(w) = [w EXCEPT !.labels = w.labels \cup {"app-runtime"}]
      BY DEF Labelled
  <2> QED BY <1>1, <2>1, LabelsReplaced
<1> QED BY <1>1, <1>4, <1>5 DEF Partly, Prepared, w

LEMMA PortsFollow ==
    ASSUME NEW p, IsPod(p), NEW ops, EnvOpsOf(ops, p.containers, Len(p.containers)),
           NEW q, NEW n \in Nat, n + 1 \in DOMAIN ops, Partly(q, p, ops, n)
    PROVE  /\ q # Failed
           /\ Partly(ApplyStep(q, ops[n + 1]), p, ops, n + 1)
<1> DEFINE w == WithSidecar(p)
           i == Target(ops[n + 1])
           r == WithPort(q, i)
<1>1. i \in DOMAIN p.containers /\ IsEnvOp(ops[n + 1], i, p.containers)
  <2>1. DOMAIN p.containers = 1 .. Len(p.containers)
      BY DEF IsPod
  <2> QED BY <2>1 DEF EnvOpsOf
<1>2. \A k \in 1 .. n : Target(ops[k]) # i
  <2>1. \A k \in 1 .. n : k \in DOMAIN ops /\ k # n + 1
      BY DEF EnvOpsOf
  <2> QED BY <2>1 DEF EnvOpsOf
<1>3. i \in DOMAIN w.containers /\ w.containers[i] = p.containers[i]
    BY <1>1, WithSidecarFacts
<1>4. i \in DOMAIN q.containers /\ q.containers[i] = p.containers[i]
    BY <1>2, <1>3 DEF Partly
<1>5. q # Failed
    BY PodsHaveNotFailed DEF Partly
<1>6. ApplyStep(q, ops[n + 1]) = r
    BY <1>1, <1>4, <1>5, PortIsAdded
<1>7. /\ Shape(q) /\ q.name = p.name /\ q.annotations = p.annotations
      /\ q.labels = p.labels \cup {"app-runtime"} /\ q.initContainers = w.initContainers
      /\ q.containers = [j \in DOMAIN w.containers |->
                            IF \E k \in 1 .. n : Target(ops[k]) = j THEN AddPort(w.containers[j])
                            ELSE w.containers[j]]
    BY DEF Partly
<1> HIDE DEF w, i
<1>8. /\ Shape(r) /\ r.name = q.name /\ r.annotations = q.annotations /\ r.labels = q.labels
      /\ r.initContainers = q.initContainers
      /\ r.containers = [q.containers EXCEPT ![i] = AddPort(@)]
  <2> DEFINE cs == [q.containers EXCEPT ![i] = AddPort(@)]
  <2>1. r = WithContainers(q, cs)
      BY DEF WithPort, AddPort, WithContainers
  <2> HIDE DEF r, cs
  <2>2. /\ Shape(r) /\ r.name = q.name /\ r.annotations = q.annotations /\ r.labels = q.labels
        /\ r.initContainers = q.initContainers /\ r.containers = cs
    <3>1. Shape(q)
        BY <1>7
    <3> QED BY <2>1, <3>1, ContainersReplaced
  <2> QED BY <2>2 DEF cs
<1>9. \A j : (\E k \in 1 .. n + 1 : Target(ops[k]) = j) <=> (j = i \/ \E k \in 1 .. n : Target(ops[k]) = j)
  <2>1. \A k \in 1 .. n + 1 : k \in 1 .. n \/ k = n + 1
      OBVIOUS
  <2>2. n + 1 \in 1 .. n + 1 /\ \A k \in 1 .. n : k \in 1 .. n + 1
      OBVIOUS
  <2> QED BY <2>1, <2>2 DEF i
<1>10. r.containers = [j \in DOMAIN w.containers |->
                         IF \E k \in 1 .. n + 1 : Target(ops[k]) = j THEN AddPort(w.containers[j])
                         ELSE w.containers[j]]
  <2> HIDE DEF r
  <2>1. r.containers = [j \in DOMAIN w.containers |->
                          IF j = i THEN AddPort(q.containers[j]) ELSE q.containers[j]]
      BY <1>7, <1>8
  <2>2. ASSUME NEW j \in DOMAIN w.containers
        PROVE  (IF j = i THEN AddPort(q.containers[j]) ELSE q.containers[j])
               = IF \E k \in 1 .. n + 1 : Target(ops[k]) = j THEN AddPort(w.containers[j])
                 ELSE w.containers[j]
    <3>1. q.containers[j] = IF \E k \in 1 .. n : Target(ops[k]) = j THEN AddPort(w.containers[j])
                            ELSE w.containers[j]
        BY <1>7
    <3>2. CASE j = i
      <4>1. ~\E k \in 1 .. n : Target(ops[k]) = j
          BY <1>2, <3>2
      <4>2. \E k \in 1 .. n + 1 : Target(ops[k]) = j
          BY <1>9, <3>2
      <4>3. q.containers[j] = w.containers[j]
          BY <3>1, <4>1
      <4> QED BY <3>2, <4>2, <4>3
    <3>3. CASE j # i
      <4>1. (\E k \in 1 .. n + 1 : Target(ops[k]) = j) <=> (\E k \in 1 .. n : Target(ops[k]) = j)
          BY <1>9, <3>3
      <4> QED BY <3>1, <3>3, <4>1
    <3> QED BY <3>2, <3>3
  <2> QED BY <2>1, <2>2
<1>11. Partly(r, p, ops, n + 1)
    BY <1>7, <1>8, <1>10 DEF Partly, w
<1> QED BY <1>5, <1>6, <1>11

-----------------------------------------------------------------------------
(* The whole patch.  An application gets the port unless it brings one.    *)
AppWithPort(c) == IF PortsOf(c) = {} THEN AddPort(c) ELSE c

IsPatched(q, p) ==
    /\ Shape(q)
    /\ q.name = p.name /\ q.annotations = p.annotations
    /\ q.labels # {}
    /\ q.initContainers = WithSidecar(p).initContainers
    /\ q.containers = [i \in DOMAIN WithSidecar(p).containers |->
                          IF i \in DOMAIN p.containers THEN AppWithPort(p.containers[i])
                          ELSE WithSidecar(p).containers[i]]

LEMMA AllPortsAreAdded ==
    ASSUME NEW p, IsPod(p), NEW ops, EnvOpsOf(ops, p.containers, Len(p.containers)),
           NEW q, Partly(q, p, ops, Len(ops))
    PROVE  IsPatched(q, p)
<1> DEFINE w == WithSidecar(p)
<1>1. DOMAIN p.containers = 1 .. Len(p.containers) /\ DOMAIN ops = 1 .. Len(ops)
    BY DEF IsPod, EnvOpsOf
<1>2. ASSUME NEW i \in DOMAIN p.containers
      PROVE  (\E k \in 1 .. Len(ops) : Target(ops[k]) = i) <=> PortsOf(p.containers[i]) = {}
  <2> DEFINE c == p.containers[i]
  <2>1. EnvOps(p.containers)[i] = <<>> <=> PortsOf(c) # {}
    <3>1. c.env \in Seq(Range(c.env))
      <4>1. c \in Range(p.containers)
          BY DEF Range
      <4> QED BY <4>1 DEF IsPod
    <3>2. EnvOps(p.containers)[i] = EnvPatchOperations(i, c.env)
        BY DEF EnvOps
    <3>3. c.env = <<>> => DOMAIN c.env = {}
        BY <3>1
    <3> QED BY <3>2, <3>3 DEF EnvPatchOperations, PortsOf
  <2>2. (\E k \in 1 .. Len(ops) : Target(ops[k]) = i) => EnvOps(p.containers)[i] # <<>>
      BY <1>1 DEF EnvOpsOf, IsEnvOp
  <2>3. EnvOps(p.containers)[i] # <<>> => \E k \in 1 .. Len(ops) : Target(ops[k]) = i
      BY <1>1 DEF EnvOpsOf
  <2> QED BY <2>1, <2>2, <2>3
<1>3. ASSUME NEW i \in DOMAIN w.containers, i \notin DOMAIN p.containers
      PROVE  ~ \E k \in 1 .. Len(ops) : Target(ops[k]) = i
    BY <1>1, <1>3 DEF EnvOpsOf
<1>4. \A i \in DOMAIN p.containers : i \in DOMAIN w.containers /\ w.containers[i] = p.containers[i]
    BY WithSidecarFacts
<1>5. q.containers = [i \in DOMAIN w.containers |->
                        IF i \in DOMAIN p.containers THEN AppWithPort(p.containers[i])
                        ELSE w.containers[i]]
  <2> HIDE DEF w
  <2>1. ASSUME NEW i \in DOMAIN w.containers
        PROVE  (IF \E k \in 1 .. Len(ops) : Target(ops[k]) = i THEN AddPort(w.containers[i])
                ELSE w.containers[i])
               = IF i \in DOMAIN p.containers THEN AppWithPort(p.containers[i]) ELSE w.containers[i]
      BY <1>2, <1>3, <1>4 DEF AppWithPort
  <2>2. q.containers = [i \in DOMAIN w.containers |->
                          IF \E k \in 1 .. Len(ops) : Target(ops[k]) = i THEN AddPort(w.containers[i])
                          ELSE w.containers[i]]
      BY DEF Partly, w
  <2> QED BY <2>1, <2>2
<1>6. q.labels # {}
    BY DEF Partly
<1> QED BY <1>5, <1>6 DEF IsPatched, Partly

LEMMA PatchCorrect ==
    ASSUME NEW p, IsPod(p), Enabled(p), ~ContainsSidecar(p)
    PROVE  LET q == ApplyPatch(p, PodPatchOperations(p))
           IN  IF p.labels = {} THEN q = Failed ELSE q # Failed /\ IsPatched(q, p)
<1> DEFINE flat == FlattenSeq(EnvOps(p.containers))
           two == <<SidecarPath(p), LabelOp>>
           ops == two \o flat
<1>1. PodPatchOperations(p) = ops
    BY DEF PodPatchOperations, EnvOps, LabelOp
<1>2. EnvOpsOf(flat, p.containers, Len(p.containers))
    BY FlattenedEnvOps DEF IsPod
<1>3. flat \in Seq(Range(flat)) /\ Len(flat) \in Nat /\ DOMAIN flat = 1 .. Len(flat)
    BY <1>2 DEF EnvOpsOf
<1> HIDE DEF flat
<1>4. /\ ops \in Seq(Range(flat) \cup {SidecarPath(p), LabelOp})
      /\ Len(ops) = Len(flat) + 2 /\ DOMAIN ops = 1 .. Len(flat) + 2
      /\ ops[1] = SidecarPath(p) /\ ops[2] = LabelOp
      /\ \A k \in DOMAIN flat : ops[k + 2] = flat[k]
    BY <1>3
<1> HIDE DEF ops
<1>5. PICK after : Applied(after, p, ops)
    BY <1>4, PatchIsApplied
<1>6. after[1] = WithSidecar(p)
  <2>1. 1 \in DOMAIN ops /\ after[1 - 1] = p
      BY <1>3, <1>4, <1>5 DEF Applied
  <2> QED BY <1>4, <1>5, <2>1, SidecarIsAdded DEF Applied
<1>7. after[2] = IF p.labels = {} THEN Failed ELSE Prepared(p)
  <2>1. 2 \in DOMAIN ops /\ 2 - 1 = 1
      BY <1>3, <1>4
  <2>2. after[2] = ApplyStep(WithSidecar(p), LabelOp)
      BY <1>4, <1>5, <1>6, <2>1 DEF Applied
  <2>3. WithSidecar(p) # Failed /\ WithSidecar(p).labels = p.labels
      BY WithSidecarFacts, PodsHaveNotFailed
  <2> QED BY <2>2, <2>3, LabelIsAdded DEF Prepared
<1>8. CASE p.labels = {}
  <2> DEFINE T == {n \in Nat : n <= Len(flat) => after[n + 2] = Failed}
  <2>1. 0 \in T
      BY <1>7, <1>8
  <2>2. ASSUME NEW n \in Nat, n \in T PROVE n + 1 \in T
    <3>1. CASE n + 1 <= Len(flat)
      <4>1. (n + 1) + 2 \in DOMAIN ops /\ ((n + 1) + 2) - 1 = n + 2 /\ n <= Len(flat)
          BY <1>3, <1>4, <3>1
      <4>2. after[(n + 1) + 2] = ApplyStep(after[n + 2], ops[(n + 1) + 2])
          BY <1>5, <4>1 DEF Applied
      <4> QED BY <2>2, <4>1, <4>2 DEF ApplyStep
    <3> QED BY <3>1
  <2> HIDE DEF T
  <2>3. Len(flat) \in T
      BY <1>3, <2>1, <2>2, SetInduction
  <2>4. after[Len(flat) + 2] = Failed
      BY <1>3, <2>3 DEF T
  <2> QED BY <1>1, <1>4, <1>5, <1>8, <2>4 DEF Applied
<1>9. CASE p.labels # {}
  <2> DEFINE T == {n \in Nat : n <= Len(flat) => Partly(after[n + 2], p, flat, n)}
  <2>1. 0 \in T
      BY <1>7, <1>9, PreparedIsPartly
  <2>2. ASSUME NEW n \in Nat, n \in T PROVE n + 1 \in T
    <3>1. CASE n + 1 <= Len(flat)
      <4>1. /\ (n + 1) + 2 \in DOMAIN ops /\ ((n + 1) + 2) - 1 = n + 2 /\ n <= Len(flat)
            /\ n + 1 \in DOMAIN flat
          BY <1>3, <1>4, <3>1
      <4>2. after[(n + 1) + 2] = ApplyStep(after[n + 2], flat[n + 1])
          BY <1>4, <1>5, <4>1 DEF Applied
      <4>3. Partly(after[n + 2], p, flat, n)
          BY <2>2, <4>1
      <4> QED BY <1>2, <4>1, <4>2, <4>3, PortsFollow
    <3> QED BY <3>1
  <2> HIDE DEF T
  <2>3. Len(flat) \in T
      BY <1>3, <2>1, <2>2, SetInduction
  <2>4. Partly(after[Len(flat) + 2], p, flat, Len(flat))
      BY <1>3, <2>3 DEF T
  <2>5. after[Len(flat) + 2] # Failed
      BY <2>4, PodsHaveNotFailed DEF Partly
  <2>6. IsPatched(after[Len(flat) + 2], p)
      BY <1>2, <2>4, AllPortsAreAdded
  <2> QED BY <1>1, <1>4, <1>5, <1>9, <2>5, <2>6 DEF Applied
<1> QED BY <1>8, <1>9

-----------------------------------------------------------------------------
(* A pod is as it was submitted, or has the one sidecar it was given.      *)
Containers(p) == p.containers \o p.initContainers
IsInjected(p) ==
    /\ Shape(p)
    /\ ContainsSidecar(p)
    /\ \E i \in Sidecars(p) : Sidecars(p) = {i} /\ Containers(p)[i].args.id = GetAppID(p) /\ GetAppID(p) # ""

IsStored(p) == p \in Pods \/ IsInjected(p)

(* What is answered is what the webhook says of the pod under review.      *)
AnswerInv == phase = "answered" => Serving /\ answer = HandleRequest(pod, requester)

CreatedInv == phase = "created" /\ Enabled(pod) /\ Serving => ContainsSidecar(pod)

InjectorInv == IsStored(pod) /\ AnswerInv /\ CreatedInv

LEMMA StoredFacts ==
    ASSUME NEW p, IsStored(p)
    PROVE  /\ p # Failed
           /\ ~ContainsSidecar(p) => IsPod(p)
           /\ \A i, j \in Sidecars(p) : i = j
<1>1. CASE p \in Pods
  <2>1. IsPod(p) /\ Shape(p)
      BY <1>1, PodsAssumption DEF IsPod, Shape
  <2> QED BY <2>1, PodsHaveNotFailed DEF IsPod
<1>2. CASE IsInjected(p)
    BY <1>2, PodsHaveNotFailed DEF IsInjected
<1> QED BY <1>1, <1>2 DEF IsStored

(* Lists of any elements.                                                  *)
IsList(s) == s \in Seq(Range(s))

LEMMA ListFacts ==
    ASSUME NEW s, IsList(s)
    PROVE  Len(s) \in Nat /\ DOMAIN s = 1 .. Len(s)
BY DEF IsList

LEMMA ListAppend ==
    ASSUME NEW s, IsList(s), NEW x, NEW t, t = Append(s, x)
    PROVE  /\ Len(t) = Len(s) + 1 /\ t[Len(s) + 1] = x
           /\ \A i \in DOMAIN s : i \in DOMAIN t /\ t[i] = s[i]
BY DEF IsList

LEMMA ListConcatenation ==
    ASSUME NEW s, IsList(s), NEW t, IsList(t), NEW all, all = s \o t
    PROVE  /\ DOMAIN all = 1 .. Len(s) + Len(t)
           /\ \A i \in DOMAIN s : all[i] = s[i]
           /\ \A i \in DOMAIN t : all[Len(s) + i] = t[i]
<1> DEFINE S == Range(s) \cup Range(t)
<1>1. s \in Seq(S) /\ t \in Seq(S)
    BY DEF IsList
<1> HIDE DEF S
<1> QED BY <1>1

LEMMA ListFromFunction ==
    ASSUME NEW s, NEW n \in Nat, DOMAIN s = 1 .. n, s = [i \in 1 .. n |-> s[i]]
    PROVE  IsList(s) /\ Len(s) = n
<1>1. \A i \in 1 .. n : s[i] \in Range(s)
    BY DEF Range
<1>2. s \in Seq(Range(s))
    BY <1>1
<1> QED BY <1>2 DEF IsList

(* A container of the pod is at a position of the list of all of them.     *)
HasSidecar(s) == \E i \in DOMAIN s : s[i].name = "rusid"

LEMMA SidecarInConcatenation ==
    ASSUME NEW s, IsList(s), NEW t, IsList(t)
    PROVE  HasSidecar(s \o t) <=> HasSidecar(s) \/ HasSidecar(t)
<1> DEFINE all == s \o t
<1>1. /\ Len(s) \in Nat /\ DOMAIN s = 1 .. Len(s) /\ Len(t) \in Nat /\ DOMAIN t = 1 .. Len(t)
    BY ListFacts
<1>2. /\ DOMAIN all = 1 .. Len(s) + Len(t)
      /\ \A i \in DOMAIN s : all[i] = s[i]
      /\ \A i \in DOMAIN t : all[Len(s) + i] = t[i]
  <2>1. all = s \o t
      OBVIOUS
  <2> HIDE DEF all
  <2> QED BY <2>1, ListConcatenation
<1> HIDE DEF all
<1>3. \A i \in DOMAIN all : \/ i \in DOMAIN s
                            \/ i - Len(s) \in DOMAIN t /\ Len(s) + (i - Len(s)) = i
    BY <1>1, <1>2
<1>4. \A i \in DOMAIN s : i \in DOMAIN all
    BY <1>1, <1>2
<1>5. \A i \in DOMAIN t : Len(s) + i \in DOMAIN all
    BY <1>1, <1>2
<1>6. (\E i \in DOMAIN all : all[i].name = "rusid")
      <=> \/ \E i \in DOMAIN s : s[i].name = "rusid"
          \/ \E i \in DOMAIN t : t[i].name = "rusid"
    BY <1>2, <1>3, <1>4, <1>5
<1> QED BY <1>6 DEF all, HasSidecar

LEMMA SidecarsFound ==
    ASSUME NEW p, IsList(p.containers), IsList(p.initContainers)
    PROVE  ContainsSidecar(p) <=> Sidecars(p) # {}
<1>1. ContainsSidecar(p) <=> HasSidecar(p.containers) \/ HasSidecar(p.initContainers)
    BY DEF ContainsSidecar, Range, HasSidecar
<1>2. HasSidecar(p.containers \o p.initContainers)
      <=> HasSidecar(p.containers) \/ HasSidecar(p.initContainers)
    BY SidecarInConcatenation, Zenon
<1>3. Sidecars(p) # {} <=> HasSidecar(p.containers \o p.initContainers)
    BY Zenon DEF Sidecars, HasSidecar
<1> QED BY <1>1, <1>2, <1>3

(* Where the sidecar is put, and that it is the only one.                  *)
Position(p) == IF config.asInit THEN Len(p.containers) + Len(p.initContainers) + 1
               ELSE Len(p.containers) + 1

LEMMA OtherNames ==
    ASSUME NEW p, IsPod(p), ~ContainsSidecar(p)
    PROVE  /\ IsList(p.containers) /\ IsList(p.initContainers)
           /\ \A i \in DOMAIN p.containers : AppWithPort(p.containers[i]).name # "rusid"
           /\ \A i \in DOMAIN p.initContainers : p.initContainers[i].name # "rusid"
<1>1. \A i \in DOMAIN p.containers : {"name", "env"} \subseteq DOMAIN p.containers[i]
    BY DEF IsPod, Range
<1>2. \A i \in DOMAIN p.containers : AppWithPort(p.containers[i]).name = p.containers[i].name
    BY <1>1 DEF AppWithPort, AddPort
<1>3. \A i \in DOMAIN p.containers : p.containers[i].name # "rusid"
    BY DEF ContainsSidecar, Range
<1>4. \A i \in DOMAIN p.initContainers : p.initContainers[i].name # "rusid"
    BY DEF ContainsSidecar, Range
<1>5. IsList(p.containers) /\ IsList(p.initContainers)
    BY DEF IsPod, IsList
<1> QED BY <1>2, <1>3, <1>4, <1>5

LEMMA PatchedLists ==
    ASSUME NEW p, IsPod(p), NEW q, IsPatched(q, p)
    PROVE  /\ IsList(q.containers) /\ IsList(q.initContainers)
           /\ config.asInit => /\ Len(q.containers) = Len(p.containers)
                              /\ Len(q.initContainers) = Len(p.initContainers) + 1
                              /\ q.initContainers[Len(p.initContainers) + 1] = SidecarContainer(p)
           /\ ~config.asInit => /\ Len(q.containers) = Len(p.containers) + 1
                               /\ q.containers[Len(p.containers) + 1] = SidecarContainer(p)
                               /\ q.initContainers = p.initContainers
           /\ \A i \in DOMAIN p.containers : q.containers[i] = AppWithPort(p.containers[i])
           /\ \A i \in DOMAIN p.initContainers : q.initContainers[i] = p.initContainers[i]
<1> DEFINE w == WithSidecar(p)
           c == SidecarContainer(p)
<1>1. IsList(p.containers) /\ IsList(p.initContainers)
    BY DEF IsPod, IsList
<1>2. /\ config.asInit => w.initContainers = Append(p.initContainers, c) /\ w.containers = p.containers
      /\ ~config.asInit => w.containers = Append(p.containers, c) /\ w.initContainers = p.initContainers
      /\ IsList(w.containers) /\ IsList(w.initContainers)
      /\ DOMAIN p.containers \subseteq DOMAIN w.containers
    BY WithSidecarFacts DEF IsList
<1>3. /\ q.initContainers = w.initContainers
      /\ q.containers = [i \in DOMAIN w.containers |->
                            IF i \in DOMAIN p.containers THEN AppWithPort(p.containers[i]) ELSE w.containers[i]]
    BY DEF IsPatched
<1> HIDE DEF c, w
<1>4. Len(w.containers) \in Nat /\ DOMAIN w.containers = 1 .. Len(w.containers)
    BY <1>2, ListFacts
<1>5. DOMAIN q.containers = 1 .. Len(w.containers)
      /\ q.containers = [i \in 1 .. Len(w.containers) |-> q.containers[i]]
    BY <1>3, <1>4
<1>6. IsList(q.containers) /\ Len(q.containers) = Len(w.containers)
    BY <1>4, <1>5, ListFromFunction
<1>7. \A i \in DOMAIN p.containers : q.containers[i] = AppWithPort(p.containers[i])
    BY <1>2, <1>3
<1>8. Len(p.containers) \in Nat /\ DOMAIN p.containers = 1 .. Len(p.containers)
    BY <1>1, ListFacts
<1>9. CASE config.asInit
  <2>1. /\ Len(w.initContainers) = Len(p.initContainers) + 1
        /\ w.initContainers[Len(p.initContainers) + 1] = c
        /\ \A i \in DOMAIN p.initContainers : w.initContainers[i] = p.initContainers[i]
    <3> DEFINE before == p.initContainers
               after  == w.initContainers
    <3>1. IsList(before) /\ after = Append(before, c)
        BY <1>1, <1>2, <1>9
    <3> HIDE DEF before, after
    <3>2. /\ Len(after) = Len(before) + 1 /\ after[Len(before) + 1] = c
          /\ \A i \in DOMAIN before : after[i] = before[i]
        BY <3>1, ListAppend
    <3> QED BY <3>2 DEF before, after
  <2> QED BY <1>2, <1>3, <1>6, <1>7, <1>9, <2>1 DEF c
<1>10. CASE ~config.asInit
  <2>1. /\ Len(w.containers) = Len(p.containers) + 1
        /\ w.containers[Len(p.containers) + 1] = c
      BY <1>1, <1>2, <1>10, ListAppend
  <2>2. Len(p.containers) + 1 \in DOMAIN w.containers /\ Len(p.containers) + 1 \notin DOMAIN p.containers
      BY <1>4, <1>8, <2>1
  <2>3. q.containers[Len(p.containers) + 1] = c
      BY <1>3, <2>1, <2>2
  <2> QED BY <1>2, <1>3, <1>6, <1>7, <1>10, <2>1, <2>3 DEF c
<1> QED BY <1>9, <1>10

LEMMA OneSidecar ==
    ASSUME NEW p, IsPod(p), ~ContainsSidecar(p), NEW q, IsPatched(q, p)
    PROVE  /\ Sidecars(q) = {Position(p)}
           /\ Containers(q)[Position(p)] = SidecarContainer(p)
<1> DEFINE s == p.containers
           t == p.initContainers
           u == q.containers
           v == q.initContainers
           all == u \o v
           at == Position(p)
           c == SidecarContainer(p)
<1>1. c.name = "rusid"
    BY DEF SidecarContainer
<1>2. /\ IsList(s) /\ IsList(t) /\ IsList(u) /\ IsList(v)
      /\ config.asInit => /\ Len(u) = Len(s) /\ Len(v) = Len(t) + 1
                         /\ v[Len(t) + 1] = c
      /\ ~config.asInit => Len(u) = Len(s) + 1 /\ u[Len(s) + 1] = c /\ v = t
      /\ \A i \in DOMAIN s : u[i] = AppWithPort(s[i])
      /\ \A i \in DOMAIN t : v[i] = t[i]
    BY PatchedLists, OtherNames
<1>3. /\ \A i \in DOMAIN s : AppWithPort(s[i]).name # "rusid"
      /\ \A i \in DOMAIN t : t[i].name # "rusid"
    BY OtherNames
<1>4. Sidecars(q) = {i \in DOMAIN all : all[i].name = "rusid"} /\ Containers(q) = all
    BY DEF Sidecars, Containers
<1>5. at = IF config.asInit THEN Len(s) + Len(t) + 1 ELSE Len(s) + 1
    BY DEF Position
<1> HIDE DEF s, t, u, v, at, c
<1>6. /\ Len(s) \in Nat /\ DOMAIN s = 1 .. Len(s) /\ Len(t) \in Nat /\ DOMAIN t = 1 .. Len(t)
      /\ Len(u) \in Nat /\ DOMAIN u = 1 .. Len(u) /\ Len(v) \in Nat /\ DOMAIN v = 1 .. Len(v)
    BY <1>2, ListFacts
<1>7. /\ DOMAIN all = 1 .. Len(u) + Len(v)
      /\ \A i \in DOMAIN u : all[i] = u[i]
      /\ \A i \in DOMAIN v : all[Len(u) + i] = v[i]
  <2>1. IsList(u) /\ IsList(v) /\ all = u \o v
      BY <1>2
  <2> HIDE DEF all
  <2> QED BY <2>1, ListConcatenation
<1> HIDE DEF all
<1>8. at \in DOMAIN all /\ all[at] = c
  <2>1. CASE config.asInit
    <3>1. Len(u) = Len(s) /\ Len(v) = Len(t) + 1 /\ v[Len(t) + 1] = c /\ at = Len(s) + Len(t) + 1
        BY <1>2, <1>5, <2>1
    <3>2. Len(t) + 1 \in DOMAIN v /\ at = Len(u) + (Len(t) + 1) /\ at \in 1 .. Len(u) + Len(v)
        BY <1>6, <3>1
    <3> QED BY <1>7, <3>1, <3>2
  <2>2. CASE ~config.asInit
    <3>1. Len(u) = Len(s) + 1 /\ u[Len(s) + 1] = c /\ at = Len(s) + 1
        BY <1>2, <1>5, <2>2
    <3>2. at \in DOMAIN u /\ at \in 1 .. Len(u) + Len(v)
        BY <1>6, <3>1
    <3> QED BY <1>7, <3>1, <3>2
  <2> QED BY <2>1, <2>2
<1>9. ASSUME NEW i \in DOMAIN all, i # at PROVE all[i].name # "rusid"
  <2>1. CASE i \in DOMAIN u
    <3>1. i \in DOMAIN s
      <4>1. CASE config.asInit
        <5>1. Len(u) = Len(s)
            BY <1>2, <4>1
        <5> QED BY <1>6, <2>1, <5>1
      <4>2. CASE ~config.asInit
        <5>1. Len(u) = Len(s) + 1 /\ at = Len(s) + 1
            BY <1>2, <1>5, <4>2
        <5> QED BY <1>6, <1>9, <2>1, <5>1
      <4> QED BY <4>1, <4>2
    <3>2. all[i] = AppWithPort(s[i])
        BY <1>2, <1>7, <2>1, <3>1
    <3> QED BY <1>3, <3>1, <3>2
  <2>2. CASE i \notin DOMAIN u
    <3> DEFINE k == i - Len(u)
    <3>1. k \in DOMAIN v /\ Len(u) + k = i
        BY <1>6, <1>7, <2>2
    <3>2. k \in DOMAIN t
      <4>1. CASE config.asInit
        <5>1. Len(u) = Len(s) /\ Len(v) = Len(t) + 1 /\ at = Len(s) + Len(t) + 1
            BY <1>2, <1>5, <4>1
        <5> QED BY <1>6, <1>9, <3>1, <5>1
      <4>2. CASE ~config.asInit
          BY <1>2, <3>1, <4>2
      <4> QED BY <4>1, <4>2
    <3> HIDE DEF k
    <3>3. all[i] = v[k] /\ v[k] = t[k]
        BY <1>2, <1>7, <3>1, <3>2
    <3> QED BY <1>3, <3>2, <3>3
  <2> QED BY <2>1, <2>2
<1>10. {i \in DOMAIN all : all[i].name = "rusid"} = {at}
    BY <1>1, <1>8, <1>9
<1> QED BY <1>4, <1>8, <1>10 DEF at, c

LEMMA PatchedIsInjected ==
    ASSUME NEW p, IsPod(p), ~ContainsSidecar(p), GetAppID(p) # "", NEW q, IsPatched(q, p)
    PROVE  IsInjected(q)
<1>1. SidecarContainer(p).args.id = GetAppID(p)
    BY DEF SidecarContainer
<1>2. GetAppID(q) = GetAppID(p)
    BY DEF IsPatched, GetAppID
<1>3. Sidecars(q) = {Position(p)} /\ Containers(q)[Position(p)] = SidecarContainer(p)
    BY OneSidecar
<1>4. IsList(q.containers) /\ IsList(q.initContainers)
    BY PatchedLists
<1>5. ContainsSidecar(q)
    BY <1>3, <1>4, SidecarsFound
<1>6. Shape(q)
    BY DEF IsPatched
<1> QED BY <1>1, <1>2, <1>3, <1>5, <1>6 DEF IsInjected

(* What becomes of a pod whose answer is applied.                          *)
LEMMA EmptyPatch == ASSUME NEW p PROVE ApplyPatch(p, <<>>) = p
<1>1. <<>> \in Seq({}) /\ Len(<<>>) = 0
    OBVIOUS
<1> QED BY <1>1, PatchIsApplied DEF Applied

LEMMA PatchOutcome ==
    ASSUME NEW p, IsStored(p), NEW r, NEW a, a = HandleRequest(p, r),
           NEW q, q = ApplyPatch(p, a.patch)
    PROVE  /\ p.labels # {} => q # Failed
           /\ a.allowed /\ q # Failed =>
                \/ q = p /\ (Enabled(p) => ContainsSidecar(p))
                \/ IsPod(p) /\ ~ContainsSidecar(p) /\ IsPatched(q, p) /\ IsInjected(q)
<1>1. p # Failed /\ (~ContainsSidecar(p) => IsPod(p))
    BY StoredFacts
<1>2. CASE ~a.allowed
  <2>1. a.patch = <<>>
      BY <1>2 DEF HandleRequest, Refusal
  <2> QED BY <1>1, <1>2, <2>1, EmptyPatch
<1>3. CASE a.allowed /\ (~Enabled(p) \/ ContainsSidecar(p))
  <2>1. a.patch = <<>>
      BY <1>3 DEF HandleRequest, Refusal, PodPatchOperations
  <2> QED BY <1>1, <1>3, <2>1, EmptyPatch
<1>4. CASE a.allowed /\ Enabled(p) /\ ~ContainsSidecar(p)
  <2>1. a.patch = PodPatchOperations(p)
      BY <1>4 DEF HandleRequest, Refusal
  <2>2. GetAppID(p) # ""
      BY <1>4 DEF HandleRequest, Refusal, ValidateKubernetesAppID
  <2>3. IF p.labels = {} THEN q = Failed ELSE q # Failed /\ IsPatched(q, p)
      BY <1>1, <1>4, <2>1, PatchCorrect
  <2>4. IsPatched(q, p) => IsInjected(q)
      BY <1>1, <1>4, <2>2, PatchedIsInjected
  <2> QED BY <1>1, <1>4, <2>3, <2>4
<1> QED BY <1>2, <1>3, <1>4

-----------------------------------------------------------------------------
(* The invariant and its steps.                                            *)
LEMMA InitHolds == InjectorInit => InjectorInv
BY DEF InjectorInit, InjectorInv, IsStored, AnswerInv, CreatedInv

LEMMA ReviewHolds == InjectorInv /\ Review => InjectorInv'
<1> SUFFICES ASSUME InjectorInv, Review PROVE InjectorInv'
    OBVIOUS
<1>1. UNCHANGED <<config, authUIDs, requester, pod>> /\ phase' = "answered" /\ Serving
      /\ answer' = HandleRequest(pod, requester)
    BY DEF Review
<1>2. IsStored(pod)'
    BY <1>1 DEF InjectorInv, IsStored
<1>3. Serving'
    BY <1>1 DEF Serving
<1>4. HandleRequest(pod, requester)' = HandleRequest(pod, requester)
  <2>1. SidecarContainer(pod)' = SidecarContainer(pod) /\ SidecarPath(pod)' = SidecarPath(pod)
      BY <1>1 DEF SidecarContainer, SidecarPath
  <2>2. PodPatchOperations(pod)' = PodPatchOperations(pod)
      BY <1>1, <2>1 DEF PodPatchOperations
  <2> QED BY <1>1, <2>2 DEF HandleRequest
<1>5. AnswerInv'
    BY <1>1, <1>3, <1>4 DEF AnswerInv
<1>6. CreatedInv'
    BY <1>1 DEF CreatedInv
<1> QED BY <1>2, <1>5, <1>6 DEF InjectorInv

LEMMA UnservedHolds == InjectorInv /\ Unserved => InjectorInv'
<1> SUFFICES ASSUME InjectorInv, Unserved PROVE InjectorInv'
    OBVIOUS
<1>1. UNCHANGED <<config, authUIDs, pod>> /\ phase' # "answered" /\ ~Serving
    BY DEF Unserved
<1>2. ~Serving'
    BY <1>1 DEF Serving
<1> QED BY <1>1, <1>2 DEF InjectorInv, IsStored, AnswerInv, CreatedInv

LEMMA ApplyAnswerHolds == InjectorInv /\ ApplyAnswer => InjectorInv'
<1> SUFFICES ASSUME InjectorInv, ApplyAnswer PROVE InjectorInv'
    OBVIOUS
<1> DEFINE patched == ApplyPatch(pod, answer.patch)
<1>1. phase = "answered" /\ phase' # "answered" /\ IsStored(pod)
      /\ answer = HandleRequest(pod, requester)
    BY DEF ApplyAnswer, InjectorInv, AnswerInv
<1>2. answer.allowed /\ patched # Failed =>
        \/ patched = pod /\ (Enabled(pod) => ContainsSidecar(pod))
        \/ IsInjected(patched)
    BY <1>1, PatchOutcome
<1>3. CASE answer.allowed /\ patched # Failed
  <2>1. pod' = patched
      BY <1>3 DEF ApplyAnswer
  <2> HIDE DEF patched
  <2>2. IsStored(pod')
      BY <1>1, <1>2, <1>3, <2>1 DEF IsStored
  <2>3. Enabled(pod') => ContainsSidecar(pod')
      BY <1>2, <1>3, <2>1 DEF IsInjected
  <2> QED BY <1>1, <2>2, <2>3 DEF InjectorInv, AnswerInv, CreatedInv
<1>4. CASE ~(answer.allowed /\ patched # Failed)
  <2>1. pod' = pod /\ phase' = "refused"
      BY <1>4 DEF ApplyAnswer
  <2> QED BY <1>1, <2>1 DEF InjectorInv, AnswerInv, CreatedInv
<1> QED BY <1>3, <1>4

LEMMA ResubmitHolds == InjectorInv /\ Resubmit => InjectorInv'
BY DEF InjectorInv, IsStored, AnswerInv, CreatedInv, Resubmit

LEMMA StepHolds == InjectorInv /\ [InjectorNext]_injectorVars => InjectorInv'
<1>1. InjectorInv /\ UNCHANGED injectorVars => InjectorInv'
  <2> SUFFICES ASSUME InjectorInv, UNCHANGED injectorVars PROVE InjectorInv'
      OBVIOUS
  <2>1. UNCHANGED <<config, authUIDs, requester, pod, phase, answer>>
      BY DEF injectorVars
  <2>2. HandleRequest(pod, requester)' = HandleRequest(pod, requester)
      BY <2>1 DEF HandleRequest, PodPatchOperations, SidecarPath, SidecarContainer
  <2>3. Serving' = Serving
      BY <2>1 DEF Serving
  <2> QED BY <2>1, <2>2, <2>3 DEF InjectorInv, IsStored, AnswerInv, CreatedInv
<1> QED BY <1>1, ReviewHolds, UnservedHolds, ApplyAnswerHolds, ResubmitHolds DEF InjectorNext

\* A pod under review is one that was submitted or one that the webhook gave a
\* sidecar; what is answered is what HandleRequest says of it, and what was created
\* has the sidecar it asks for unless nobody served the webhook.
THEOREM InjectorInvariant == InjectorSpec => []InjectorInv
BY InitHolds, StepHolds, PTL DEF InjectorSpec

\* Every patch fits a pod that has labels, however many containers, init containers
\* and variables it has and wherever the sidecar goes (podPatchOperations).
THEOREM PatchesAlwaysFit == InjectorSpec => []PatchesFit
<1>1. InjectorInv => PatchesFit
  <2> SUFFICES ASSUME InjectorInv, phase = "answered", pod.labels # {}
               PROVE  ApplyPatch(pod, answer.patch) # Failed
      BY DEF PatchesFit
  <2>1. IsStored(pod) /\ answer = HandleRequest(pod, requester)
      BY DEF InjectorInv, AnswerInv
  <2> QED BY <2>1, PatchOutcome
<1> QED BY <1>1, InjectorInvariant, PTL

\* A pod never has two sidecars, and one that is stored and asks for it has one
\* that knows its application or that it brought itself, unless nobody served the
\* webhook, however often it is submitted (podContainsSidecarContainer,
\* ValidateKubernetesAppID).
THEOREM SidecarCorrect == InjectorSpec => []OneNamedSidecar
<1>1. InjectorInv => OneNamedSidecar
  <2> SUFFICES ASSUME InjectorInv PROVE OneNamedSidecar
      OBVIOUS
  <2>1. IsStored(pod) /\ CreatedInv
      BY DEF InjectorInv
  <2>2. \A i, j \in Sidecars(pod) : i = j
      BY <2>1, StoredFacts
  <2>3. ASSUME phase = "created", Enabled(pod), Serving
        PROVE  \E i \in Sidecars(pod) :
                  \/ pod \in Pods
                  \/ Containers(pod)[i].args.id = GetAppID(pod) /\ Containers(pod)[i].args.id # ""
    <3>1. ContainsSidecar(pod)
        BY <2>1, <2>3 DEF CreatedInv
    <3>2. CASE pod \in Pods
      <4>1. IsList(pod.containers) /\ IsList(pod.initContainers)
          BY <3>2, PodsAssumption DEF IsPod, IsList
      <4>2. Sidecars(pod) # {}
          BY <3>1, <4>1, SidecarsFound
      <4> QED BY <3>2, <4>2
    <3>3. CASE IsInjected(pod)
        BY <3>3 DEF IsInjected
    <3> QED BY <2>1, <3>2, <3>3 DEF IsStored
  <2> QED BY <2>2, <2>3 DEF OneNamedSidecar, Containers
<1> QED BY <1>1, InjectorInvariant, PTL

-----------------------------------------------------------------------------
(* What the patch does to one application container.                       *)
LEMMA AddedPort ==
    ASSUME NEW c, IsList(c.env), "env" \in DOMAIN c, PortsOf(c) = {}, NEW after, after = AddPort(c)
    PROVE  /\ [after EXCEPT !.env = <<>>] = [c EXCEPT !.env = <<>>]
           /\ IsPrefix(c.env, after.env)
           /\ PortsOf(after) = {Len(c.env) + 1} /\ after.env[Len(c.env) + 1] = PortVar
           /\ Len(c.env) + 1 \in DOMAIN after.env
<1> DEFINE s == c.env
           t == after.env
<1>1. t = Append(s, PortVar) /\ [after EXCEPT !.env = <<>>] = [c EXCEPT !.env = <<>>]
    BY DEF AddPort
<1>2. s \in Seq(Range(s)) /\ \A j \in DOMAIN s : s[j].name # PortVar.name
    BY DEF IsList, PortsOf
<1>3. PortsOf(after) = {j \in DOMAIN t : t[j].name = PortVar.name}
    BY DEF PortsOf
<1> HIDE DEF s, t
<1>4. t \in Seq(Range(s) \cup {PortVar}) /\ Len(s) \in Nat /\ Len(t) = Len(s) + 1
      /\ DOMAIN s = 1 .. Len(s) /\ DOMAIN t = 1 .. Len(s) + 1 /\ t[Len(s) + 1] = PortVar
      /\ \A j \in DOMAIN s : t[j] = s[j]
    BY <1>1, <1>2
<1>5. IsPrefix(s, t)
    BY <1>2, <1>4 DEF IsPrefix
<1>6. {j \in DOMAIN t : t[j].name = PortVar.name} = {Len(s) + 1}
    BY <1>2, <1>4
<1> QED BY <1>1, <1>3, <1>4, <1>5, <1>6 DEF s, t

LEMMA AppIsKept ==
    ASSUME NEW c, IsList(c.env), "env" \in DOMAIN c, NEW after, after = AppWithPort(c)
    PROVE  /\ [after EXCEPT !.env = <<>>] = [c EXCEPT !.env = <<>>]
           /\ IsPrefix(c.env, after.env)
           /\ PortsOf(c) # {} => after = c
           /\ PortsOf(c) = {} => \E j \in DOMAIN after.env :
                                    PortsOf(after) = {j} /\ after.env[j] = PortVar
<1>1. CASE PortsOf(c) # {}
  <2>1. after = c
      BY <1>1 DEF AppWithPort
  <2>2. IsPrefix(c.env, c.env)
    <3> DEFINE s == c.env
    <3>1. s \in Seq(Range(s))
        BY DEF IsList
    <3> HIDE DEF s
    <3>2. IsPrefix(s, s)
        BY <3>1 DEF IsPrefix
    <3> QED BY <3>2 DEF s
  <2> QED BY <1>1, <2>1, <2>2
<1>2. CASE PortsOf(c) = {}
  <2>1. after = AddPort(c)
      BY <1>2 DEF AppWithPort
  <2> QED BY <1>2, <2>1, AddedPort
<1> QED BY <1>1, <1>2

\* Whenever a pod changes, each of its containers gets the port of the sidecar once
\* at the end of its variables, unless it brings the port, and changes in nothing
\* else: the indexes of the operations, which are those of the pod before the
\* sidecar was added, are right after it too (addRusiEnvVarsToContainers).
THEOREM AppsCorrect == InjectorSpec => AppsFindTheSidecar
<1> DEFINE Kept(before, after) ==
               /\ [after EXCEPT !.env = <<>>] = [before EXCEPT !.env = <<>>]
               /\ IsPrefix(before.env, after.env)
               /\ PortsOf(before) # {} => after = before
               /\ PortsOf(before) = {} => \E j \in DOMAIN after.env :
                                            PortsOf(after) = {j} /\ after.env[j] = PortVar
           Right == pod' # pod => \A i \in DOMAIN pod.containers :
                                     Kept(pod.containers[i], pod'.containers[i])
<1>1. InjectorInv /\ [InjectorNext]_injectorVars => [Right]_injectorVars
  <2> SUFFICES ASSUME InjectorInv, InjectorNext, pod' # pod, NEW i \in DOMAIN pod.containers
               PROVE  Kept(pod.containers[i], pod'.containers[i])
      OBVIOUS
  <2> HIDE DEF Kept
  <2>1. ApplyAnswer
      BY DEF InjectorNext, Review, Unserved, Resubmit
  <2>2. /\ IsStored(pod) /\ answer = HandleRequest(pod, requester) /\ answer.allowed
        /\ pod' = ApplyPatch(pod, answer.patch) /\ pod' # Failed
      BY <2>1 DEF ApplyAnswer, InjectorInv, AnswerInv
  <2>3. IsPod(pod) /\ IsPatched(pod', pod)
      BY <2>2, PatchOutcome
  <2>4. pod'.containers[i] = AppWithPort(pod.containers[i])
      BY <2>3, PatchedLists
  <2>5. IsList(pod.containers[i].env) /\ "env" \in DOMAIN pod.containers[i]
    <3>1. pod.containers[i] \in Range(pod.containers)
        BY DEF Range
    <3> QED BY <2>3, <3>1 DEF IsPod, IsList
  <2> QED BY <2>4, <2>5, AppIsKept DEF Kept
<1>2. InjectorSpec => [][Right]_injectorVars
    BY <1>1, InjectorInvariant, PTL DEF InjectorSpec
<1>3. [][Right]_injectorVars <=> AppsFindTheSidecar
    BY DEF AppsFindTheSidecar
<1> QED BY <1>2, <1>3
=============================================================================
