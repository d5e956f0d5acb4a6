-------------------------- MODULE AdmissionProofs --------------------------
(***************************************************************************)
(* Proofs about Admission, for any nodes, claims, pods and volumes.        *)
(***************************************************************************)
EXTENDS Admission, SequenceTheorems, TLAPS

-----------------------------------------------------------------------------
(* Requests *)

\* A request that has not begun.
LEMMA NoReqFacts ==
  /\ NoReq \in Reqs /\ NoReq.todo = <<>> /\ NoReq.names = <<>> /\ NoReq.nodes = {}
  /\ NoReq.mode = "availability" /\ NoReq.step = "none"
BY DEF NoReq, Reqs

\* What a step of the handler writes into a request.
LEMMA ReqUpdates ==
  ASSUME NEW r \in Reqs
  PROVE  /\ \A t \in Seq(Claims \cup {Ephemeral}) :
              [r EXCEPT !.todo = t, !.step = "volumes"] \in Reqs
         /\ \A t \in Seq(Claims \cup {Ephemeral}), n \in Seq(Claims \cup {None}) :
              [r EXCEPT !.todo = t, !.names = n] \in Reqs
         /\ [r EXCEPT !.step = "pvs"] \in Reqs
         /\ \A n \in Seq(Claims \cup {None}), N \in SUBSET Nodes,
               m \in {"availability", "durability"} :
              [r EXCEPT !.names = n, !.nodes = N, !.mode = m] \in Reqs
BY Zenon DEF Reqs

\* The node of a volume is a node.
LEMMA NodeOfType ==
  ASSUME NEW v \in Volumes
  PROVE  NodeOf(v) \in Nodes
BY Zenon DEF Volumes, NodeOf

-----------------------------------------------------------------------------
(* Steps that leave a request alone *)

\* A pod's request knows what it knew if it is the same, and if the volumes of
\* the pod that were there still are.
LEMMA SameRequest ==
  ASSUME NEW q \in Pods, RequestKnows(q), req'[q] = req[q],
         q \in blind' <=> q \in blind,
         pod'[q] = "asked" <=> pod[q] = "asked",
         pod'[q] \in Created <=> pod[q] \in Created,
         \A c : (Local(c)' <=> Local(c)) /\ (Durable(c)' <=> Durable(c)),
         Plain(q)' <=> Plain(q),
         \A c \in UsedClaims(q) : pv[c] # None => pv'[c] # None
  PROVE  RequestKnows(q)'
<1>1. PICK r : r = req[q] /\ r = req'[q]
  BY Zenon
<1>2. /\ pod[q] # "asked" => r = NoReq
      /\ pod[q] = "asked" => r.step \in {"volumes", "pvs"}
      /\ \A i \in DOMAIN r.todo : r.todo[i] \in UsedClaims(q) \cup {Ephemeral}
      /\ r.mode = "durability" => \E c \in UsedClaims(q) : Durable(c)
  BY <1>1, Zenon DEF RequestKnows
<1>3. \A i \in DOMAIN r.names : r.names[i] \in {c \in UsedClaims(q) : Local(c)} \cup {None}
  BY <1>1, Zenon DEF RequestKnows
<1>4. \A c \in UsedClaims(q) :
        Durable(c) /\ Plain(q) /\ q \notin blind =>
          /\ r.step = "volumes" =>
               /\ r.nodes = {}
               /\ r.names = <<>> => \E i \in DOMAIN r.todo : r.todo[i] = c
          /\ r.step = "pvs" => r.names # <<>> \/ r.nodes # {}
          /\ r.nodes # {} => r.mode = "durability" /\ pv[c] # None
          /\ pod[q] \in Created => pv[c] # None
  BY <1>1, SMT DEF RequestKnows
<1>5. \A i \in DOMAIN r.names : r.names[i] \in {c \in UsedClaims(q) : Local(c)'} \cup {None}
  <2>1. {c \in UsedClaims(q) : Local(c)'} = {c \in UsedClaims(q) : Local(c)}
    BY Zenon
  <2> QED
    BY <1>3, <2>1, Zenon
<1>6. \A c \in UsedClaims(q) :
        Durable(c)' /\ Plain(q)' /\ q \notin blind' =>
          /\ r.step = "volumes" =>
               /\ r.nodes = {}
               /\ r.names = <<>> => \E i \in DOMAIN r.todo : r.todo[i] = c
          /\ r.step = "pvs" => r.names # <<>> \/ r.nodes # {}
          /\ r.nodes # {} => r.mode = "durability" /\ pv'[c] # None
          /\ pod'[q] \in Created => pv'[c] # None
  BY <1>4, Zenon
<1>7. r.mode = "durability" => \E c \in UsedClaims(q) : Durable(c)'
  BY <1>2, Zenon
<1> QED
  BY <1>1, <1>2, <1>5, <1>6, <1>7, SMT DEF RequestKnows

-----------------------------------------------------------------------------
(* Steps about one pod *)

\* The step changes nothing but pod p, which has no node yet.
PodOnly(p) ==
  /\ UNCHANGED <<managerVars, objectVars, at>>
  /\ at[p] = None
  /\ blind \subseteq blind' /\ blind' \subseteq blind \cup {p}
  /\ \A q \in Pods \ {p} :
       pod'[q] = pod[q] /\ req'[q] = req[q] /\ required'[q] = required[q]

Unblocked(p) == (\A c \in UsedClaims(p) : ~Durable(c)) => required[p] = OwnTerms[p]

\* Such a step makes no volume and moves none.
LEMMA SameVolumes ==
  ASSUME NEW p \in Pods, PodOnly(p)
  PROVE  /\ \A c \in Claims : Kept(c)' <=> Kept(c)
         /\ \A c \in Claims : DurableKept(c)' <=> DurableKept(c)
         /\ \A q \in Pods : Plain(q)' <=> Plain(q)
         /\ \A c \in Claims : Durable(c)' <=> Durable(c)
         /\ pv' = pv /\ at' = at
<1>1. pv' = pv /\ spec' = spec /\ at' = at /\ seenPV' = seenPV
  BY Zenon DEF PodOnly, objectVars
<1>2. \A q \in Pods : Plain(q)' <=> Plain(q)
  BY <1>1, Zenon DEF Plain, Local
<1>3. \A c \in Claims : Durable(c)' <=> Durable(c)
  BY <1>1, Zenon DEF Durable, Local
<1>4. \A c \in Claims : Strays(c)' = Strays(c) /\ p \notin Strays(c)
  BY <1>1, Zenon DEF Strays, Uses, PodOnly
<1>5. \A c \in Claims : OnlyPlainStrays(c)' <=> OnlyPlainStrays(c)
  <2> SUFFICES ASSUME NEW c \in Claims
               PROVE  OnlyPlainStrays(c)' <=> OnlyPlainStrays(c)
    BY Zenon
  <2>1. \A q \in Strays(c) : q \in Pods /\ q # p
    BY <1>4, Zenon DEF Strays, Uses
  <2>2. \A q \in Strays(c) : q \in blind' <=> q \in blind
    BY <2>1, Zenon DEF PodOnly
  <2> QED
    BY <1>2, <1>4, <2>1, <2>2, Zenon DEF OnlyPlainStrays
<1>6. \A c \in Claims : Kept(c)' <=> Kept(c)
  BY <1>1, <1>3, <1>5, Zenon DEF Kept
<1>7. \A c \in Claims : DurableKept(c)' <=> DurableKept(c)
  BY <1>1, <1>4, <1>6, Zenon DEF DurableKept, NodeOf
<1> QED
  BY <1>1, <1>2, <1>3, <1>6, <1>7, Zenon

\* Such a step keeps the invariant if it keeps what it says of p.
LEMMA PodFrame ==
  ASSUME AdmissionInv, NEW p \in Pods, PodOnly(p),
         PodsTypeOK', RequestKnows(p)', PodKnows(p)', Unblocked(p)'
  PROVE  AdmissionInv'
<1>1. TypeOK'
  BY Zenon DEF AdmissionInv, TypeOK, PodOnly, ManagerTypeOK, ObjectsTypeOK, managerVars, objectVars
<1>2. VolumesBound'
  BY DEF AdmissionInv, VolumesBound, PodOnly, objectVars, Uses, Local
<1>3. \A c \in Claims : DurableKept(c)'
  BY SameVolumes, Zenon DEF AdmissionInv
<1>4. \A q \in Pods \ {p} : q \in blind' <=> q \in blind
  BY ZenonT(60) DEF PodOnly
<1>5. \A q \in Pods \ {p} : RequestKnows(q)'
  <2> SUFFICES ASSUME NEW q \in Pods \ {p}
               PROVE  RequestKnows(q)'
    BY Zenon
  <2>1. RequestKnows(q)
    BY Zenon DEF AdmissionInv
  <2>2. pod'[q] = pod[q] /\ req'[q] = req[q] /\ spec' = spec /\ pv' = pv
    BY Zenon DEF PodOnly, objectVars
  <2>3. \A c \in UsedClaims(q) : (Durable(c)' <=> Durable(c)) /\ (Local(c)' <=> Local(c))
    BY <2>2, Zenon DEF Durable, Local
  <2> QED
    BY <1>4, <2>1, <2>2, <2>3, SameVolumes DEF RequestKnows
<1>6. \A q \in Pods \ {p} : PodKnows(q)'
  <2> SUFFICES ASSUME NEW q \in Pods \ {p}
               PROVE  PodKnows(q)'
    BY Zenon
  <2>1. PodKnows(q)
    BY Zenon DEF AdmissionInv
  <2>2. pod'[q] = pod[q] /\ req'[q] = req[q] /\ required'[q] = required[q]
    BY Zenon DEF PodOnly
  <2>3. \A c \in UsedClaims(q) : Kept(c)' <=> Kept(c)
    BY SameVolumes, Zenon DEF UsedClaims
  <2> QED
    BY <1>4, <2>1, <2>2, <2>3, SameVolumes DEF PodKnows
<1>7. AvailabilityNeverBlocks'
  <2> SUFFICES ASSUME NEW q \in Pods \ {p}, (\A c \in UsedClaims(q) : ~Durable(c))'
               PROVE  required'[q] = OwnTerms[q]
    BY Zenon DEF AvailabilityNeverBlocks, Unblocked
  <2>1. \A c \in UsedClaims(q) : ~Durable(c)
    BY SameVolumes, Zenon DEF UsedClaims
  <2> QED
    BY <2>1, Zenon DEF AdmissionInv, AvailabilityNeverBlocks, PodOnly
<1>8. OnlyEphemeralClaims'
  BY Zenon DEF AdmissionInv, OnlyEphemeralClaims, PodOnly, objectVars, Exists, Local, Excused
<1> QED
  BY <1>1, <1>2, <1>3, <1>5, <1>6, <1>7, <1>8 DEF AdmissionInv

\* A pod that has not been created has no node.
LEMMA NoNodeYet ==
  ASSUME AdmissionInv, NEW p \in Pods, pod[p] \in {"new", "asked"}
  PROVE  at[p] = None /\ required[p] = OwnTerms[p]
BY Zenon DEF AdmissionInv, PodKnows, Created

\* The pod is sent to the API server.
LEMMA CreatePodStep ==
  ASSUME AdmissionInv, NEW p \in Pods, NEW reached, CreatePod(p, reached), UNCHANGED managerVars
  PROVE  AdmissionInv'
<1> DEFINE r == [NoReq EXCEPT !.todo = PodVolumes[p], !.step = "volumes"]
<1>1. /\ pod[p] = "new" /\ req[p] = NoReq /\ pod \in [Pods -> {"new", "asked", "admitted", "denied", "placed", "staged"}]
      /\ req \in [Pods -> Reqs] /\ RequestKnows(p) /\ PodKnows(p)
  BY Zenon DEF CreatePod, AdmissionInv, RequestKnows, TypeOK, PodsTypeOK
<1>2. at[p] = None /\ required[p] = OwnTerms[p]
  BY <1>1, NoNodeYet, Zenon
<1>3. PodVolumes[p] \in Seq(Claims \cup {Ephemeral})
  BY PodAssumption, Zenon
<1>4. /\ r \in Reqs /\ r.todo = PodVolumes[p] /\ r.names = <<>> /\ r.nodes = {}
      /\ r.mode = "availability" /\ r.step = "volumes"
  BY <1>3, NoReqFacts, ReqUpdates, Zenon DEF Reqs
<1>5. \/ /\ pod' = [pod EXCEPT ![p] = "asked"] /\ req' = [req EXCEPT ![p] = r] /\ blind' = blind
      \/ pod' = [pod EXCEPT ![p] = "admitted"] /\ req' = req /\ blind' = blind \cup {p}
  BY <1>1, Zenon DEF CreatePod, SetPod, NoteBlind
<1>6. UNCHANGED <<required, preferred, at, objectVars>>
  BY Zenon DEF CreatePod
<1> HIDE DEF r
<1>7. PodOnly(p)
  BY <1>1, <1>2, <1>5, <1>6, Zenon DEF PodOnly
<1>8. PodsTypeOK'
  BY <1>1, <1>4, <1>5, <1>6 DEF PodsTypeOK, AdmissionInv, TypeOK
<1>9. RequestKnows(p)'
  <2>1. CASE pod' = [pod EXCEPT ![p] = "asked"] /\ req' = [req EXCEPT ![p] = r] /\ blind' = blind
    <3>1. pod'[p] = "asked" /\ req'[p] = r
      BY <1>1, <2>1, Zenon
    <3>2. \A i \in DOMAIN r.todo : r.todo[i] \in UsedClaims(p) \cup {Ephemeral}
      BY <1>3, <1>4 DEF UsedClaims
    <3>3. DOMAIN r.names = {}
      BY <1>4
    <3>4. \A c \in UsedClaims(p) : \E i \in DOMAIN r.todo : r.todo[i] = c
      BY <1>4, Zenon DEF UsedClaims
    <3> QED
      BY <1>4, <3>1, <3>2, <3>3, <3>4, Zenon DEF RequestKnows, Created
  <2>2. CASE pod' = [pod EXCEPT ![p] = "admitted"] /\ req' = req /\ blind' = blind \cup {p}
    <3>1. pod'[p] = "admitted" /\ req'[p] = NoReq /\ p \in blind'
      BY <1>1, <2>2, Zenon
    <3>2. DOMAIN NoReq.todo = {} /\ DOMAIN NoReq.names = {}
      BY NoReqFacts
    <3> QED
      BY <3>1, <3>2, NoReqFacts, Zenon DEF RequestKnows
  <2> QED
    BY <1>5, <2>1, <2>2, Zenon
<1>10. PodKnows(p)'
  <2>1. req'[p].nodes = {}
    BY <1>1, <1>4, <1>5, NoReqFacts, Zenon
  <2>2. (pod'[p] = "asked") \/ (pod'[p] = "admitted" /\ p \in blind')
    BY <1>1, <1>5, Zenon
  <2>3. at'[p] = None /\ required'[p] = OwnTerms[p]
    BY <1>2, <1>6, Zenon
  <2> QED
    BY <2>1, <2>2, <2>3, Zenon DEF PodKnows, Created
<1>11. Unblocked(p)'
  BY <1>2, <1>6, Zenon DEF Unblocked
<1> QED
  BY <1>7, <1>8, <1>9, <1>10, <1>11, PodFrame, Zenon

\* A request for a pod that is not created or of which nobody can say where its
\* volume is, ends.
LEMMA RequestEnds ==
  ASSUME AdmissionInv, NEW p \in Pods, pod[p] = "asked",
         NEW s \in {"admitted", "denied"}, pod' = [pod EXCEPT ![p] = s],
         req' = [req EXCEPT ![p] = NoReq], UNCHANGED <<managerVars, objectVars, required, preferred, at>>,
         blind \subseteq blind', blind' \subseteq blind \cup {p},
         \/ s = "denied" \/ p \in blind'
         \/ \A c \in UsedClaims(p) : ~(Durable(c) /\ Plain(p))
  PROVE  AdmissionInv'
<1>1. /\ pod \in [Pods -> {"new", "asked", "admitted", "denied", "placed", "staged"}]
      /\ req \in [Pods -> Reqs] /\ blind \subseteq Pods
  BY Zenon DEF AdmissionInv, TypeOK, PodsTypeOK
<1>2. at[p] = None /\ required[p] = OwnTerms[p]
  BY NoNodeYet, Zenon
<1>3. pod'[p] = s /\ req'[p] = NoReq
  BY <1>1, Zenon
<1>4. PodOnly(p)
  BY <1>1, <1>2, Zenon DEF PodOnly
<1>5. PodsTypeOK'
  BY <1>1, NoReqFacts, Zenon DEF PodsTypeOK, AdmissionInv, TypeOK
<1>6. \A c \in UsedClaims(p) : (Durable(c)' <=> Durable(c)) /\ (Plain(p)' <=> Plain(p))
  BY <1>4, SameVolumes, Zenon DEF UsedClaims
<1>7. RequestKnows(p)'
  <2>1. DOMAIN NoReq.todo = {} /\ DOMAIN NoReq.names = {}
    BY NoReqFacts
  <2>2. s \notin Created \/ p \in blind' \/ \A c \in UsedClaims(p) : ~(Durable(c)' /\ Plain(p)')
    BY <1>6, Zenon DEF Created
  <2> QED
    BY <1>3, <2>1, <2>2, NoReqFacts, Zenon DEF RequestKnows
<1>8. PodKnows(p)'
  <2>1. s \notin Created \/ p \in blind' \/ \A c \in UsedClaims(p) : ~(Kept(c)' /\ Plain(p)')
    BY <1>6, Zenon DEF Created, Kept
  <2> QED
    BY <1>2, <1>3, <2>1, NoReqFacts, Zenon DEF PodKnows
<1>9. Unblocked(p)'
  BY <1>2, Zenon DEF Unblocked
<1> QED
  BY <1>4, <1>5, <1>7, <1>8, <1>9, PodFrame, Zenon

\* A read fails and the pod is refused.
LEMMA HandlePodFailsStep ==
  ASSUME AdmissionInv, NEW p \in Pods, HandlePodFails(p), UNCHANGED managerVars
  PROVE  AdmissionInv'
BY RequestEnds, Zenon DEF HandlePodFails, SetPod

\* What a request for a plain pod may rely on.
Informed(p, r, b) ==
  \A c \in UsedClaims(p) :
    Durable(c) /\ Plain(p) /\ ~b =>
      /\ r.step = "volumes" =>
           /\ r.nodes = {}
           /\ r.names = <<>> => \E i \in DOMAIN r.todo : r.todo[i] = c
      /\ r.step = "pvs" => r.names # <<>> \/ r.nodes # {}
      /\ r.nodes # {} => r.mode = "durability" /\ pv[c] # None
      /\ Kept(c) => r.nodes \subseteq {pv[c].initial}

\* A request goes on.
LEMMA RequestGoesOn ==
  ASSUME AdmissionInv, NEW p \in Pods, pod[p] = "asked",
         NEW r \in Reqs, req' = [req EXCEPT ![p] = r],
         UNCHANGED <<managerVars, objectVars, pod, required, preferred, at>>,
         blind \subseteq blind', blind' \subseteq blind \cup {p},
         r.step \in {"volumes", "pvs"},
         \A i \in DOMAIN r.todo : r.todo[i] \in UsedClaims(p) \cup {Ephemeral},
         \A i \in DOMAIN r.names : r.names[i] \in {c \in UsedClaims(p) : Local(c)} \cup {None},
         r.mode = "durability" => \E c \in UsedClaims(p) : Durable(c),
         Informed(p, r, p \in blind')
  PROVE  AdmissionInv'
<1>1. req \in [Pods -> Reqs] /\ blind \subseteq Pods
  BY Zenon DEF AdmissionInv, TypeOK, PodsTypeOK
<1>2. at[p] = None /\ required[p] = OwnTerms[p]
  BY NoNodeYet, Zenon
<1>3. req'[p] = r
  BY <1>1, Zenon
<1>4. PodOnly(p)
  BY <1>1, <1>2, Zenon DEF PodOnly
<1>5. PodsTypeOK'
  BY <1>1, Zenon DEF PodsTypeOK, AdmissionInv, TypeOK
<1>6. \A c \in UsedClaims(p) : /\ Durable(c)' <=> Durable(c)
                               /\ Kept(c)' <=> Kept(c)
                               /\ pv'[c] = pv[c]
  BY <1>4, SameVolumes, Zenon DEF UsedClaims
<1>7. Plain(p)' <=> Plain(p)
  BY <1>4, SameVolumes, Zenon
<1>8. RequestKnows(p)'
  <2>1. \A c \in UsedClaims(p) : Local(c)' <=> Local(c)
    BY Zenon DEF Local, objectVars
  <2>2. "asked" \notin Created
    BY Zenon DEF Created
  <2> QED
    BY <1>3, <1>6, <1>7, <2>1, <2>2 DEF RequestKnows, Informed
<1>9. PodKnows(p)'
  <2>1. \A c \in UsedClaims(p) : Kept(c) => Durable(c)
    BY Zenon DEF Kept
  <2> QED
    BY <1>2, <1>3, <1>6, <1>7, <2>1, Zenon DEF PodKnows, Informed, Created
<1>10. Unblocked(p)'
  BY <1>2, Zenon DEF Unblocked
<1> QED
  BY <1>4, <1>5, <1>8, <1>9, <1>10, PodFrame, Zenon

\* What the invariant says of a request under way.
LEMMA RequestFacts ==
  ASSUME AdmissionInv, NEW p \in Pods, pod[p] = "asked"
  PROVE  LET r == req[p] IN
         /\ r \in Reqs
         /\ r.todo \in Seq(Claims \cup {Ephemeral}) /\ r.names \in Seq(Claims \cup {None})
         /\ r.nodes \subseteq Nodes
         /\ \A i \in DOMAIN r.todo : r.todo[i] \in UsedClaims(p) \cup {Ephemeral}
         /\ \A i \in DOMAIN r.names : r.names[i] \in {c \in UsedClaims(p) : Local(c)} \cup {None}
         /\ r.mode = "durability" => \E c \in UsedClaims(p) : Durable(c)
         /\ Informed(p, r, p \in blind)
<1>1. RequestKnows(p) /\ PodKnows(p) /\ req[p] \in Reqs
  BY Zenon DEF AdmissionInv, TypeOK, PodsTypeOK
<1> QED
  BY <1>1, Zenon DEF RequestKnows, PodKnows, Reqs, Informed

\* The rest of a sequence without its first element.
LEMMA TailElements ==
  ASSUME NEW S, NEW s \in Seq(S), s # <<>>
  PROVE  /\ Tail(s) \in Seq(S) /\ Head(s) \in S
         /\ 1 \in DOMAIN s /\ Head(s) = s[1]
         /\ \A i \in DOMAIN Tail(s) : i + 1 \in DOMAIN s /\ Tail(s)[i] = s[i + 1]
         /\ \A i \in DOMAIN s : i # 1 => i - 1 \in DOMAIN Tail(s) /\ Tail(s)[i - 1] = s[i]
BY HeadTailProperties

\* A sequence with an element more.
LEMMA AppendElements ==
  ASSUME NEW S, NEW s \in Seq(S), NEW e \in S
  PROVE  /\ Append(s, e) \in Seq(S) /\ Append(s, e) # <<>>
         /\ \A i \in DOMAIN Append(s, e) : \/ i \in DOMAIN s /\ Append(s, e)[i] = s[i]
                                          \/ Append(s, e)[i] = e
BY AppendProperties

\* The handler reads one volume of the pod.
LEMMA HandleVolumeStep ==
  ASSUME AdmissionInv, NEW p \in Pods, HandleVolume(p), UNCHANGED managerVars
  PROVE  AdmissionInv'
<1> DEFINE v == Head(req[p].todo)
           name == IF seenClaim[v] = "bound" THEN v ELSE None
           appended == Local(v) /\ seenClass
           ns == IF appended THEN Append(req[p].names, name) ELSE req[p].names
           r == [req[p] EXCEPT !.todo = Tail(@), !.names = ns]
<1>1. pod[p] = "asked" /\ req[p].step = "volumes" /\ req[p].todo # <<>>
  BY Zenon DEF HandleVolume, Reading
<1>2. /\ req[p] \in Reqs
      /\ req[p].todo \in Seq(Claims \cup {Ephemeral}) /\ req[p].names \in Seq(Claims \cup {None})
      /\ \A i \in DOMAIN req[p].todo : req[p].todo[i] \in UsedClaims(p) \cup {Ephemeral}
      /\ \A i \in DOMAIN req[p].names :
           req[p].names[i] \in {c \in UsedClaims(p) : Local(c)} \cup {None}
      /\ req[p].mode = "durability" => \E c \in UsedClaims(p) : Durable(c)
      /\ Informed(p, req[p], p \in blind)
  BY <1>1, RequestFacts, Zenon
<1>3. CASE v = Ephemeral \/ (v # Ephemeral /\ seenClaim[v] = "absent")
  BY <1>1, <1>3, RequestEnds, Zenon DEF HandleVolume, Allow, SetPod, NoteBlind
<1>4. CASE ~(v = Ephemeral \/ (v # Ephemeral /\ seenClaim[v] = "absent"))
  <2>1. /\ req' = [req EXCEPT ![p] = r]
        /\ blind' = (IF Local(v) /\ ~seenClass THEN blind \cup {p} ELSE blind)
        /\ UNCHANGED <<objectVars, pod, required, preferred, at>>
    BY <1>4, Zenon DEF HandleVolume, NoteBlind
  <2>2. /\ Tail(req[p].todo) \in Seq(Claims \cup {Ephemeral})
        /\ 1 \in DOMAIN req[p].todo /\ v = req[p].todo[1]
        /\ \A i \in DOMAIN Tail(req[p].todo) :
             i + 1 \in DOMAIN req[p].todo /\ Tail(req[p].todo)[i] = req[p].todo[i + 1]
        /\ \A i \in DOMAIN req[p].todo : i # 1 =>
             i - 1 \in DOMAIN Tail(req[p].todo) /\ Tail(req[p].todo)[i - 1] = req[p].todo[i]
    BY <1>1, <1>2, TailElements, Zenon
  <2>3. v \in UsedClaims(p) /\ v \in Claims
    BY <1>2, <1>4, <2>2, Zenon DEF UsedClaims
  <2>4. name \in Claims \cup {None}
    BY <2>3, Zenon
  <2> HIDE DEF name
  <2>5. /\ ns \in Seq(Claims \cup {None})
        /\ appended => ns # <<>>
        /\ \A i \in DOMAIN ns : \/ i \in DOMAIN req[p].names /\ ns[i] = req[p].names[i]
                                \/ appended /\ ns[i] = name
    <3>1. CASE appended
      <4>1. ns = Append(req[p].names, name)
        BY <3>1, Zenon
      <4> QED
        BY <1>2, <2>4, <3>1, <4>1, AppendElements
    <3>2. CASE ~appended
      BY <1>2, <3>2, Zenon
    <3> QED
      BY <3>1, <3>2, Zenon
  <2>6. \A i \in DOMAIN ns : ns[i] \in {c \in UsedClaims(p) : Local(c)} \cup {None}
    BY <1>2, <2>3, <2>5, Zenon DEF name
  <2>7. ~appended => ns = req[p].names
    BY Zenon
  <2> HIDE DEF ns
  <2>8. /\ r \in Reqs /\ r.todo = Tail(req[p].todo) /\ r.names = ns
        /\ r.nodes = req[p].nodes /\ r.mode = req[p].mode /\ r.step = "volumes"
    BY <1>1, <1>2, <2>2, <2>5, ReqUpdates, ZenonT(60) DEF Reqs
  <2> HIDE DEF r
  <2>9. \A i \in DOMAIN r.todo : r.todo[i] \in UsedClaims(p) \cup {Ephemeral}
    BY <1>2, <2>2, <2>8
  <2>10. Informed(p, r, p \in blind')
    <3> SUFFICES ASSUME NEW c \in UsedClaims(p), Durable(c), Plain(p), p \notin blind'
                 PROVE  /\ r.nodes = {}
                        /\ r.names = <<>> => \E i \in DOMAIN r.todo : r.todo[i] = c
      BY <2>8, Zenon DEF Informed
    <3>1. p \notin blind /\ (Local(v) => seenClass)
      BY <2>1, Zenon
    <3>2. r.nodes = {} /\ (req[p].names = <<>> => \E i \in DOMAIN req[p].todo : req[p].todo[i] = c)
      BY <1>1, <1>2, <2>8, <3>1, Zenon DEF Informed
    <3>3. ASSUME r.names = <<>>
          PROVE  \E i \in DOMAIN r.todo : r.todo[i] = c
      <4>1. ~Local(v) /\ req[p].names = <<>>
        BY <2>5, <2>7, <2>8, <3>1, <3>3, Zenon
      <4>2. PICK i \in DOMAIN req[p].todo : req[p].todo[i] = c
        BY <3>2, <4>1, Zenon
      <4>3. i # 1
        BY <2>2, <4>1, <4>2, Zenon DEF Durable
      <4> QED
        BY <2>2, <2>8, <4>2, <4>3, ZenonT(60)
    <3> QED
      BY <3>2, <3>3, Zenon
  <2> HIDE DEF v
  <2> QED
    BY <1>1, <1>2, <2>1, <2>6, <2>8, <2>9, <2>10, RequestGoesOn, Zenon
<1> QED
  BY <1>3, <1>4, Zenon

\* All volumes are read.
LEMMA HandleVolumesDoneStep ==
  ASSUME AdmissionInv, NEW p \in Pods, HandleVolumesDone(p), UNCHANGED managerVars
  PROVE  AdmissionInv'
<1> DEFINE r == [req[p] EXCEPT !.step = "pvs"]
<1>1. pod[p] = "asked" /\ req[p].step = "volumes" /\ req[p].todo = <<>>
  BY Zenon DEF HandleVolumesDone, Reading
<1>2. /\ req[p] \in Reqs
      /\ \A i \in DOMAIN req[p].todo : req[p].todo[i] \in UsedClaims(p) \cup {Ephemeral}
      /\ \A i \in DOMAIN req[p].names :
           req[p].names[i] \in {c \in UsedClaims(p) : Local(c)} \cup {None}
      /\ req[p].mode = "durability" => \E c \in UsedClaims(p) : Durable(c)
      /\ Informed(p, req[p], p \in blind)
  BY <1>1, RequestFacts, Zenon
<1>3. ~(\E i \in DOMAIN req[p].todo : TRUE)
  BY <1>1
<1>4. CASE req[p].names = <<>>
  <2>1. p \in blind \/ \A c \in UsedClaims(p) : ~(Durable(c) /\ Plain(p))
    BY <1>1, <1>2, <1>3, <1>4, Zenon DEF Informed
  <2> QED
    BY <1>1, <1>4, <2>1, RequestEnds, Zenon DEF HandleVolumesDone, Allow, SetPod
<1>5. CASE req[p].names # <<>>
  <2>1. req' = [req EXCEPT ![p] = r] /\ UNCHANGED <<objectVars, pod, required, preferred, at, blind>>
    BY <1>5, Zenon DEF HandleVolumesDone
  <2>2. /\ r \in Reqs /\ r.todo = req[p].todo /\ r.names = req[p].names
        /\ r.nodes = req[p].nodes /\ r.mode = req[p].mode /\ r.step = "pvs"
    BY <1>2, ReqUpdates, Zenon DEF Reqs
  <2> HIDE DEF r
  <2>3. Informed(p, r, p \in blind')
    BY <1>2, <1>5, <2>1, <2>2, Zenon DEF Informed
  <2> QED
    BY <1>1, <1>2, <2>1, <2>2, <2>3, RequestGoesOn, Zenon
<1> QED
  BY <1>4, <1>5, Zenon

\* The one local volume of a plain pod.
LEMMA PlainPod ==
  ASSUME NEW p \in Pods, Plain(p),
         NEW c \in UsedClaims(p), NEW d \in UsedClaims(p), Local(c), Local(d)
  PROVE  c = d /\ OwnTerms[p] = {}
BY DEF Plain

\* The handler reads one persistent volume.
LEMMA GetPvNodesStep ==
  ASSUME AdmissionInv, NEW p \in Pods, GetPvNodesAndFailoverMode(p), UNCHANGED managerVars
  PROVE  AdmissionInv'
<1> DEFINE c == Head(req[p].names)
           found == c # None /\ seenPV[c] # None
           N == IF found THEN req[p].nodes \cup {NodeOf(seenPV[c])} ELSE req[p].nodes
           m == IF found THEN FailoverMode(c) ELSE "availability"
           r == [req[p] EXCEPT !.names = Tail(@), !.nodes = N, !.mode = m]
<1>1. pod[p] = "asked" /\ req[p].step = "pvs" /\ req[p].names # <<>>
  BY Zenon DEF GetPvNodesAndFailoverMode, Reading
<1>2. /\ req[p] \in Reqs
      /\ req[p].names \in Seq(Claims \cup {None}) /\ req[p].nodes \subseteq Nodes
      /\ \A i \in DOMAIN req[p].todo : req[p].todo[i] \in UsedClaims(p) \cup {Ephemeral}
      /\ \A i \in DOMAIN req[p].names :
           req[p].names[i] \in {d \in UsedClaims(p) : Local(d)} \cup {None}
      /\ Informed(p, req[p], p \in blind)
  BY <1>1, RequestFacts, Zenon
<1>3. /\ req' = [req EXCEPT ![p] = r]
      /\ blind' = (IF ~found THEN blind \cup {p} ELSE blind)
      /\ UNCHANGED <<objectVars, pod, required, preferred, at>>
  BY Zenon DEF GetPvNodesAndFailoverMode, NoteBlind
<1>4. /\ Tail(req[p].names) \in Seq(Claims \cup {None})
      /\ 1 \in DOMAIN req[p].names /\ c = req[p].names[1]
      /\ \A i \in DOMAIN Tail(req[p].names) :
           i + 1 \in DOMAIN req[p].names /\ Tail(req[p].names)[i] = req[p].names[i + 1]
  BY <1>1, <1>2, TailElements, Zenon
<1>5. c # None => c \in UsedClaims(p) /\ c \in Claims /\ Local(c)
  BY <1>2, <1>4, Zenon DEF UsedClaims
<1>6. found => seenPV[c] \in Volumes /\ NodeOf(seenPV[c]) \in Nodes
  BY <1>5, NodeOfType, Zenon DEF AdmissionInv, TypeOK, ObjectsTypeOK
<1> HIDE DEF c
<1>7. N \in SUBSET Nodes /\ m \in {"availability", "durability"}
  BY <1>2, <1>6 DEF FailoverMode
<1>8. m = "durability" => \E d \in UsedClaims(p) : Durable(d)
  BY <1>5, ZenonT(60) DEF FailoverMode, Durable
<1>9. found => N = req[p].nodes \cup {NodeOf(seenPV[c])} /\ m = FailoverMode(c)
  BY ZenonT(60)
<1> HIDE DEF N, m
<1>10. /\ r \in Reqs /\ r.names = Tail(req[p].names) /\ r.todo = req[p].todo
       /\ r.nodes = N /\ r.mode = m /\ r.step = "pvs"
  BY <1>1, <1>2, <1>4, <1>7, ReqUpdates, ZenonT(60) DEF Reqs
<1> HIDE DEF r
<1>11. \A i \in DOMAIN r.names : r.names[i] \in {d \in UsedClaims(p) : Local(d)} \cup {None}
  BY <1>2, <1>4, <1>10, Zenon
<1>12. Informed(p, r, p \in blind')
  <2> SUFFICES ASSUME NEW d \in UsedClaims(p), Durable(d), Plain(p), p \notin blind'
               PROVE  /\ N # {} /\ m = "durability" /\ pv[d] # None
                      /\ Kept(d) => N \subseteq {pv[d].initial}
    BY <1>10, Zenon DEF Informed
  <2>1. found /\ p \notin blind
    BY <1>3, Zenon
  <2>2. c = d /\ d \in Claims
    BY <1>5, <2>1, PlainPod, Zenon DEF Durable
  <2>3. N = req[p].nodes \cup {NodeOf(seenPV[d])} /\ m = "durability"
    BY <1>9, <2>1, <2>2, Zenon DEF FailoverMode, Durable
  <2>4. pv[d] # None
    BY <2>1, <2>2, Zenon DEF AdmissionInv, VolumesBound
  <2>5. Kept(d) => NodeOf(seenPV[d]) = pv[d].initial
    BY <2>1, <2>2, Zenon DEF AdmissionInv, DurableKept
  <2>6. Kept(d) => req[p].nodes \subseteq {pv[d].initial}
    BY <1>2, <2>1, Zenon DEF Informed
  <2> QED
    BY <2>3, <2>4, <2>5, <2>6, Zenon
<1> QED
  BY <1>1, <1>2, <1>3, <1>8, <1>10, <1>11, <1>12, RequestGoesOn, Zenon

\* The handler adds what it has found to the pod.
LEMMA PatchPodStep ==
  ASSUME AdmissionInv, NEW p \in Pods, PatchPodWithNodeAffinity(p), UNCHANGED managerVars
  PROVE  AdmissionInv'
<1> DEFINE term == IF req[p].nodes = {} THEN {} ELSE {req[p].nodes}
<1>1. pod[p] = "asked" /\ req[p].step = "pvs" /\ req[p].names = <<>>
  BY Zenon DEF PatchPodWithNodeAffinity, Reading
<1>2. /\ req[p].nodes \subseteq Nodes
      /\ req[p].mode = "durability" => \E c \in UsedClaims(p) : Durable(c)
      /\ Informed(p, req[p], p \in blind)
  BY <1>1, RequestFacts, Zenon
<1>3. /\ pod \in [Pods -> {"new", "asked", "admitted", "denied", "placed", "staged"}]
      /\ req \in [Pods -> Reqs]
      /\ required \in [Pods -> SUBSET SUBSET Nodes] /\ preferred \in [Pods -> SUBSET SUBSET Nodes]
  BY Zenon DEF AdmissionInv, TypeOK, PodsTypeOK
<1>4. at[p] = None /\ required[p] = OwnTerms[p]
  BY <1>1, NoNodeYet, Zenon
<1>5. /\ pod' = [pod EXCEPT ![p] = "admitted"] /\ req' = [req EXCEPT ![p] = NoReq]
      /\ UNCHANGED <<at, blind, objectVars>>
      /\ IF req[p].mode = "durability"
           THEN required' = [required EXCEPT ![p] = @ \cup term] /\ preferred' = preferred
           ELSE preferred' = [preferred EXCEPT ![p] = @ \cup term] /\ required' = required
  BY Zenon DEF PatchPodWithNodeAffinity, SetPod
<1>6. term \subseteq SUBSET Nodes /\ (req[p].nodes # {} => term = {req[p].nodes})
  BY <1>2, Zenon
<1> HIDE DEF term
<1>7. pod'[p] = "admitted" /\ req'[p] = NoReq
  BY <1>3, <1>5, Zenon
<1>8. required'[p] = (IF req[p].mode = "durability" THEN OwnTerms[p] \cup term ELSE OwnTerms[p])
  BY <1>3, <1>4, <1>5, Zenon
<1>9. PodOnly(p)
  BY <1>3, <1>4, <1>5, Zenon DEF PodOnly
<1>10. PodsTypeOK'
  <2>1. required' \in [Pods -> SUBSET SUBSET Nodes] /\ preferred' \in [Pods -> SUBSET SUBSET Nodes]
    BY <1>3, <1>5, <1>6
  <2> QED
    BY <1>3, <1>5, <2>1, NoReqFacts, Zenon DEF PodsTypeOK, AdmissionInv, TypeOK
<1>11. \A c \in UsedClaims(p) : /\ Durable(c)' <=> Durable(c)
                                /\ Kept(c)' <=> Kept(c)
                                /\ pv'[c] = pv[c]
  BY <1>9, SameVolumes, Zenon DEF UsedClaims
<1>12. (Plain(p)' <=> Plain(p)) /\ blind' = blind
  BY <1>5, <1>9, SameVolumes, Zenon
<1>13. ASSUME NEW c \in UsedClaims(p), Durable(c), Plain(p), p \notin blind
       PROVE  req[p].nodes # {} /\ req[p].mode = "durability" /\ pv[c] # None
  BY <1>1, <1>2, <1>13, Zenon DEF Informed
<1>14. RequestKnows(p)'
  <2>1. DOMAIN NoReq.todo = {} /\ DOMAIN NoReq.names = {}
    BY NoReqFacts
  <2> QED
    BY <1>7, <1>11, <1>12, <1>13, <2>1, NoReqFacts, Zenon DEF RequestKnows
<1>15. PodKnows(p)'
  <2>1. ASSUME NEW c \in UsedClaims(p), Kept(c), Plain(p), p \notin blind
        PROVE  required'[p] = {{pv[c].initial}}
    <3>1. Durable(c) /\ OwnTerms[p] = {}
      BY <2>1, Zenon DEF Kept, Plain
    <3>2. req[p].nodes # {} /\ req[p].mode = "durability"
      BY <1>13, <2>1, <3>1, Zenon
    <3>3. req[p].nodes = {pv[c].initial}
      BY <1>2, <2>1, <3>1, <3>2, Zenon DEF Informed
    <3> QED
      BY <1>6, <1>8, <3>1, <3>2, <3>3, Zenon
  <2>2. "admitted" \in Created /\ at'[p] = None
    BY <1>4, <1>5, Zenon DEF Created
  <2>3. req'[p].nodes = {}
    BY <1>7, NoReqFacts, Zenon
  <2> QED
    BY <1>7, <1>11, <1>12, <2>1, <2>2, <2>3, Zenon DEF PodKnows
<1>16. Unblocked(p)'
  BY <1>2, <1>8, <1>11, Zenon DEF Unblocked
<1> QED
  BY <1>9, <1>10, <1>14, <1>15, <1>16, PodFrame, Zenon

-----------------------------------------------------------------------------
(* Steps of the manager, its cache and the claims *)

\* A step that touches neither pods nor volumes.
LEMMA Undisturbed ==
  ASSUME AdmissionInv, UNCHANGED <<spec, pv, podVars>>,
         TypeOK', VolumesBound', OnlyEphemeralClaims',
         \A c \in Claims : Kept(c) /\ seenPV'[c] # None => NodeOf(seenPV'[c]) = pv[c].initial
  PROVE  AdmissionInv'
<1>1. /\ spec' = spec /\ pv' = pv /\ pod' = pod /\ req' = req /\ required' = required
      /\ at' = at /\ blind' = blind
  BY Zenon DEF podVars
<1>2. \A c : (Local(c)' <=> Local(c)) /\ (Durable(c)' <=> Durable(c))
  BY <1>1, Zenon DEF Durable, Local
<1>3. \A p : Plain(p)' <=> Plain(p)
  BY <1>1, Zenon DEF Plain, Local
<1>4. \A c : Strays(c)' = Strays(c)
  BY <1>1, Zenon DEF Strays, Uses
<1>5. \A c : Kept(c)' <=> Kept(c)
  BY <1>1, <1>2, <1>3, <1>4, Zenon DEF Kept, OnlyPlainStrays
<1>6. ASSUME NEW p \in Pods PROVE RequestKnows(p)'
  <2>1. RequestKnows(p)
    BY Zenon DEF AdmissionInv
  <2> QED
    BY <1>1, <1>2, <1>3, <2>1, SameRequest, Zenon
<1>7. \A p \in Pods : PodKnows(p)'
  BY <1>1, <1>3, <1>5, Zenon DEF AdmissionInv, PodKnows
<1>8. \A c \in Claims : DurableKept(c)'
  BY <1>1, <1>4, <1>5, Zenon DEF AdmissionInv, DurableKept, NodeOf
<1>9. AvailabilityNeverBlocks'
  BY <1>1, <1>2, Zenon DEF AdmissionInv, AvailabilityNeverBlocks
<1> QED
  BY <1>6, <1>7, <1>8, <1>9 DEF AdmissionInv

\* The manager gets started, or nothing happens.
LEMMA ManagerStartsStep ==
  ASSUME AdmissionInv, ManagerStarts \/ UNCHANGED vars
  PROVE  AdmissionInv'
<1>1. UNCHANGED <<objectVars, podVars>>
  BY Zenon DEF ManagerStarts, vars
<1>2. ManagerTypeOK'
  BY Zenon DEF AdmissionInv, TypeOK, ManagerTypeOK, ManagerStarts, CertsReady, RegisterHandler,
         ServerStarts, Probe, Added, Handlers, vars, managerVars
<1>3. TypeOK'
  BY <1>1, <1>2, Zenon DEF AdmissionInv, TypeOK, ObjectsTypeOK, PodsTypeOK, objectVars, podVars
<1>4. VolumesBound'
  BY <1>1, Zenon DEF AdmissionInv, VolumesBound, objectVars, podVars, Uses, Local
<1>5. OnlyEphemeralClaims'
  BY <1>1, Zenon DEF AdmissionInv, OnlyEphemeralClaims, objectVars, Exists, Local, Excused
<1>6. \A c \in Claims : Kept(c) /\ seenPV'[c] # None => NodeOf(seenPV'[c]) = pv[c].initial
  BY <1>1, Zenon DEF AdmissionInv, DurableKept, objectVars
<1> QED
  BY <1>1, <1>3, <1>4, <1>5, <1>6, Undisturbed, Zenon DEF objectVars

\* An object of the cache catches up.
LEMMA CacheSyncsStep ==
  ASSUME AdmissionInv, CacheSyncs
  PROVE  AdmissionInv'
<1>1. /\ UNCHANGED <<managerVars, podVars, spec, claim, pv, unchecked>>
      /\ spec \in [Claims -> Specs] /\ seenPV \in [Claims -> Volumes \cup {None}]
      /\ claim \in [Claims -> {"new", "asked", "denied", "unbound", "bound"}]
      /\ pv \in [Claims -> Volumes \cup {None}]
      /\ seenClaim \in [Claims -> {"absent", "unbound", "bound"}] /\ seenClass \in BOOLEAN
  BY DEF CacheSyncs, Sync, AdmissionInv, TypeOK, ObjectsTypeOK
<1>2. \A c \in Claims : seenPV'[c] = seenPV[c] \/ seenPV'[c] = pv[c]
  BY <1>1, Zenon DEF CacheSyncs, Sync
<1>3. /\ seenPV' \in [Claims -> Volumes \cup {None}]
      /\ seenClaim' \in [Claims -> {"absent", "unbound", "bound"}] /\ seenClass' \in BOOLEAN
  BY <1>1, Zenon DEF CacheSyncs, Sync, Exists
<1>4. TypeOK'
  BY <1>1, <1>3, Zenon DEF AdmissionInv, TypeOK, ManagerTypeOK, ObjectsTypeOK, PodsTypeOK,
                    managerVars, podVars
<1>5. VolumesBound'
  BY <1>1, <1>2, Zenon DEF AdmissionInv, VolumesBound, podVars, Uses, Local
<1>6. OnlyEphemeralClaims'
  BY <1>1, Zenon DEF AdmissionInv, OnlyEphemeralClaims, Exists, Local, Excused
<1>7. \A c \in Claims : Kept(c) /\ seenPV'[c] # None => NodeOf(seenPV'[c]) = pv[c].initial
  BY <1>2, Zenon DEF AdmissionInv, DurableKept
<1> QED
  BY <1>1, <1>4, <1>5, <1>6, <1>7, Undisturbed, Zenon

\* A claim is sent to the API server, or its request ends.
LEMMA ClaimStepStep ==
  ASSUME AdmissionInv, NEW c \in Claims, ClaimStep(c)
  PROVE  AdmissionInv'
<1>1. /\ UNCHANGED <<managerVars, podVars, spec, pv, seenClaim, seenPV, seenClass>>
      /\ claim \in [Claims -> {"new", "asked", "denied", "unbound", "bound"}]
      /\ unchecked \subseteq Claims
  BY Zenon DEF ClaimStep, CreateClaim, HandleClaim, HandleClaimFails, AdmissionInv, TypeOK, ObjectsTypeOK
<1>2. /\ claim[c] \in {"new", "asked"}
      /\ \E s \in {"asked", "unbound", "denied"} : claim' = [claim EXCEPT ![c] = s]
  BY Zenon DEF ClaimStep, CreateClaim, HandleClaim, HandleClaimFails, AdmitClaim
<1>3. unchecked \subseteq unchecked' /\ unchecked' \subseteq unchecked \cup {c}
  BY Zenon DEF ClaimStep, CreateClaim, HandleClaim, HandleClaimFails, AdmitClaim
<1>4. claim'[c] = "unbound" /\ Local(c) /\ ~Excused(c) => c \in unchecked'
  BY <1>1, Zenon DEF ClaimStep, CreateClaim, HandleClaim, HandleClaimFails, AdmitClaim
<1>5. /\ claim' \in [Claims -> {"new", "asked", "denied", "unbound", "bound"}]
      /\ claim'[c] \in {"asked", "unbound", "denied"}
      /\ \A d \in Claims \ {c} : claim'[d] = claim[d]
  BY <1>1, <1>2, Zenon
<1>6. TypeOK'
  BY <1>1, <1>3, <1>5, Zenon DEF AdmissionInv, TypeOK, ManagerTypeOK, ObjectsTypeOK, PodsTypeOK,
                          managerVars, podVars
<1>7. VolumesBound'
  <2>1. \A d \in Claims : claim'[d] = "bound" <=> claim[d] = "bound"
    BY <1>2, <1>5, Zenon
  <2> QED
    BY <1>1, <2>1, Zenon DEF AdmissionInv, VolumesBound, podVars, Uses, Local
<1>8. OnlyEphemeralClaims'
  BY <1>1, <1>3, <1>4, <1>5, Zenon DEF AdmissionInv, OnlyEphemeralClaims, Exists, Local, Excused
<1>9. \A d \in Claims : Kept(d) /\ seenPV'[d] # None => NodeOf(seenPV'[d]) = pv[d].initial
  BY <1>1, Zenon DEF AdmissionInv, DurableKept
<1> QED
  BY <1>1, <1>6, <1>7, <1>8, <1>9, Undisturbed, Zenon

\* The manager crashes: its requests end without a look at the volumes.
LEMMA ManagerCrashesStep ==
  ASSUME AdmissionInv, ManagerCrashes
  PROVE  AdmissionInv'
<1>1. /\ UNCHANGED <<spec, pv, required, preferred, at>> /\ seenPV' = pv /\ seenClass' = TRUE
      /\ req' = [p \in Pods |-> NoReq]
      /\ pod' = [p \in Pods |-> IF pod[p] = "asked" THEN "admitted" ELSE pod[p]]
      /\ blind' = blind \cup {p \in Pods : pod[p] = "asked"}
      /\ claim' = [c \in Claims |-> IF claim[c] = "asked" THEN "unbound" ELSE claim[c]]
      /\ unchecked' = unchecked \cup {c \in Claims : claim[c] = "asked"}
  BY Zenon DEF ManagerCrashes
<1>2. \A p \in Pods : RequestKnows(p) /\ PodKnows(p)
  BY Zenon DEF AdmissionInv
<1>3. TypeOK'
  <2>1. ManagerTypeOK'
    <3>1. crashes \in 0..MaxCrashes /\ crashes < MaxCrashes /\ crashes' = crashes + 1
      BY Zenon DEF AdmissionInv, TypeOK, ManagerTypeOK, ManagerCrashes, ManagerCrash
    <3>2. crashes' \in 0..MaxCrashes
      BY <3>1, CrashesAssumption
    <3>3. certs' = FALSE /\ registered' = {} /\ server' = "off" /\ ready' = FALSE
      BY Zenon DEF ManagerCrashes, ManagerCrash
    <3> QED
      BY <3>2, <3>3, Zenon DEF ManagerTypeOK
  <2>2. ObjectsTypeOK'
    <3>1. seenClaim' \in [Claims -> {"absent", "unbound", "bound"}]
      BY <1>1, Zenon DEF ManagerCrashes
    <3> QED
      BY <1>1, <3>1, Zenon DEF AdmissionInv, TypeOK, ObjectsTypeOK
  <2>3. PodsTypeOK'
    BY <1>1, NoReqFacts, Zenon DEF AdmissionInv, TypeOK, PodsTypeOK
  <2> QED
    BY <2>1, <2>2, <2>3, Zenon DEF TypeOK
<1>4. \A c : (Local(c)' <=> Local(c)) /\ (Durable(c)' <=> Durable(c))
  BY <1>1, Zenon DEF Durable, Local
<1>5. \A p : Plain(p)' <=> Plain(p)
  BY <1>1, Zenon DEF Plain, Local
<1>6. \A c : Strays(c)' = Strays(c)
  BY <1>1, Zenon DEF Strays, Uses
<1>7. \A c \in Claims : Kept(c)' <=> Kept(c)
  <2>1. \A c \in Claims : \A p \in Strays(c) : p \in Pods /\ pod[p] # "asked"
    BY <1>2, Zenon DEF Strays, Uses, PodKnows
  <2>2. \A c \in Claims : \A p \in Strays(c) : p \in blind' <=> p \in blind
    BY <1>1, <2>1, Zenon
  <2> QED
    BY <1>1, <1>4, <1>5, <1>6, <2>2 DEF Kept, OnlyPlainStrays
<1>8. \A p \in Pods : /\ req'[p] = NoReq /\ pod'[p] # "asked"
                      /\ p \notin blind' => p \notin blind /\ pod'[p] = pod[p]
                      /\ pod[p] = "asked" => pod'[p] = "admitted"
                      /\ pod[p] # "asked" => pod'[p] = pod[p]
  BY <1>1, Zenon
<1>9. \A p \in Pods : RequestKnows(p)'
  <2> SUFFICES ASSUME NEW p \in Pods
               PROVE  RequestKnows(p)'
    BY Zenon
  <2>1. DOMAIN NoReq.todo = {} /\ DOMAIN NoReq.names = {}
    BY NoReqFacts
  <2>2. \A c \in UsedClaims(p) :
          Durable(c) /\ Plain(p) /\ p \notin blind /\ pod[p] \in Created => pv[c] # None
    BY <1>2, Zenon DEF RequestKnows
  <2> QED
    BY <1>1, <1>4, <1>5, <1>8, <2>1, <2>2, NoReqFacts, Zenon DEF RequestKnows
<1>10. \A p \in Pods : PodKnows(p)'
  <2> SUFFICES ASSUME NEW p \in Pods
               PROVE  PodKnows(p)'
    BY Zenon
  <2>1. PodKnows(p) /\ at'[p] = at[p] /\ required'[p] = required[p]
    BY <1>1, <1>2, Zenon
  <2>2. at'[p] # None <=> pod'[p] \in {"placed", "staged"}
    BY <1>8, <2>1, Zenon DEF PodKnows
  <2>3. pod'[p] \notin Created => required'[p] = OwnTerms[p]
    BY <1>8, <2>1, Zenon DEF PodKnows, Created
  <2>4. ASSUME NEW c \in UsedClaims(p), Kept(c), Plain(p), p \notin blind'
        PROVE  /\ req'[p].nodes \subseteq {pv[c].initial}
               /\ pod'[p] \in Created => required'[p] = {{pv[c].initial}}
    BY <1>8, <2>1, <2>4, NoReqFacts, Zenon DEF PodKnows
  <2>5. \A c \in UsedClaims(p) : Kept(c)' <=> Kept(c)
    BY <1>7, Zenon DEF UsedClaims
  <2> QED
    BY <1>1, <1>5, <2>2, <2>3, <2>4, <2>5, Zenon DEF PodKnows
<1>11. VolumesBound'
  <2>1. \A c \in Claims : claim'[c] = "bound" <=> claim[c] = "bound"
    BY <1>1, Zenon
  <2> QED
    BY <1>1, <2>1, Zenon DEF AdmissionInv, VolumesBound, Uses, Local
<1>12. \A c \in Claims : DurableKept(c)'
  BY <1>1, <1>6, <1>7, Zenon DEF AdmissionInv, DurableKept, NodeOf
<1>13. AvailabilityNeverBlocks'
  BY <1>1, <1>4, Zenon DEF AdmissionInv, AvailabilityNeverBlocks
<1>14. OnlyEphemeralClaims'
  BY <1>1, Zenon DEF AdmissionInv, OnlyEphemeralClaims, Exists, Local, Excused
<1> QED
  BY <1>3, <1>9, <1>10, <1>11, <1>12, <1>13, <1>14, Zenon DEF AdmissionInv

-----------------------------------------------------------------------------
(* Scheduling and staging *)

\* A pod is scheduled, and the claims that waited for it are bound.
LEMMA ScheduleStep ==
  ASSUME AdmissionInv, NEW p \in Pods, Schedule(p)
  PROVE  AdmissionInv'
<1> DEFINE fresh == {c \in UsedClaims(p) : claim[c] = "unbound"}
<1>1. PICK n \in Eligible(p) :
        /\ at' = [at EXCEPT ![p] = n]
        /\ claim' = [c \in Claims |-> IF c \in fresh THEN "bound" ELSE claim[c]]
        /\ pv' = [c \in Claims |-> IF c \in fresh /\ Local(c)
                                     THEN [initial |-> n, selected |-> None] ELSE pv[c]]
  BY Zenon DEF Schedule
<1>2. /\ pod[p] = "admitted" /\ pod' = [pod EXCEPT ![p] = "placed"]
      /\ \A c \in UsedClaims(p) : claim[c] \in {"unbound", "bound"}
      /\ UNCHANGED <<managerVars, spec, seenClaim, seenPV, seenClass, unchecked,
                     req, required, preferred, blind>>
  BY Zenon DEF Schedule, Exists, SetPod
<1>3. \A q \in Pods : RequestKnows(q) /\ PodKnows(q)
  BY Zenon DEF AdmissionInv
<1>4. n \in Nodes /\ n # None
  BY ClaimAssumption DEF Eligible, AdmissionInv, TypeOK, PodsTypeOK
<1>5. /\ pod \in [Pods -> {"new", "asked", "admitted", "denied", "placed", "staged"}]
      /\ at \in [Pods -> Nodes \cup {None}]
      /\ claim \in [Claims -> {"new", "asked", "denied", "unbound", "bound"}]
      /\ pv \in [Claims -> Volumes \cup {None}]
  BY Zenon DEF AdmissionInv, TypeOK, PodsTypeOK, ObjectsTypeOK
<1> DEFINE v == [initial |-> n, selected |-> None]
<1>6. v \in Volumes /\ v # None /\ v.initial = n /\ NodeOf(v) = n
  BY <1>4, ClaimAssumption DEF Volumes, NodeOf
<1>7. /\ \A c \in fresh : Local(c) => pv'[c] = v
      /\ \A c \in Claims : c \notin fresh \/ ~Local(c) => pv'[c] = pv[c]
      /\ at'[p] = n /\ \A q \in Pods \ {p} : at'[q] = at[q]
      /\ pod'[p] = "placed" /\ \A q \in Pods \ {p} : pod'[q] = pod[q]
      /\ \A c \in Claims : claim'[c] = IF c \in fresh THEN "bound" ELSE claim[c]
  BY <1>1, <1>2, <1>5, Zenon DEF UsedClaims
<1> HIDE DEF v
<1>8. \A c \in fresh : /\ c \in Claims /\ claim[c] = "unbound" /\ pv[c] = None /\ seenPV[c] = None
                       /\ \A q \in Uses(c) : at[q] = None
  BY Zenon DEF UsedClaims, AdmissionInv, VolumesBound
<1>9. \A c \in UsedClaims(p) : c \in fresh \/ claim[c] = "bound"
  BY <1>2, Zenon
<1> HIDE DEF fresh
<1>10. TypeOK'
  <2>1. PodsTypeOK'
    BY <1>2, <1>4, <1>5, <1>1, Zenon DEF AdmissionInv, TypeOK, PodsTypeOK
  <2>2. pv' \in [Claims -> Volumes \cup {None}]
    BY <1>1, <1>5, <1>6, Zenon DEF v
  <2>3. claim' \in [Claims -> {"new", "asked", "denied", "unbound", "bound"}]
    BY <1>1, <1>5, Zenon
  <2>4. ObjectsTypeOK'
    BY <1>2, <2>2, <2>3, Zenon DEF AdmissionInv, TypeOK, ObjectsTypeOK
  <2> QED
    BY <1>2, <2>1, <2>4, Zenon DEF AdmissionInv, TypeOK, ManagerTypeOK, managerVars
<1>11. \A c : (Local(c)' <=> Local(c)) /\ (Durable(c)' <=> Durable(c)) /\ (Excused(c)' <=> Excused(c))
  BY <1>2, Zenon DEF Durable, Local, Excused
<1>12. \A q : Plain(q)' <=> Plain(q)
  BY <1>2, Zenon DEF Plain, Local
<1>13. \A c \in Claims : pv[c] # None => pv'[c] = pv[c]
  BY <1>7, <1>8, Zenon
<1>14. VolumesBound'
  <2> SUFFICES ASSUME NEW c \in Claims
               PROVE  /\ pv'[c] # None <=> claim'[c] = "bound" /\ Local(c)
                      /\ pv'[c] = None => seenPV[c] = None
                      /\ \A q \in Uses(c) : at'[q] # None => claim'[c] = "bound"
    BY <1>2, <1>11, Zenon DEF VolumesBound, Uses
  <2>1. /\ pv[c] # None <=> claim[c] = "bound" /\ Local(c)
        /\ pv[c] = None => seenPV[c] = None
        /\ \A q \in Uses(c) : at[q] # None => claim[c] = "bound"
    BY Zenon DEF AdmissionInv, VolumesBound
  <2>2. pv'[c] # None <=> claim'[c] = "bound" /\ Local(c)
    BY <1>6, <1>7, <2>1, Zenon
  <2>3. pv'[c] = None => seenPV[c] = None
    BY <1>13, <2>1, Zenon
  <2>4. \A q \in Uses(c) : at'[q] # None => claim'[c] = "bound"
    BY <1>7, <1>9, <2>1, Zenon DEF Uses
  <2> QED
    BY <2>2, <2>3, <2>4, Zenon
<1>15. \A q \in Pods : RequestKnows(q)'
  <2> SUFFICES ASSUME NEW q \in Pods
               PROVE  RequestKnows(q)'
    BY Zenon
  <2>1. RequestKnows(q) /\ req'[q] = req[q] /\ blind' = blind
    BY <1>2, <1>3, Zenon
  <2>2. /\ pod'[q] = "asked" <=> pod[q] = "asked"
        /\ pod'[q] \in Created <=> pod[q] \in Created
    BY <1>2, <1>7, Zenon DEF Created
  <2>3. \A c \in UsedClaims(q) : pv[c] # None => pv'[c] # None
    BY <1>13, Zenon DEF UsedClaims
  <2> QED
    BY <1>11, <1>12, <2>1, <2>2, <2>3, SameRequest, Zenon
<1>16. \A c \in Claims : Kept(c)' /\ pv[c] # None => Kept(c)
  <2> SUFFICES ASSUME NEW c \in Claims, Kept(c)', pv[c] # None
               PROVE  Kept(c)
    BY Zenon
  <2>1. at[p] = None
    BY <1>2, <1>3, Zenon DEF PodKnows
  <2>2. Strays(c) \subseteq Strays(c)'
    BY <1>7, <1>13, <2>1, Zenon DEF Strays, Uses
  <2> QED
    BY <1>2, <1>11, <1>12, <2>2, Zenon DEF Kept, OnlyPlainStrays
<1>17. \A c \in Claims : DurableKept(c)'
  <2> SUFFICES ASSUME NEW c \in Claims, Kept(c)'
               PROVE  /\ Strays(c)' = {}
                      /\ NodeOf(pv'[c]) = pv'[c].initial
                      /\ seenPV[c] # None => NodeOf(seenPV[c]) = pv'[c].initial
    BY <1>2, Zenon DEF DurableKept, NodeOf
  <2>0. Local(c) /\ pv'[c] # None
    BY <1>11, ZenonT(60) DEF Kept, Durable
  <2>1. CASE c \in fresh
    <3>1. pv'[c] = v
      BY <1>7, <2>0, <2>1, Zenon
    <3>2. Strays(c)' = {}
      BY <1>6, <1>7, <1>8, <2>1, <3>1 DEF Strays, Uses
    <3> QED
      BY <1>6, <1>8, <2>1, <3>1, <3>2, ZenonT(60)
  <2>2. CASE c \notin fresh
    <3>1. pv'[c] = pv[c] /\ pv[c] # None /\ Kept(c)
      BY <1>7, <1>16, <2>0, <2>2, Zenon
    <3>2. /\ Strays(c) = {} /\ NodeOf(pv[c]) = pv[c].initial
          /\ seenPV[c] # None => NodeOf(seenPV[c]) = pv[c].initial
      BY <3>1, ZenonT(60) DEF AdmissionInv, DurableKept
    <3>3. p \notin Strays(c)'
      <4> SUFFICES ASSUME p \in Strays(c)'
                   PROVE  FALSE
        BY Zenon
      <4>1. c \in UsedClaims(p) /\ n # pv[c].initial
        BY <1>7, <3>1, Zenon DEF Strays, Uses
      <4>2. p \notin blind /\ Plain(p)
        BY <1>2, <1>12, Zenon DEF Kept, OnlyPlainStrays
      <4>3. required[p] = {{pv[c].initial}}
        BY <1>2, <1>3, <3>1, <4>1, <4>2, Zenon DEF PodKnows, Created
      <4> QED
        BY <4>1, <4>3, ZenonT(60) DEF Eligible
    <3>4. Strays(c)' = {}
      BY <1>7, <3>1, <3>2, <3>3, Zenon DEF Strays, Uses
    <3> QED
      BY <3>1, <3>2, <3>4, Zenon
  <2> QED
    BY <2>1, <2>2, Zenon
<1>18. \A q \in Pods : PodKnows(q)'
  <2> SUFFICES ASSUME NEW q \in Pods
               PROVE  PodKnows(q)'
    BY Zenon
  <2>1. PodKnows(q) /\ RequestKnows(q) /\ req'[q] = req[q] /\ blind' = blind /\ required'[q] = required[q]
    BY <1>2, <1>3, Zenon
  <2>2. /\ pod'[q] \in Created <=> pod[q] \in Created
        /\ at'[q] # None <=> pod'[q] \in {"placed", "staged"}
    BY <1>2, <1>4, <1>7, <2>1, Zenon DEF Created, PodKnows
  <2>3. ASSUME NEW c \in UsedClaims(q), Kept(c)', Plain(q), q \notin blind
        PROVE  /\ req[q].nodes \subseteq {pv'[c].initial}
               /\ pod[q] \in Created => required[q] = {{pv'[c].initial}}
    <3>1. c \in Claims /\ Durable(c)
      BY <1>11, <2>3, Zenon DEF UsedClaims, Kept
    <3>2. CASE pv[c] # None
      BY <1>13, <1>16, <2>1, <2>3, <3>1, <3>2, Zenon DEF PodKnows
    <3>3. CASE pv[c] = None
      BY <2>1, <2>3, <3>1, <3>3, Zenon DEF RequestKnows
    <3> QED
      BY <3>2, <3>3, Zenon
  <2> QED
    BY <1>12, <2>1, <2>2, <2>3, Zenon DEF PodKnows
<1>19. AvailabilityNeverBlocks'
  BY <1>2, <1>11, Zenon DEF AdmissionInv, AvailabilityNeverBlocks
<1>20. OnlyEphemeralClaims'
  <2>1. \A c \in Claims : claim'[c] \in {"unbound", "bound"} => claim[c] \in {"unbound", "bound"}
    BY <1>7, <1>8, Zenon
  <2> QED
    BY <1>2, <1>11, <2>1, Zenon DEF AdmissionInv, OnlyEphemeralClaims, Exists
<1> QED
  BY <1>10, <1>14, <1>15, <1>17, <1>18, <1>19, <1>20, Zenon DEF AdmissionInv

\* A staged pod: its local volumes are moved to its node if they are elsewhere,
\* which the volumes that are kept are not.
LEMMA StagePodStep ==
  ASSUME AdmissionInv, NEW p \in Pods, StagePod(p)
  PROVE  AdmissionInv'
<1>1. /\ pod[p] = "placed" /\ pod' = [pod EXCEPT ![p] = "staged"]
      /\ UNCHANGED <<managerVars, spec, claim, seenClaim, seenPV, seenClass, unchecked,
                     req, required, preferred, at, blind>>
  BY Zenon DEF StagePod, SetPod
<1> DEFINE moved == {c \in UsedClaims(p) : Local(c) /\ NodeOf(pv[c]) # at[p]}
<1>2. pv' = [c \in Claims |-> IF c \in moved THEN [pv[c] EXCEPT !.selected = at[p]] ELSE pv[c]]
  BY Zenon DEF StagePod
<1>3. \A q \in Pods : RequestKnows(q) /\ PodKnows(q)
  BY Zenon DEF AdmissionInv
<1>4. /\ pod \in [Pods -> {"new", "asked", "admitted", "denied", "placed", "staged"}]
      /\ at \in [Pods -> Nodes \cup {None}]
      /\ pv \in [Claims -> Volumes \cup {None}]
  BY Zenon DEF AdmissionInv, TypeOK, PodsTypeOK, ObjectsTypeOK
<1>5. at[p] \in Nodes /\ at[p] # None
  BY <1>1, <1>3, <1>4, Zenon DEF PodKnows
<1>6. \A c \in moved : c \in Claims /\ pv[c] \in Volumes /\ pv[c] # None
  <2>1. \A c \in moved : c \in Claims /\ p \in Uses(c)
    BY Zenon DEF UsedClaims, Uses
  <2>2. \A c \in moved : claim[c] = "bound" /\ Local(c)
    BY <1>5, <2>1 DEF AdmissionInv, VolumesBound
  <2> QED
    BY <1>4, <2>1, <2>2, Zenon DEF AdmissionInv, VolumesBound
<1>7. \A v \in Volumes : LET w == [v EXCEPT !.selected = at[p]] IN
        w \in Volumes /\ w # None /\ w.initial = v.initial
  BY <1>5, ClaimAssumption, Zenon DEF Volumes
<1>8. \A c \in moved : pv'[c] \in Volumes /\ pv'[c] # None /\ pv'[c].initial = pv[c].initial
  BY <1>2, <1>6, <1>7, Zenon
<1>9. \A c \in Claims \ moved : pv'[c] = pv[c]
  BY <1>2, Zenon
<1> HIDE DEF moved
<1>10. \A c \in Claims : /\ pv'[c] # None <=> pv[c] # None
                         /\ pv[c] # None => pv'[c].initial = pv[c].initial
  BY <1>6, <1>8, <1>9, Zenon
<1>11. /\ pod'[p] = "staged" /\ \A q \in Pods \ {p} : pod'[q] = pod[q]
       /\ \A q \in Pods : /\ pod'[q] \in Created <=> pod[q] \in Created
                          /\ pod'[q] = "asked" <=> pod[q] = "asked"
                          /\ pod'[q] \in {"placed", "staged"} <=> pod[q] \in {"placed", "staged"}
  BY <1>1, <1>4, Zenon DEF Created
<1>12. \A c : (Local(c)' <=> Local(c)) /\ (Durable(c)' <=> Durable(c)) /\ (Excused(c)' <=> Excused(c))
  BY <1>1, Zenon DEF Durable, Local, Excused
<1>13. \A q : Plain(q)' <=> Plain(q)
  BY <1>1, Zenon DEF Plain, Local
<1>14. TypeOK'
  <2>1. PodsTypeOK'
    BY <1>1, <1>4, Zenon DEF AdmissionInv, TypeOK, PodsTypeOK
  <2>2. pv' \in [Claims -> Volumes \cup {None}]
    <3>1. \A c \in Claims : pv'[c] \in Volumes \cup {None}
      BY <1>4, <1>8, <1>9, Zenon
    <3> QED
      BY <1>2, <3>1, Zenon
  <2>3. ObjectsTypeOK'
    BY <1>1, <2>2, Zenon DEF AdmissionInv, TypeOK, ObjectsTypeOK
  <2> QED
    BY <1>1, <2>1, <2>3, Zenon DEF AdmissionInv, TypeOK, ManagerTypeOK, managerVars
<1>15. VolumesBound'
  BY <1>1, <1>10, <1>12, Zenon DEF AdmissionInv, VolumesBound, Uses
<1>16. \A c \in Claims : pv[c] # None => Strays(c)' = Strays(c)
  BY <1>1, <1>10, Zenon DEF Strays, Uses
<1>17. \A c \in Claims : Kept(c)' <=> Kept(c)
  BY <1>1, <1>10, <1>12, <1>13, <1>16, Zenon DEF Kept, OnlyPlainStrays
<1>18. \A c \in Claims : DurableKept(c)'
  <2> SUFFICES ASSUME NEW c \in Claims, Kept(c)
               PROVE  /\ Strays(c)' = {}
                      /\ NodeOf(pv'[c]) = pv'[c].initial
                      /\ seenPV[c] # None => NodeOf(seenPV[c]) = pv'[c].initial
    BY <1>1, <1>17, Zenon DEF DurableKept, NodeOf
  <2>1. /\ pv[c] # None /\ Strays(c) = {} /\ NodeOf(pv[c]) = pv[c].initial
        /\ seenPV[c] # None => NodeOf(seenPV[c]) = pv[c].initial
    BY Zenon DEF AdmissionInv, DurableKept, Kept
  <2>2. c \notin moved
    BY <1>5, <2>1, Zenon DEF moved, Strays, Uses
  <2> QED
    BY <1>9, <1>16, <2>1, <2>2, Zenon
<1>19. \A q \in Pods : RequestKnows(q)'
  <2> SUFFICES ASSUME NEW q \in Pods
               PROVE  RequestKnows(q)'
    BY Zenon
  <2>1. RequestKnows(q) /\ req'[q] = req[q] /\ blind' = blind
    BY <1>1, <1>3, Zenon
  <2>2. \A c \in UsedClaims(q) : pv[c] # None <=> pv'[c] # None
    BY <1>10, Zenon DEF UsedClaims
  <2> QED
    BY <1>11, <1>12, <1>13, <2>1, <2>2, SameRequest, Zenon
<1>20. \A q \in Pods : PodKnows(q)'
  <2> SUFFICES ASSUME NEW q \in Pods
               PROVE  PodKnows(q)'
    BY Zenon
  <2>1. PodKnows(q) /\ req'[q] = req[q] /\ blind' = blind /\ required'[q] = required[q] /\ at'[q] = at[q]
    BY <1>1, <1>3, Zenon
  <2>2. \A c \in UsedClaims(q) : /\ Kept(c)' <=> Kept(c)
                                 /\ Kept(c) => pv'[c].initial = pv[c].initial
    BY <1>10, <1>17, Zenon DEF UsedClaims, Kept
  <2> QED
    BY <1>11, <1>13, <2>1, <2>2, Zenon DEF PodKnows
<1>21. AvailabilityNeverBlocks'
  BY <1>1, <1>12, Zenon DEF AdmissionInv, AvailabilityNeverBlocks
<1>22. OnlyEphemeralClaims'
  BY <1>1, <1>12, Zenon DEF AdmissionInv, OnlyEphemeralClaims, Exists
<1> QED
  BY <1>14, <1>15, <1>18, <1>19, <1>20, <1>21, <1>22, Zenon DEF AdmissionInv

-----------------------------------------------------------------------------
(* The theorems *)

LEMMA AdmissionInit == Init => AdmissionInv
<1> SUFFICES ASSUME Init
             PROVE  AdmissionInv
  BY Zenon
<1>1. /\ pod = [p \in Pods |-> "new"] /\ req = [p \in Pods |-> NoReq]
      /\ required = OwnTerms /\ preferred = [p \in Pods |-> {}]
      /\ at = [p \in Pods |-> None] /\ blind = {}
  BY Zenon DEF Init, PodsInit
<1>2. /\ claim = [c \in Claims |-> "new"] /\ pv = [c \in Claims |-> None]
      /\ seenClaim = [c \in Claims |-> "absent"] /\ seenPV = [c \in Claims |-> None]
      /\ seenClass \in BOOLEAN /\ unchecked = {}
  BY Zenon DEF Init, ObjectsInit
<1>3. ManagerTypeOK
  <2>1. crashes \in 0..MaxCrashes
    BY CrashesAssumption DEF Init, ManagerInit
  <2> QED
    BY <2>1, Zenon DEF Init, ManagerInit, ManagerTypeOK
<1>4. spec \in [Claims -> Specs]
  BY ClaimAssumption, Zenon DEF Init, ObjectsInit
<1>5. ObjectsTypeOK
  BY <1>2, <1>4, Zenon DEF ObjectsTypeOK
<1>6. PodsTypeOK
  BY <1>1, NoReqFacts, PodAssumption, Zenon DEF PodsTypeOK
<1>7. VolumesBound
  BY <1>1, <1>2, Zenon DEF VolumesBound, Uses
<1>8. \A p \in Pods : RequestKnows(p) /\ PodKnows(p)
  <2> SUFFICES ASSUME NEW p \in Pods
               PROVE  RequestKnows(p) /\ PodKnows(p)
    BY Zenon
  <2>1. /\ pod[p] = "new" /\ req[p] = NoReq /\ required[p] = OwnTerms[p] /\ at[p] = None
        /\ pod[p] \notin Created
    BY <1>1, Zenon DEF Created
  <2>2. RequestKnows(p)
    BY <2>1, NoReqFacts DEF RequestKnows
  <2>3. PodKnows(p)
    BY <2>1, NoReqFacts, Zenon DEF PodKnows
  <2> QED
    BY <2>2, <2>3, Zenon
<1>9. \A c \in Claims : DurableKept(c)
  BY <1>2, Zenon DEF DurableKept, Kept
<1>10. AvailabilityNeverBlocks /\ OnlyEphemeralClaims
  BY <1>1, <1>2, Zenon DEF AvailabilityNeverBlocks, OnlyEphemeralClaims, Exists
<1> QED
  BY <1>3, <1>5, <1>6, <1>7, <1>8, <1>9, <1>10 DEF AdmissionInv, TypeOK

LEMMA PodStepStep ==
  ASSUME AdmissionInv, NEW p \in Pods, PodStep(p)
  PROVE  AdmissionInv'
<1>1. UNCHANGED managerVars
  BY Zenon DEF PodStep
<1>2. CASE CreatePod(p, Reached("pod"))
  BY <1>1, <1>2, CreatePodStep, Zenon
<1>3. CASE HandlePodFails(p)
  BY <1>1, <1>3, HandlePodFailsStep, Zenon
<1>4. CASE PodHandlerStep(p)
  BY <1>1, <1>4, HandleVolumeStep, HandleVolumesDoneStep, GetPvNodesStep, PatchPodStep, Zenon
     DEF PodHandlerStep
<1> QED
  BY <1>2, <1>3, <1>4, Zenon DEF PodStep

\* AdmissionInv holds in every state: what the cache, a request and a pod know
\* of the volumes at every step of Handle, of the binding of claims, of the
\* scheduler and of NodeStageVolume, with crashes of the manager anywhere.
THEOREM AdmissionInvariant == Spec => []AdmissionInv
<1>1. AdmissionInv /\ [Next]_vars => AdmissionInv'
  <2> SUFFICES ASSUME AdmissionInv, [Next]_vars
               PROVE  AdmissionInv'
    BY Zenon
  <2>1. CASE ManagerStarts \/ UNCHANGED vars
    BY <2>1, ManagerStartsStep, Zenon
  <2>2. CASE ManagerCrashes
    BY <2>2, ManagerCrashesStep, Zenon
  <2>3. CASE CacheSyncs
    BY <2>3, CacheSyncsStep, Zenon
  <2>4. ASSUME NEW c \in Claims, ClaimStep(c)
        PROVE  AdmissionInv'
    BY <2>4, ClaimStepStep, Zenon
  <2>5. ASSUME NEW p \in Pods, PodStep(p) \/ Schedule(p) \/ StagePod(p)
        PROVE  AdmissionInv'
    BY <2>5, PodStepStep, ScheduleStep, StagePodStep, Zenon
  <2> QED
    BY <2>1, <2>2, <2>3, <2>4, <2>5, Zenon DEF Next
<1> QED
  BY <1>1, AdmissionInit, PTL DEF Spec

\* A volume in durability mode stays where it was made and its pods go there,
\* unless a pod strays that the webhook could not have kept from it: Handle of
\* the pod webhook works, although it reads a cache that lags.
THEOREM DurableFollows == Spec => []DurablePodFollowsVolume
<1>1. AdmissionInv => DurablePodFollowsVolume
  BY Zenon DEF AdmissionInv, DurableKept, DurablePodFollowsVolume
<1> QED
  BY <1>1, AdmissionInvariant, PTL

\* patchPodWithNodeAffinity requires nodes only of pods with a volume in
\* durability mode.
THEOREM NeverBlocked == Spec => []AvailabilityNeverBlocks
<1>1. AdmissionInv => AvailabilityNeverBlocks
  BY Zenon DEF AdmissionInv
<1> QED
  BY <1>1, AdmissionInvariant, PTL

\* The claim webhook lets no claim of this driver pass that is neither
\* annotated nor owned by a pod, unless it was not asked or did not know the
\* class.
THEOREM EphemeralOnly == Spec => []OnlyEphemeralClaims
<1>1. AdmissionInv => OnlyEphemeralClaims
  BY Zenon DEF AdmissionInv
<1> QED
  BY <1>1, AdmissionInvariant, PTL

\* Durability mode holds as the user guide states it in a cluster whose pods
\* bring no affinity terms of their own and no second claim: Handle then ends
\* with the volume's node as the only term, or with the pod in blind.
THEOREM DurabilityForPlainPods ==
  ASSUME \A p \in Pods : /\ OwnTerms[p] = {}
                         /\ \A c, d \in UsedClaims(p) : c = d
  PROVE  Spec => []DurabilityEnforced
<1>1. AdmissionInv => DurabilityEnforced
  <2> SUFFICES ASSUME AdmissionInv, NEW c \in Claims, Durable(c), pv[c] # None,
                      Strays(c) \cap blind = {}
               PROVE  Strays(c) = {}
    BY Zenon DEF DurabilityEnforced
  <2>1. \A p \in Strays(c) : p \in Pods /\ c \in UsedClaims(p) /\ p \notin blind
    BY Zenon DEF Strays, Uses
  <2>2. \A p \in Strays(c) : {d \in UsedClaims(p) : Local(d)} = {c}
    BY <2>1 DEF Durable
  <2>3. Kept(c)
    BY <2>1, <2>2, Zenon DEF Kept, OnlyPlainStrays, Plain
  <2> QED
    BY <2>3, Zenon DEF AdmissionInv, DurableKept
<1> QED
  BY <1>1, AdmissionInvariant, PTL
=============================================================================
