-------------------------- MODULE NodeVolumeProofs --------------------------
(***************************************************************************)
(* Proofs about NodeVolume: VolumeInv is inductive, and with it the three  *)
(* properties of the mounts hold for any number of nodes, pods, calls      *)
(* given up, restarts and crashes.                                         *)
(***************************************************************************)
EXTENDS NodeVolume, SequenceTheorems, TLAPS

\* What VolumeInv says of the mounts.
MountsInv ==
  /\ MountsTypeOK
  /\ CallsOrdered /\ BoundWhileUsed /\ StagedIsMounted /\ StagingAccounted
  /\ RunningPodSeesVolume /\ GonePodLeavesNothing

PodStates == {"absent", "starting", "published", "running", "stopping", "forced", "gone"}

-----------------------------------------------------------------------------
(* Mounts and calls *)

LEMMA MountFacts ==
  ASSUME NEW x \in Paths, mounts \in [Paths -> Seq(Mounted)]
  PROVE  /\ HasVolume(x) => Holds(x) /\ IsMountPoint(x)
         /\ Holds(x) => IsMountPoint(x)
         /\ mounts[x] = <<"volume">> => HasVolume(x)
         /\ IsMountPoint(x) <=> mounts[x] # <<>>
<1>1. mounts[x] # <<>> => Len(mounts[x]) \in DOMAIN mounts[x]
  BY EmptySeq, LenProperties
<1>2. mounts[x] = <<"volume">> => HasVolume(x)
  BY DEF HasVolume
<1>3. HasVolume(x) => Holds(x)
  BY <1>1, Zenon DEF HasVolume, Holds
<1>4. Holds(x) => mounts[x] # <<>>
  BY DEF Holds
<1> QED
  BY <1>2, <1>3, <1>4, Zenon DEF HasVolume, IsMountPoint

LEMMA SameMounts ==
  ASSUME NEW x, mounts'[x] = mounts[x]
  PROVE  /\ HasVolume(x)' <=> HasVolume(x)
         /\ Holds(x)' <=> Holds(x)
         /\ IsMountPoint(x)' <=> IsMountPoint(x)
BY Zenon DEF HasVolume, Holds, IsMountPoint

LEMMA PushFacts ==
  ASSUME NEW x \in Paths, mounts \in [Paths -> Seq(Mounted)], NEW m \in Mounted, Push(x, m)
  PROVE  /\ mounts' \in [Paths -> Seq(Mounted)]
         /\ \A y \in Paths \ {x} : mounts'[y] = mounts[y]
         /\ IsMountPoint(x)'
         /\ HasVolume(x)' <=> m = "volume"
         /\ Holds(x)' => Holds(x) \/ m = "volume"
         /\ mounts[x] = <<>> => mounts'[x] = <<m>>
<1>1. /\ mounts'[x] = Append(mounts[x], m)
      /\ \A y \in Paths \ {x} : mounts'[y] = mounts[y]
  BY Zenon DEF Push
<1>2. /\ mounts'[x] \in Seq(Mounted) /\ mounts'[x] # <<>>
      /\ mounts'[x][Len(mounts'[x])] = m
      /\ \A i \in DOMAIN mounts'[x] : mounts'[x][i] = m \/ (i \in DOMAIN mounts[x] /\ mounts'[x][i] = mounts[x][i])
  BY <1>1, AppendProperties
<1>3. mounts' \in [Paths -> Seq(Mounted)]
  BY <1>1, <1>2, Zenon DEF Push
<1>4. mounts[x] = <<>> => mounts'[x] = <<m>>
  BY <1>1
<1>5. Holds(x)' => Holds(x) \/ m = "volume"
  BY <1>2, Zenon DEF Holds
<1> QED
  BY <1>1, <1>2, <1>3, <1>4, <1>5, Zenon DEF HasVolume, IsMountPoint

LEMMA PopFacts ==
  ASSUME NEW x \in Paths, mounts \in [Paths -> Seq(Mounted)], IsMountPoint(x), Pop(x)
  PROVE  /\ mounts' \in [Paths -> Seq(Mounted)]
         /\ \A y \in Paths \ {x} : mounts'[y] = mounts[y]
         /\ Holds(x)' => Holds(x)
         /\ mounts[x] = <<"volume">> => mounts'[x] = <<>>
<1> DEFINE t == mounts[x]
<1>1. /\ mounts'[x] = SubSeq(t, 1, Len(t) - 1)
      /\ \A y \in Paths \ {x} : mounts'[y] = mounts[y]
  BY Zenon DEF Pop
<1>2. t \in Seq(Mounted) /\ Len(t) \in Nat \ {0} /\ DOMAIN t = 1..Len(t)
  BY DEF IsMountPoint
<1> HIDE DEF t
<1>3. /\ mounts'[x] \in Seq(Mounted)
      /\ \A i \in DOMAIN mounts'[x] : i \in DOMAIN t /\ mounts'[x][i] = t[i]
  BY <1>1, <1>2
<1>4. mounts' \in [Paths -> Seq(Mounted)]
  BY <1>1, <1>3, Zenon DEF Pop
<1>5. Holds(x)' => Holds(x)
  BY <1>3, Zenon DEF Holds, t
<1>6. mounts[x] = <<"volume">> => mounts'[x] = <<>>
  BY <1>1 DEF t
<1> QED
  BY <1>1, <1>4, <1>5, <1>6, Zenon

LEMMA CallFacts ==
  /\ NoCall \in Calls /\ NoCall.op = "none" /\ NoCall.path = Staging /\ NoCall.pc = "none"
  /\ \A c \in Calls : /\ c.path \in Paths
                      /\ c.op \in {"none", "stage", "publish", "unpublish", "unstage"}
                      /\ c.pc \in {"none", "ensure", "mount", "unmount", "recheck"}
BY Zenon DEF NoCall, Calls, Paths

LEMMA CallGoesOn ==
  ASSUME NEW c \in Calls, NEW p \in {"mount", "recheck"}
  PROVE  /\ [c EXCEPT !.pc = p] \in Calls /\ [c EXCEPT !.pc = p].pc = p
         /\ [c EXCEPT !.pc = p].op = c.op /\ [c EXCEPT !.pc = p].path = c.path
BY Zenon DEF Calls

\* The step is one of the call in slot s: the call ends or goes on to its
\* command.  Only at its end does kubelet hear of it.
OwnCall(s) ==
  /\ UNCHANGED <<mode, claim, delVars, errors, disturbed>>
  /\ \/ End(s)
     \/ (Goto(s, "mount") \/ Goto(s, "recheck")) /\ UNCHANGED <<pod, staged>>
  /\ \/ staged' = staged
     \/ s = "kubelet" /\ staged' = "yes"
     \/ s = "kubelet" /\ call[s].op = "unstage" /\ End(s) /\ pod' = pod /\ staged' = "no"
  /\ stolen' = stolen \/ stolen' = FALSE
  /\ pod' \in [Pods -> PodStates]
  /\ \A p \in Pods :
       \/ pod'[p] = pod[p]
       \/ s = "kubelet" /\ pod[p] = "stopping" /\ pod'[p] = "gone"
       \/ /\ s = "kubelet" /\ pod[p] = "starting" /\ pod'[p] = "published"
          /\ call[s].op = "publish" /\ call[s].path = p

LEMMA CallStep ==
  ASSUME MountsInv, NEW s \in Slots, OwnCall(s)
  PROVE  call' \in [Slots -> Calls] /\ CallsOrdered' /\ BoundWhileUsed'
<1>1. call \in [Slots -> Calls]
  BY Zenon DEF MountsInv, MountsTypeOK
<1> DEFINE c == call'[s]
<1>2. \A t \in Slots \ {s} : call'[t] = call[t]
  BY <1>1, Zenon DEF OwnCall, End, Goto
<1>3. /\ call' \in [Slots -> Calls]
      /\ \/ c = NoCall
         \/ /\ c.op = call[s].op /\ c.path = call[s].path /\ c.pc \in {"mount", "recheck"}
            /\ pod' = pod /\ staged' = staged
  <2>1. CASE End(s)
    BY <1>1, <2>1, CallFacts, Zenon DEF End
  <2>2. ASSUME NEW p \in {"mount", "recheck"}, Goto(s, p), UNCHANGED <<pod, staged>>
        PROVE  /\ call' \in [Slots -> Calls]
               /\ c.op = call[s].op /\ c.path = call[s].path /\ c.pc = p
    <3> DEFINE d == [call[s] EXCEPT !.pc = p]
    <3>1. call' = [call EXCEPT ![s] = d]
      BY <1>1, <2>2, Zenon DEF Goto
    <3>2. d \in Calls /\ d.op = call[s].op /\ d.path = call[s].path /\ d.pc = p
      <4>1. call[s] \in Calls
        BY <1>1, Zenon
      <4> QED
        BY <4>1, CallGoesOn, Zenon
    <3> HIDE DEF d
    <3>3. c = d /\ call' \in [Slots -> Calls]
      BY <1>1, <3>1, <3>2, Zenon
    <3> QED
      BY <3>2, <3>3, Zenon
  <2> QED
    BY <2>1, <2>2, Zenon DEF OwnCall
<1>4. c \in Calls
  BY <1>3, Zenon
<1> HIDE DEF c
<1>5. \A t \in Slots : call'[t] = NoCall \/ (call'[t].op = call[t].op /\ call'[t].path = call[t].path)
  BY <1>2, <1>3, Zenon DEF c
<1>6. \A t \in Slots :
        /\ call'[t].op \in {"publish", "unpublish"} => call'[t].path \in Pods
        /\ call'[t].op = "publish" => pod'[call'[t].path] # "absent"
        /\ call'[t].op = "unpublish" => pod'[call'[t].path] \in {"stopping", "gone"}
  <2> TAKE t \in Slots
  <2>1. /\ call[t].op \in {"publish", "unpublish"} => call[t].path \in Pods
        /\ call[t].op = "publish" => pod[call[t].path] # "absent"
        /\ call[t].op = "unpublish" => pod[call[t].path] \in {"stopping", "gone"}
    BY Zenon DEF MountsInv, CallsOrdered
  <2>2. \A p \in Pods : /\ pod[p] \in {"stopping", "gone"} => pod'[p] \in {"stopping", "gone"}
                        /\ pod[p] # "absent" => pod'[p] # "absent"
    BY Zenon DEF OwnCall
  <2>3. CASE call'[t] = NoCall
    BY <2>3, CallFacts, Zenon
  <2>4. CASE call'[t].op = call[t].op /\ call'[t].path = call[t].path
    BY <2>1, <2>2, <2>4, Zenon
  <2> QED
    BY <1>5, <2>3, <2>4, Zenon
<1>7. call'["late"].pc \in {"none", "mount", "recheck"}
  BY <1>2, <1>3, CallFacts, Zenon DEF c, MountsInv, CallsOrdered, Slots
<1>8. LET k == call'["kubelet"] IN
        /\ k.op = "stage" => staged' = "uncertain"
        /\ k.op = "publish" => pod'[k.path] \in {"starting", "stopping"}
  <2>1. CASE s = "kubelet"
    BY <1>2, <1>3, <2>1, CallFacts, Zenon DEF c, MountsInv, CallsOrdered
  <2>2. CASE s # "kubelet"
    <3>1. staged' = staged /\ call'["kubelet"] = call["kubelet"] /\ \A p \in Pods : pod'[p] = pod[p]
      BY <1>2, <2>2, Zenon DEF OwnCall, Slots
    <3> QED
      BY <3>1, Zenon DEF MountsInv, CallsOrdered, Slots
  <2> QED
    BY <2>1, <2>2, Zenon
<1>9. Needed' => Needed
  <2>1. \A p \in Pods : pod'[p] \in Published =>
          pod[p] \in Published \/ (pod[p] \in Wanting /\ call[s].op = "publish" /\ call[s].path = p)
    BY Zenon DEF OwnCall, Published, Wanting
  <2>2. PodIn(Published)' # {} => Needed
    BY <2>1, Zenon DEF Needed, PodIn
  <2>3. \A p \in Pods : pod'[p] \in Wanting => pod[p] \in Wanting
    BY Zenon DEF OwnCall, Published, Wanting
  <2>4. ASSUME NEW t \in Slots, call'[t].op = "publish", pod'[call'[t].path] \in Wanting
        PROVE  Needed
    <3>1. call[t].op = "publish" /\ call[t].path = call'[t].path /\ call[t].path \in Pods
      BY <1>5, <1>6, <2>4, CallFacts, Zenon
    <3> QED
      BY <2>3, <2>4, <3>1, Zenon DEF Needed
  <2> QED
    BY <2>2, <2>4, Zenon DEF Needed
<1>10. Needed' => staged' = "yes" /\ call'["kubelet"].op # "unstage"
  <2>1. Needed => staged = "yes" /\ call["kubelet"].op # "unstage"
    BY Zenon DEF MountsInv, CallsOrdered
  <2>2. call["kubelet"].op # "unstage" => call'["kubelet"].op # "unstage"
    BY <1>5, CallFacts, Zenon DEF Slots
  <2>3. call["kubelet"].op # "unstage" /\ staged = "yes" => staged' = "yes"
    BY Zenon DEF OwnCall
  <2> QED
    BY <1>9, <2>1, <2>2, <2>3, Zenon
<1>11. CallsOrdered'
  BY <1>6, <1>7, <1>8, <1>10, Zenon DEF CallsOrdered
<1>12. BoundWhileUsed'
  <2>1. \A p \in Pods : pod'[p] \in Wanting => pod[p] \in Wanting
    BY Zenon DEF OwnCall, Published, Wanting
  <2>2. claim' = claim /\ by' = by
    BY Zenon DEF OwnCall, delVars
  <2> QED
    BY <2>1, <2>2, Zenon DEF MountsInv, BoundWhileUsed, PodIn
<1> QED
  BY <1>3, <1>11, <1>12, Zenon

\* What is left to show of a step of a call.
LEMMA HandlerFrame ==
  ASSUME MountsInv, NEW s \in Slots, OwnCall(s), lv' \in BOOLEAN,
         paths' \subseteq Paths, mounts' \in [Paths -> Seq(Mounted)],
         StagedIsMounted', StagingAccounted', RunningPodSeesVolume', GonePodLeavesNothing'
  PROVE  MountsInv'
<1>1. call' \in [Slots -> Calls] /\ CallsOrdered' /\ BoundWhileUsed'
  BY CallStep, Zenon
<1>2. /\ mode' = mode /\ claim' = claim /\ del' = del /\ by' = by /\ refs' = refs /\ ref' = ref
      /\ errors' = errors /\ disturbed' = disturbed /\ (stolen' = stolen \/ stolen' = FALSE)
      /\ pod' \in [Pods -> PodStates] /\ (staged' = staged \/ staged' \in {"no", "yes"})
  BY Zenon DEF OwnCall, delVars
<1>3. MountsTypeOK'
  BY <1>1, <1>2, ZenonT(30) DEF MountsInv, MountsTypeOK, PodStates
<1> QED
  BY <1>1, <1>3, Zenon DEF MountsInv

\* While the claim is bound and nothing was stolen, whoever relies on the
\* staged volume finds it, and it exists.
LEMMA NeededIsThere ==
  ASSUME MountsInv, Needed, ~stolen, claim = "bound"
  PROVE  lv /\ (mode = "mount" => HasVolume(Staging))
<1>1. staged = "yes" /\ mode \in {"mount", "block"} /\ mounts \in [Paths -> Seq(Mounted)] /\ Staging \in Paths /\ lv \in BOOLEAN
  BY Zenon DEF MountsInv, CallsOrdered, MountsTypeOK, Paths
<1>2. mode = "mount" => HasVolume(Staging) /\ Holds(Staging)
  BY <1>1, MountFacts, Zenon DEF MountsInv, StagedIsMounted
<1> QED
  BY <1>1, <1>2, Zenon DEF MountsInv, StagedIsMounted, StagingAccounted

\* The type of a pod's path, and that kubelet's own call is at its first step.
LEMMA CallPaths ==
  ASSUME MountsInv, NEW s \in Slots
  PROVE  /\ call[s].op \in {"publish", "unpublish"} => call[s].path \in Pods
         /\ call[s].op = "unpublish" => pod[call[s].path] \in {"stopping", "gone"}
         /\ call[s].pc \in {"ensure", "unmount"} => s = "kubelet"
         /\ s = "kubelet" /\ call[s].op = "stage" => staged = "uncertain"
         /\ s = "kubelet" /\ call[s].op = "publish" => pod[call[s].path] \in {"starting", "stopping"}
         /\ call[s].op = "publish" /\ pod[call[s].path] \in Wanting => Needed
BY Zenon DEF MountsInv, CallsOrdered, Slots, Needed

\* The answer of a call as kubelet hears it.
LEMMA PodAnswer ==
  ASSUME MountsInv, NEW s \in Slots, NEW p \in Pods, NEW a \in PodStates, NEW b \in PodStates,
  SetPod(s, p, a, b)
  PROVE  /\ pod' \in [Pods -> PodStates]
         /\ \A q \in Pods : pod'[q] = pod[q] \/ (s = "kubelet" /\ q = p /\ pod[q] = a /\ pod'[q] = b)
BY Zenon DEF MountsInv, MountsTypeOK, SetPod, PodStates

LEMMA StageEnsureStep ==
  ASSUME MountsInv, NEW s \in Slots, StageEnsure(s)
  PROVE  MountsInv'
<1>1. /\ call[s].op = "stage" /\ call[s].pc = "ensure" /\ lv' = TRUE
      /\ paths' = IF mode = "block" THEN paths ELSE paths \cup {Staging}
      /\ \/ End(s) /\ (mode = "block" \/ HasVolume(Staging)) /\ SetStaged(s, "yes")
         \/ Goto(s, "mount") /\ mode # "block" /\ staged' = staged
      /\ UNCHANGED <<mode, mounts, pod, claim, delVars, errors, history>>
  BY Zenon DEF StageEnsure, At, LikelyMountPoint
<1>2. s = "kubelet" /\ staged = "uncertain"
  BY <1>1, CallPaths, Zenon
<1>3. staged' \in {"uncertain", "yes"} /\ (staged' = "yes" => mode = "block" \/ HasVolume(Staging))
  BY <1>1, <1>2, Zenon DEF SetStaged
<1>4. OwnCall(s)
  BY <1>1, <1>2, Zenon DEF OwnCall, SetStaged, MountsInv, MountsTypeOK, PodStates, history
<1>5. \A x : (HasVolume(x)' <=> HasVolume(x)) /\ (IsMountPoint(x)' <=> IsMountPoint(x))
  BY <1>1, SameMounts, Zenon
<1>6. StagedIsMounted'
  BY <1>1, <1>3, <1>5, Zenon DEF StagedIsMounted
<1>7. StagingAccounted'
  BY <1>1, <1>3, <1>5, Zenon DEF MountsInv, StagingAccounted, history
<1>8. RunningPodSeesVolume'
  BY <1>1, <1>5, Zenon DEF MountsInv, RunningPodSeesVolume, PodIn, history
<1>9. GonePodLeavesNothing'
  BY <1>1, <1>5, StagingAssumption, Zenon DEF MountsInv, GonePodLeavesNothing, PodIn
<1>10. paths' \subseteq Paths /\ mounts' \in [Paths -> Seq(Mounted)]
  BY <1>1, Zenon DEF MountsInv, MountsTypeOK, Paths
<1> QED
  BY <1>1, <1>4, <1>6, <1>7, <1>8, <1>9, <1>10, HandlerFrame, Zenon

LEMMA StageMountStep ==
  ASSUME MountsInv, NEW s \in Slots, StageMount(s)
  PROVE  MountsInv'
<1>1. /\ call[s].op = "stage" /\ call[s].pc = "mount" /\ End(s)
      /\ UNCHANGED <<mode, lv, paths, pod, claim, delVars, errors, history>>
      /\ \/ /\ lv /\ Staging \in paths /\ ~IsMountPoint(Staging)
            /\ Push(Staging, "volume") /\ SetStaged(s, "yes")
         \/ UNCHANGED <<mounts, staged>>
  BY Zenon DEF StageMount, At, Failed, hostVars, podVars
<1>2. mounts \in [Paths -> Seq(Mounted)] /\ paths \subseteq Paths /\ Staging \in Paths /\ lv \in BOOLEAN
  BY Zenon DEF MountsInv, MountsTypeOK, Paths
<1>3. OwnCall(s)
  BY <1>1, Zenon DEF OwnCall, SetStaged, MountsInv, MountsTypeOK, PodStates, history
<1>4. CASE UNCHANGED <<mounts, staged>>
  <2>1. \A x : /\ HasVolume(x)' <=> HasVolume(x)
               /\ Holds(x)' <=> Holds(x)
               /\ IsMountPoint(x)' <=> IsMountPoint(x)
    BY <1>4, SameMounts, Zenon
  <2>2. StagedIsMounted'
    BY <1>1, <1>4, <2>1, Zenon DEF MountsInv, StagedIsMounted, history
  <2>3. StagingAccounted'
    BY <1>1, <1>4, <2>1, Zenon DEF MountsInv, StagingAccounted, delVars, history
  <2>4. RunningPodSeesVolume' /\ GonePodLeavesNothing'
    BY <1>1, <2>1, Zenon DEF MountsInv, RunningPodSeesVolume, GonePodLeavesNothing, PodIn, history
  <2> QED
    BY <1>1, <1>2, <1>3, <1>4, <2>2, <2>3, <2>4, HandlerFrame, Zenon
<1>5. CASE /\ lv /\ Staging \in paths /\ ~IsMountPoint(Staging)
           /\ Push(Staging, "volume") /\ SetStaged(s, "yes")
  <2>1. /\ mounts' \in [Paths -> Seq(Mounted)] /\ HasVolume(Staging)' /\ mounts'[Staging] = <<"volume">>
        /\ \A y \in Paths \ {Staging} : mounts'[y] = mounts[y]
    BY <1>2, <1>5, PushFacts, MountFacts, Zenon DEF Mounted
  <2>2. \A p \in Pods : (HasVolume(p)' <=> HasVolume(p)) /\ (IsMountPoint(p)' <=> IsMountPoint(p))
    BY <2>1, SameMounts, StagingAssumption, Zenon DEF Paths
  <2>3. StagedIsMounted'
    BY <1>1, <1>5, <2>1, Zenon DEF MountsInv, StagedIsMounted, StagingAccounted
  <2>4. StagingAccounted'
    BY <1>1, <1>5, <2>1, Zenon DEF MountsInv, StagingAccounted, history
  <2>5. RunningPodSeesVolume' /\ GonePodLeavesNothing'
    BY <1>1, <2>2, Zenon DEF MountsInv, RunningPodSeesVolume, GonePodLeavesNothing, PodIn, history
  <2> QED
    BY <1>1, <1>2, <1>3, <1>5, <2>1, <2>3, <2>4, <2>5, HandlerFrame, Zenon
<1> QED
  BY <1>1, <1>4, <1>5, Zenon

LEMMA PublishEnsureStep ==
  ASSUME MountsInv, NEW s \in Slots, PublishEnsure(s)
  PROVE  MountsInv'
<1> DEFINE p == call[s].path
<1>1. /\ call[s].op = "publish" /\ call[s].pc = "ensure" /\ paths' = paths \cup {p}
      /\ \/ End(s) /\ mode = "mount" /\ HasVolume(p) /\ SetPod(s, p, "starting", "published")
         \/ Goto(s, "mount") /\ pod' = pod
      /\ UNCHANGED <<mode, lv, mounts, staged, claim, delVars, errors, history>>
  BY Zenon DEF PublishEnsure, At, LikelyMountPoint
<1>2. s = "kubelet" /\ p \in Pods /\ pod[p] \in {"starting", "stopping"}
  BY <1>1, CallPaths, Zenon
<1> HIDE DEF p
<1>3. /\ pod' \in [Pods -> PodStates]
      /\ \A q \in Pods : \/ pod'[q] = pod[q]
                         \/ /\ q = p /\ pod[q] = "starting" /\ pod'[q] = "published"
                            /\ mode = "mount" /\ HasVolume(p)
  BY <1>1, <1>2, PodAnswer DEF MountsInv, MountsTypeOK, PodStates
<1>4. OwnCall(s)
  BY <1>1, <1>2, <1>3, Zenon DEF OwnCall, history, p
<1>5. \A x : /\ HasVolume(x)' <=> HasVolume(x)
             /\ Holds(x)' <=> Holds(x)
             /\ IsMountPoint(x)' <=> IsMountPoint(x)
  BY <1>1, SameMounts, Zenon
<1>6. StagedIsMounted'
  BY <1>1, <1>5, Zenon DEF MountsInv, StagedIsMounted, history
<1>7. StagingAccounted'
  BY <1>1, <1>2, <1>5, StagingAssumption, Zenon DEF MountsInv, StagingAccounted, delVars, history
<1>8. RunningPodSeesVolume'
  <2>1. mode = "mount" /\ HasVolume(p) => lv
    BY <1>2, MountFacts, Zenon DEF MountsInv, MountsTypeOK, StagingAccounted, Paths
  <2>2. \A q \in Pods : pod'[q] \in Published => pod[q] \in Published \/ (q = p /\ mode = "mount" /\ HasVolume(p))
    BY <1>3, Zenon
  <2>3. stolen' = stolen /\ lv' = lv
    BY <1>1, Zenon DEF history
  <2> QED
    BY <1>5, <2>1, <2>2, <2>3, Zenon DEF MountsInv, RunningPodSeesVolume, PodIn
<1>9. GonePodLeavesNothing'
  BY <1>1, <1>2, <1>3, <1>5, Zenon DEF MountsInv, GonePodLeavesNothing, PodIn
<1>10. paths' \subseteq Paths /\ mounts' \in [Paths -> Seq(Mounted)] /\ lv \in BOOLEAN
  BY <1>1, <1>2, Zenon DEF MountsInv, MountsTypeOK, Paths
<1> QED
  BY <1>1, <1>4, <1>6, <1>7, <1>8, <1>9, <1>10, HandlerFrame, Zenon

LEMMA PublishMountStep ==
  ASSUME MountsInv, NEW s \in Slots, PublishMount(s)
  PROVE  MountsInv'
<1>0. /\ mounts \in [Paths -> Seq(Mounted)] /\ paths \subseteq Paths /\ Staging \in Paths /\ lv \in BOOLEAN
      /\ mode \in {"mount", "block"} /\ pod \in [Pods -> PodStates]
  BY Zenon DEF MountsInv, MountsTypeOK, Paths, PodStates
<1>1. /\ call[s].op = "publish" /\ call[s].pc = "mount" /\ End(s)
      /\ UNCHANGED <<mode, lv, paths, staged, claim, delVars, errors, history>>
  BY Zenon DEF PublishMount, At, Failed, hostVars, podVars
<1>2. PICK p \in Pods : p = call[s].path
  BY <1>1, CallPaths, Zenon
<1>3. p \in Paths /\ p # Staging
  BY StagingAssumption, Zenon DEF Paths
<1>4. PICK seen \in Mounted : seen = IF mode = "block" \/ HasVolume(Staging) THEN "volume" ELSE "empty"
  BY Zenon DEF Mounted
<1>5. /\ mode = "mount" /\ seen = "volume" => HasVolume(Staging)
      /\ pod[p] \in Wanting /\ ~stolen => seen = "volume" /\ lv
  <2>1. pod[p] \in Wanting => Needed /\ claim = "bound"
    BY <1>1, <1>2, CallPaths, Zenon DEF MountsInv, BoundWhileUsed, PodIn
  <2> QED
    BY <1>0, <1>4, <2>1, NeededIsThere, Zenon
<1>6. \/ p \in paths /\ Push(p, seen) /\ SetPod(s, p, "starting", "published")
      \/ UNCHANGED <<mounts, pod>>
  BY <1>2, <1>4 DEF PublishMount, Failed, hostVars, podVars
<1>7. CASE UNCHANGED <<mounts, pod>>
  <2>1. OwnCall(s)
    BY <1>1, <1>0, <1>7, Zenon DEF OwnCall, history
  <2>2. \A x : /\ HasVolume(x)' <=> HasVolume(x)
               /\ Holds(x)' <=> Holds(x)
               /\ IsMountPoint(x)' <=> IsMountPoint(x)
    BY <1>7, SameMounts, Zenon
  <2>3. StagedIsMounted'
    BY <1>1, <2>2, Zenon DEF MountsInv, StagedIsMounted, history
  <2>4. StagingAccounted'
    BY <1>1, <1>7, <2>2, Zenon DEF MountsInv, StagingAccounted, delVars, history
  <2>5. RunningPodSeesVolume' /\ GonePodLeavesNothing'
    BY <1>1, <1>7, <2>2, Zenon
       DEF MountsInv, RunningPodSeesVolume, GonePodLeavesNothing, PodIn, history
  <2> QED
    BY <1>1, <1>0, <1>7, <2>1, <2>3, <2>4, <2>5, HandlerFrame, Zenon
<1>8. CASE p \in paths /\ Push(p, seen) /\ SetPod(s, p, "starting", "published")
  <2>1. /\ pod' \in [Pods -> PodStates]
        /\ \A q \in Pods : \/ pod'[q] = pod[q]
                           \/ s = "kubelet" /\ q = p /\ pod[q] = "starting" /\ pod'[q] = "published"
    BY <1>3, <1>8, PodAnswer DEF PodStates
  <2>2. OwnCall(s)
    BY <1>1, <1>2, <2>1, Zenon DEF OwnCall, history
  <2>3. /\ mounts' \in [Paths -> Seq(Mounted)]
        /\ \A y \in Paths \ {p} : mounts'[y] = mounts[y]
        /\ HasVolume(p)' <=> seen = "volume"
        /\ Holds(p)' => Holds(p) \/ seen = "volume"
    BY <1>0, <1>3, <1>8, PushFacts, Zenon
  <2>4. \A y \in Paths \ {p} : /\ HasVolume(y)' <=> HasVolume(y)
                               /\ Holds(y)' <=> Holds(y)
                               /\ IsMountPoint(y)' <=> IsMountPoint(y)
    BY <2>3, SameMounts, Zenon
  <2>5. mounts'[Staging] = mounts[Staging] /\ (HasVolume(Staging)' <=> HasVolume(Staging))
    BY <1>0, <1>3, <2>3, <2>4, Zenon
  <2>6. StagedIsMounted'
    BY <1>1, <2>5, Zenon DEF MountsInv, StagedIsMounted, history
  <2>7. StagingAccounted'
    <3>1. mode = "mount" /\ ~lv => \A x \in Paths : ~Holds(x)'
      <4>1. HasVolume(Staging) => Holds(Staging)
        BY <1>0, MountFacts, Zenon
      <4> QED
        BY <1>0, <1>3, <1>5, <2>3, <2>4, <4>1, Zenon DEF MountsInv, StagingAccounted
    <3> QED
      BY <1>1, <2>5, <3>1, Zenon DEF MountsInv, StagingAccounted, delVars, history
  <2>8. RunningPodSeesVolume'
    <3> SUFFICES ASSUME ~stolen, NEW q \in Pods, pod'[q] \in Published
                 PROVE  HasVolume(q)' /\ lv
      BY <1>1, Zenon DEF RunningPodSeesVolume, PodIn, history
    <3>1. CASE q = p
      <4>1. pod[p] \in Wanting
        BY <2>1, <3>1, Zenon DEF Wanting
      <4> QED
        BY <1>5, <2>3, <3>1, <4>1, Zenon
    <3>2. CASE q # p
      BY <2>1, <2>4, <3>2, Zenon DEF MountsInv, RunningPodSeesVolume, PodIn, Paths
    <3> QED
      BY <3>1, <3>2, Zenon
  <2>9. GonePodLeavesNothing'
    <3> SUFFICES ASSUME NEW q \in Pods, pod'[q] = "gone"
                 PROVE  ~IsMountPoint(q)' /\ q \notin paths
      BY <1>1, Zenon DEF GonePodLeavesNothing, PodIn
    <3>1. pod[q] = "gone"
      BY <2>1, Zenon
    <3>2. ~IsMountPoint(q) /\ q \notin paths
      BY <3>1, Zenon DEF MountsInv, GonePodLeavesNothing, PodIn
    <3> QED
      BY <1>8, <2>4, <3>2, Zenon DEF Paths
  <2> QED
    BY <1>1, <1>0, <2>2, <2>3, <2>6, <2>7, <2>8, <2>9, HandlerFrame, Zenon
<1> QED
  BY <1>7, <1>8, <1>6, Zenon

\* A target path goes, with nothing mounted on it.
LEMMA RemoveTargetStep ==
  ASSUME MountsInv, NEW s \in Slots, call[s].op = "unpublish",
         ~IsMountPoint(call[s].path), RemoveTarget(s, call[s].path),
         UNCHANGED <<mode, lv, mounts, staged, claim, delVars, errors, history>>
  PROVE  MountsInv'
<1> DEFINE p == call[s].path
<1>1. /\ paths' = paths \ {p} /\ End(s) /\ SetPod(s, p, "stopping", "gone") /\ ~IsMountPoint(p)
  BY Zenon DEF RemoveTarget
<1>2. p \in Pods
  BY CallPaths, Zenon
<1> HIDE DEF p
<1>3. /\ pod' \in [Pods -> PodStates]
      /\ \A q \in Pods : \/ pod'[q] = pod[q]
                         \/ s = "kubelet" /\ q = p /\ pod[q] = "stopping" /\ pod'[q] = "gone"
  BY <1>1, <1>2, PodAnswer DEF PodStates
<1>4. OwnCall(s)
  BY <1>1, <1>3, Zenon DEF OwnCall, history
<1>5. \A x : /\ HasVolume(x)' <=> HasVolume(x)
             /\ Holds(x)' <=> Holds(x)
             /\ IsMountPoint(x)' <=> IsMountPoint(x)
  BY SameMounts, Zenon
<1>6. mounts \in [Paths -> Seq(Mounted)] /\ paths \subseteq Paths /\ lv \in BOOLEAN
  BY Zenon DEF MountsInv, MountsTypeOK
<1>7. StagedIsMounted'
  BY <1>5, Zenon DEF MountsInv, StagedIsMounted, history
<1>8. StagingAccounted'
  BY <1>1, <1>5, Zenon DEF MountsInv, StagingAccounted, delVars, history
<1>9. RunningPodSeesVolume'
  BY <1>3, <1>5, Zenon DEF MountsInv, RunningPodSeesVolume, PodIn, Published, history
<1>10. GonePodLeavesNothing'
  BY <1>1, <1>3, <1>5, Zenon DEF MountsInv, GonePodLeavesNothing, PodIn
<1> QED
  BY <1>1, <1>4, <1>6, <1>7, <1>8, <1>9, <1>10, HandlerFrame, Zenon

LEMMA UnpublishUnmountStep ==
  ASSUME MountsInv, NEW s \in Slots, UnpublishUnmount(s)
  PROVE  MountsInv'
<1>1. /\ call[s].op = "unpublish" /\ call[s].pc = "unmount"
      /\ UNCHANGED <<mode, lv, staged, claim, delVars, errors, history>>
  BY Zenon DEF UnpublishUnmount, At
<1>2. PICK p \in Pods : p = call[s].path
  BY <1>1, CallPaths, Zenon
<1>3. CASE ~IsMountPoint(p)
  BY <1>1, <1>2, <1>3, RemoveTargetStep, Zenon DEF UnpublishUnmount
<1>4. CASE IsMountPoint(p)
  <2>1. Pop(p) /\ Goto(s, "recheck") /\ UNCHANGED <<paths, pod>>
    BY <1>2, <1>4, Zenon DEF UnpublishUnmount
  <2>2. /\ mounts \in [Paths -> Seq(Mounted)] /\ paths \subseteq Paths /\ lv \in BOOLEAN
        /\ pod \in [Pods -> PodStates] /\ p \in Paths /\ p # Staging /\ Staging \in Paths
    BY StagingAssumption, Zenon DEF MountsInv, MountsTypeOK, Paths, PodStates
  <2>3. OwnCall(s)
    BY <1>1, <2>1, <2>2, Zenon DEF OwnCall, history
  <2>4. pod[p] = "stopping"
    BY <1>1, <1>2, <1>4, CallPaths, Zenon DEF MountsInv, GonePodLeavesNothing, PodIn
  <2>5. /\ mounts' \in [Paths -> Seq(Mounted)]
        /\ \A y \in Paths \ {p} : mounts'[y] = mounts[y]
        /\ Holds(p)' => Holds(p)
    BY <1>4, <2>1, <2>2, PopFacts, Zenon
  <2>6. \A y \in Paths \ {p} : /\ HasVolume(y)' <=> HasVolume(y)
                               /\ Holds(y)' <=> Holds(y)
                               /\ IsMountPoint(y)' <=> IsMountPoint(y)
    BY <2>5, SameMounts, Zenon
  <2>7. mounts'[Staging] = mounts[Staging] /\ (HasVolume(Staging)' <=> HasVolume(Staging))
    BY <2>2, <2>5, <2>6, Zenon
  <2>8. StagedIsMounted'
    BY <1>1, <2>7, Zenon DEF MountsInv, StagedIsMounted, history
  <2>9. StagingAccounted'
    BY <1>1, <2>1, <2>5, <2>6, <2>7, Zenon DEF MountsInv, StagingAccounted, delVars, history
  <2>10. RunningPodSeesVolume'
    BY <1>1, <2>1, <2>4, <2>6, Zenon
       DEF MountsInv, RunningPodSeesVolume, PodIn, Paths, Published, history
  <2>11. GonePodLeavesNothing'
    BY <2>1, <2>4, <2>6, Zenon DEF MountsInv, GonePodLeavesNothing, PodIn, Paths
  <2> QED
    BY <1>1, <2>1, <2>2, <2>3, <2>5, <2>8, <2>9, <2>10, <2>11, HandlerFrame, Zenon
<1> QED
  BY <1>3, <1>4, Zenon

\* A step of a call that changes neither mounts nor what kubelet knows.
LEMMA UnpublishRecheckStep ==
  ASSUME MountsInv, NEW s \in Slots, UnpublishRecheck(s)
  PROVE  MountsInv'
<1>1. /\ call[s].op = "unpublish" /\ UNCHANGED <<mode, lv, mounts, staged, claim, delVars, errors, history>>
  BY Zenon DEF UnpublishRecheck, At
<1>2. CASE ~IsMountPoint(call[s].path) /\ RemoveTarget(s, call[s].path)
  BY <1>1, <1>2, RemoveTargetStep, Zenon
<1>3. CASE End(s) /\ UNCHANGED <<paths, pod>>
  <2>1. mounts \in [Paths -> Seq(Mounted)] /\ paths \subseteq Paths /\ lv \in BOOLEAN /\ pod \in [Pods -> PodStates]
    BY Zenon DEF MountsInv, MountsTypeOK, PodStates
  <2>2. OwnCall(s)
    BY <1>1, <1>3, <2>1, Zenon DEF OwnCall, history
  <2>3. \A x : /\ HasVolume(x)' <=> HasVolume(x)
               /\ Holds(x)' <=> Holds(x)
               /\ IsMountPoint(x)' <=> IsMountPoint(x)
    BY <1>1, SameMounts, Zenon
  <2>4. StagedIsMounted'
    BY <1>1, <2>3, Zenon DEF MountsInv, StagedIsMounted, history
  <2>5. StagingAccounted'
    BY <1>1, <1>3, <2>3, Zenon DEF MountsInv, StagingAccounted, delVars, history
  <2>6. RunningPodSeesVolume' /\ GonePodLeavesNothing'
    BY <1>1, <1>3, <2>3, Zenon
       DEF MountsInv, RunningPodSeesVolume, GonePodLeavesNothing, PodIn, history
  <2> QED
    BY <1>1, <1>3, <2>1, <2>2, <2>4, <2>5, <2>6, HandlerFrame
<1> QED
  BY <1>2, <1>3 DEF UnpublishRecheck

LEMMA NodeUnstageVolumeStep ==
  ASSUME MountsInv, NEW s \in Slots, NodeUnstageVolume(s)
  PROVE  MountsInv'
<1>1. /\ call[s].op = "unstage" /\ call[s].pc = "unmount" /\ End(s) /\ SetStaged(s, "no")
      /\ paths' = IF HasVolume(Staging) THEN paths ELSE paths \ {Staging}
      /\ stolen' = FALSE /\ UNCHANGED <<mode, lv, mounts, pod, claim, delVars, errors, disturbed>>
  BY Zenon DEF NodeUnstageVolume, At, LikelyMountPoint
<1>2. s = "kubelet" /\ staged' = "no"
  BY <1>1, CallPaths, Zenon DEF SetStaged
<1>3. mounts \in [Paths -> Seq(Mounted)] /\ paths \subseteq Paths /\ lv \in BOOLEAN /\ pod \in [Pods -> PodStates]
  BY Zenon DEF MountsInv, MountsTypeOK, PodStates
<1>4. OwnCall(s)
  BY <1>1, <1>2, <1>3, Zenon DEF OwnCall
<1>5. \A x : /\ HasVolume(x)' <=> HasVolume(x)
             /\ Holds(x)' <=> Holds(x)
             /\ IsMountPoint(x)' <=> IsMountPoint(x)
  BY <1>1, SameMounts, Zenon
<1>6. StagedIsMounted'
  BY <1>2, Zenon DEF StagedIsMounted
<1>7. StagingAccounted'
  BY <1>1, <1>5, Zenon DEF MountsInv, StagingAccounted
<1>8. RunningPodSeesVolume'
  <2>1. PodIn(Published) = {}
    BY <1>1, <1>2, Zenon DEF MountsInv, CallsOrdered, Needed
  <2> QED
    BY <1>1, <2>1, Zenon DEF RunningPodSeesVolume, PodIn
<1>9. GonePodLeavesNothing'
  BY <1>1, <1>5, Zenon DEF MountsInv, GonePodLeavesNothing, PodIn
<1> QED
  BY <1>1, <1>3, <1>4, <1>6, <1>7, <1>8, <1>9, HandlerFrame, Zenon

LEMMA HandlerStepStep ==
  ASSUME MountsInv, NEW s \in Slots, HandlerStep(s)
  PROVE  MountsInv'
BY StageEnsureStep, StageMountStep, PublishEnsureStep, PublishMountStep, UnpublishUnmountStep,
   UnpublishRecheckStep, NodeUnstageVolumeStep, Zenon DEF HandlerStep

-----------------------------------------------------------------------------
(* Kubelet and the users *)

\* Steps that leave the host and the cleanup alone.
LEMMA HostFrame ==
  ASSUME MountsInv, UNCHANGED <<mode, hostVars, delVars, history>>,
         MountsTypeOK', CallsOrdered', BoundWhileUsed',
         staged' = "no" => staged = "no",
         staged' = "yes" => staged = "yes",
         claim' = "bound" => claim = "bound",
         \A p \in Pods : (pod'[p] \in Published => pod[p] \in Published) /\ (pod'[p] = "gone" => pod[p] = "gone")
  PROVE  MountsInv'
<1>1. UNCHANGED <<mode, lv, paths, mounts, del, ref, disturbed, stolen>>
  BY Zenon DEF hostVars, delVars, history
<1>2. \A x : /\ HasVolume(x)' <=> HasVolume(x)
             /\ Holds(x)' <=> Holds(x)
             /\ IsMountPoint(x)' <=> IsMountPoint(x)
  BY <1>1, SameMounts, Zenon
<1>3. StagedIsMounted'
  BY <1>1, <1>2, Zenon DEF MountsInv, StagedIsMounted
<1>4. StagingAccounted'
  BY <1>1, <1>2, Zenon DEF MountsInv, StagingAccounted
<1>5. RunningPodSeesVolume' /\ GonePodLeavesNothing'
  BY <1>1, <1>2, Zenon DEF MountsInv, RunningPodSeesVolume, GonePodLeavesNothing, PodIn
<1> QED
  BY <1>3, <1>4, <1>5, Zenon DEF MountsInv

LEMMA BecomesStep ==
  ASSUME MountsInv, NEW p \in Pods,
         PodStarts(p) \/ ContainerStarts(p) \/ PodStops(p) \/ PodForced(p) \/ KubeletKills(p)
  PROVE  MountsInv'
<1>1. /\ UNCHANGED <<mode, hostVars, staged, claim, call, delVars, errors, history>>
      /\ \E b \in PodStates : /\ pod' = [pod EXCEPT ![p] = b]
                              /\ \/ pod[p] = "absent" /\ b = "starting" /\ claim = "bound"
                                 \/ pod[p] = "published" /\ b = "running"
                                 \/ pod[p] \in {"starting", "published", "running", "forced"}
                                    /\ b = "stopping"
                                 \/ pod[p] = "running" /\ b = "forced"
  BY Zenon DEF PodStarts, ContainerStarts, PodStops, PodForced, KubeletKills, Becomes, PodStates
<1>2. MountsTypeOK /\ pod \in [Pods -> PodStates]
  BY Zenon DEF MountsInv, MountsTypeOK, PodStates
<1>3. /\ pod' \in [Pods -> PodStates]
      /\ \A q \in Pods : \/ pod'[q] = pod[q]
                         \/ pod[q] = "absent" /\ pod'[q] = "starting" /\ claim = "bound"
                         \/ pod[q] = "published" /\ pod'[q] = "running"
                         \/ pod[q] \in {"starting", "published", "running",
                            "forced"} /\ pod'[q] = "stopping"
                         \/ pod[q] = "running" /\ pod'[q] = "forced"
  BY <1>1, <1>2, Zenon
<1>4. MountsTypeOK'
  BY <1>1, <1>2, <1>3, ZenonT(30) DEF MountsTypeOK, hostVars, delVars, history, PodStates
<1>5. \A q \in Pods : /\ pod'[q] \in Published => pod[q] \in Published
                      /\ pod'[q] = "gone" => pod[q] = "gone"
                      /\ pod'[q] \in Wanting => pod[q] \in Wanting \/ (pod[q] = "absent" /\ claim = "bound")
  BY <1>3, Zenon DEF Published, Wanting
<1>6. CallsOrdered'
  <2>1. Needed' => Needed
    <3>1. PodIn(Published)' # {} => PodIn(Published) # {}
      BY <1>5, Zenon DEF PodIn
    <3>2. ASSUME NEW s \in Slots, call[s].op = "publish", pod'[call[s].path] \in Wanting
          PROVE  pod[call[s].path] \in Wanting
      BY <1>5, <3>2, Zenon DEF MountsInv, CallsOrdered
    <3> QED
      BY <1>1, <3>1, <3>2, Zenon DEF Needed
  <2>2. \A s \in Slots :
          /\ call[s].op = "publish" => pod'[call[s].path] # "absent"
          /\ call[s].op = "unpublish" => pod'[call[s].path] \in {"stopping", "gone"}
    BY <1>3, Zenon DEF MountsInv, CallsOrdered
  <2>3. call["kubelet"].op = "publish" => pod'[call["kubelet"].path] \in {"starting", "stopping"}
    BY <1>3, Zenon DEF MountsInv, CallsOrdered, Slots
  <2> QED
    BY <1>1, <2>1, <2>2, <2>3, Zenon DEF MountsInv, CallsOrdered
<1>7. BoundWhileUsed'
  BY <1>1, <1>5, Zenon DEF MountsInv, BoundWhileUsed, delVars, PodIn
<1> QED
  BY <1>1, <1>4, <1>5, <1>6, <1>7, HostFrame, Zenon

LEMMA DeleteClaimStep ==
  ASSUME MountsInv, DeleteClaim
  PROVE  MountsInv'
<1>1. /\ UNCHANGED <<mode, hostVars, pod, staged, call, delVars, errors, history>>
      /\ PodIn(Wanting) = {} /\ claim' = "deleted"
  BY Zenon DEF DeleteClaim
<1>2. MountsTypeOK'
  BY <1>1, Zenon DEF MountsInv, MountsTypeOK, hostVars, delVars, history
<1>3. CallsOrdered'
  BY <1>1, Zenon DEF MountsInv, CallsOrdered, Needed, PodIn
<1>4. BoundWhileUsed'
  BY <1>1, Zenon DEF BoundWhileUsed, PodIn
<1> QED
  BY <1>1, <1>2, <1>3, <1>4, HostFrame, Zenon

LEMMA BeginFacts ==
  ASSUME call \in [Slots -> Calls], NEW x \in Paths, NEW q \in {"ensure", "unmount"},
         NEW op \in {"stage", "publish", "unpublish", "unstage"}, Begin(op, x, q)
  PROVE  /\ call' \in [Slots -> Calls] /\ call'["late"] = call["late"]
         /\ call'["kubelet"].op = op /\ call'["kubelet"].path = x
<1> DEFINE c == [op |-> op, path |-> x, pc |-> q]
<1>1. c \in Calls /\ c.op = op /\ c.path = x
  BY Zenon DEF Calls
<1>2. call' = [call EXCEPT !["kubelet"] = c]
  BY Zenon DEF Begin
<1> HIDE DEF c
<1> QED
  BY <1>1, <1>2, Zenon DEF Slots

LEMMA KubeletCallsStep ==
  ASSUME MountsInv, KubeletCalls
  PROVE  MountsInv'
<1>1. UNCHANGED <<mode, hostVars, pod, claim, delVars, errors, history>>
  BY Zenon DEF KubeletCalls, KubeletUnpublishes, CallBegins
<1>2. /\ MountsTypeOK /\ call \in [Slots -> Calls] /\ staged \in {"no", "uncertain", "yes"}
      /\ Staging \in Paths /\ \A p \in Pods : p \in Paths
  BY Zenon DEF MountsInv, MountsTypeOK, Paths
<1> DEFINE c == call'["kubelet"]
           Begun ==
             /\ call' \in [Slots -> Calls] /\ call'["late"] = call["late"]
             /\ \/ c.op = "stage" /\ staged # "yes" /\ staged' = "uncertain"
                \/ /\ c.op = "publish" /\ c.path \in Pods /\ pod[c.path] = "starting"
                   /\ staged = "yes" /\ staged' = staged
                \/ c.op = "unpublish" /\ c.path \in Pods /\ pod[c.path] = "stopping" /\ staged' = staged
                \/ c.op = "unstage" /\ staged' = staged /\ PodIn(Wanting) = {}
<1>3. Begun
  <2>1. CASE Begin("stage", Staging, "ensure") /\ staged # "yes" /\ staged' = "uncertain"
    BY <1>2, <2>1, BeginFacts, Zenon
  <2>2. ASSUME NEW p \in PodIn({"starting"}), Begin("publish", p, "ensure"), staged = "yes", staged' = staged
        PROVE  Begun
    BY <1>2, <2>2, BeginFacts DEF PodIn
  <2>3. ASSUME NEW p \in Pods, KubeletUnpublishes(p)
        PROVE  Begun
    BY <1>2, <2>3, BeginFacts, Zenon DEF KubeletUnpublishes
  <2>4. CASE Begin("unstage", Staging, "unmount") /\ staged' = staged /\ PodIn(Wanting \cup {"stopping", "forced"}) = {}
    BY <1>2, <2>4, BeginFacts, Zenon DEF PodIn
  <2> QED
    BY <2>1, <2>2, <2>3, <2>4, Zenon DEF KubeletCalls
<1>4. staged' \in {staged, "uncertain"}
  BY <1>3
<1> HIDE DEF c
<1>5. MountsTypeOK'
  BY <1>1, <1>2, <1>3, <1>4, ZenonT(30) DEF MountsTypeOK, hostVars, delVars, history
<1>6. CallsOrdered'
  <2>1. Needed' => staged' = "yes" /\ c.op # "unstage"
    <3>1. CASE c.op = "publish"
      BY <1>3, <3>1, Zenon
    <3>2. CASE c.op # "publish"
      <4>1. Needed' => Needed /\ PodIn(Wanting) # {}
        <5>1. PodIn(Published)' # {} => Needed /\ PodIn(Wanting) # {}
          BY <1>1, Zenon DEF Needed, PodIn, Wanting
        <5>2. ASSUME NEW s \in Slots, call'[s].op = "publish", pod[call'[s].path] \in Wanting
              PROVE  Needed /\ PodIn(Wanting) # {}
          <6>1. s = "late" /\ call'[s] = call[s]
            BY <1>3, <3>2, <5>2, Zenon DEF c, Slots
          <6>2. call[s].path \in Pods
            BY <5>2, <6>1, Zenon DEF MountsInv, CallsOrdered
          <6> QED
            BY <5>2, <6>1, <6>2, Zenon DEF Needed, PodIn
        <5> QED
          BY <1>1, <5>1, <5>2, Zenon DEF Needed
      <4>2. Needed => staged = "yes" /\ call["kubelet"].op # "unstage"
        BY Zenon DEF MountsInv, CallsOrdered
      <4>3. c.op = "stage" => staged # "yes"
        BY <1>3, Zenon
      <4> QED
        BY <1>3, <3>2, <4>1, <4>2, <4>3, Zenon
    <3> QED
      BY <3>1, <3>2, Zenon
  <2>2. \A s \in Slots :
          /\ call'[s].op \in {"publish", "unpublish"} => call'[s].path \in Pods
          /\ call'[s].op = "publish" => pod[call'[s].path] # "absent"
          /\ call'[s].op = "unpublish" => pod[call'[s].path] \in {"stopping", "gone"}
    BY <1>3, Zenon DEF MountsInv, CallsOrdered, Slots, c
  <2>3. /\ c.op = "stage" => staged' = "uncertain"
        /\ c.op = "publish" => pod[c.path] \in {"starting", "stopping"}
    BY <1>3, Zenon
  <2> QED
    BY <1>1, <1>3, <2>1, <2>2, <2>3, Zenon DEF MountsInv, CallsOrdered, c
<1>7. BoundWhileUsed'
  BY <1>1, Zenon DEF MountsInv, BoundWhileUsed, delVars, PodIn
<1>8. \A p \in Pods : pod'[p] = pod[p]
  BY <1>1, Zenon
<1> QED
  BY <1>1, <1>4, <1>5, <1>6, <1>7, <1>8, HostFrame, Zenon

LEMMA KubeletGivesUpStep ==
  ASSUME MountsInv, KubeletGivesUp
  PROVE  MountsInv'
<1>1. /\ UNCHANGED <<mode, hostVars, podVars, delVars, history>>
      /\ call["kubelet"].pc \in {"mount", "recheck"}
      /\ errors < MaxErrors /\ errors' = errors + 1
  BY Zenon DEF KubeletGivesUp
<1>2. MountsTypeOK /\ call \in [Slots -> Calls] /\ errors \in 0..MaxErrors
  BY Zenon DEF MountsInv, MountsTypeOK
<1>3. call'["kubelet"] = NoCall /\ call'["late"] = call["kubelet"] /\ call' \in [Slots -> Calls]
  BY <1>2, CallFacts DEF KubeletGivesUp, Slots
<1>4. errors' \in 0..MaxErrors
  BY <1>1, <1>2, MountBounds
<1>5. MountsTypeOK'
  BY <1>1, <1>2, <1>3, <1>4, ZenonT(30) DEF MountsTypeOK, hostVars, podVars, delVars, history
<1>6. CallsOrdered'
  <2>1. pod' = pod /\ staged' = staged
    BY <1>1, Zenon DEF podVars
  <2>2. \A s \in Slots : call'[s] = NoCall \/ \E t \in Slots : call'[s] = call[t]
    BY <1>3, Zenon DEF Slots
  <2>3. Needed' => Needed
    BY <2>1, <2>2, CallFacts, Zenon DEF Needed, PodIn
  <2>4. \A s \in Slots :
          /\ call'[s].op \in {"publish", "unpublish"} => call'[s].path \in Pods
          /\ call'[s].op = "publish" => pod[call'[s].path] # "absent"
          /\ call'[s].op = "unpublish" => pod[call'[s].path] \in {"stopping", "gone"}
    <3> TAKE s \in Slots
    <3>1. CASE call'[s] = NoCall
      BY <3>1, CallFacts, Zenon
    <3>2. ASSUME NEW t \in Slots, call'[s] = call[t]
          PROVE  /\ call'[s].op \in {"publish", "unpublish"} => call'[s].path \in Pods
                 /\ call'[s].op = "publish" => pod[call'[s].path] # "absent"
                 /\ call'[s].op = "unpublish" => pod[call'[s].path] \in {"stopping", "gone"}
      BY <3>2, Zenon DEF MountsInv, CallsOrdered
    <3> QED
      BY <2>2, <3>1, <3>2, Zenon
  <2>5. Needed' => staged' = "yes"
    BY <2>1, <2>3, Zenon DEF MountsInv, CallsOrdered
  <2> QED
    BY <1>1, <1>3, <2>1, <2>4, <2>5, CallFacts, Zenon DEF CallsOrdered
<1>7. BoundWhileUsed'
  BY <1>1, Zenon DEF MountsInv, BoundWhileUsed, podVars, delVars, PodIn
<1>8. UNCHANGED <<mode, hostVars, delVars, history, staged, claim>> /\ \A p \in Pods : pod'[p] = pod[p]
  BY <1>1, Zenon DEF podVars
<1> QED
  BY <1>5, <1>6, <1>7, <1>8, HostFrame, Zenon

-----------------------------------------------------------------------------
(* DeleteVolume and the collectors *)

\* What a cleanup takes, nobody relies on: the claim is deleted, the volume is
\* not staged, or it goes down as stolen.
LEMMA CleanupFrame ==
  ASSUME MountsInv, UNCHANGED <<mode, pod, staged, call>>, NoteTheft,
         claim' = claim \/ (claim # "bound" /\ claim' # "bound"),
         by' = "DeleteVolume" => claim # "bound",
         MountsTypeOK', StagingAccounted', GonePodLeavesNothing'
  PROVE  MountsInv'
<1>1. CallsOrdered'
  BY Zenon DEF MountsInv, CallsOrdered, Needed, PodIn
<1>2. BoundWhileUsed'
  BY Zenon DEF MountsInv, BoundWhileUsed, PodIn
<1>3. ~stolen' => ~stolen /\ (claim = "bound" /\ staged = "yes" => UNCHANGED <<lv, paths, mounts>>)
  BY Zenon DEF NoteTheft, hostVars
<1>4. StagedIsMounted'
  <2> SUFFICES ASSUME claim' = "bound", staged = "yes", ~stolen'
               PROVE  IF mode = "mount" THEN HasVolume(Staging)' ELSE lv'
    BY Zenon DEF StagedIsMounted
  <2>1. UNCHANGED <<lv, mounts>> /\ claim = "bound" /\ ~stolen
    BY <1>3, Zenon
  <2> QED
    BY <2>1, SameMounts, Zenon DEF MountsInv, StagedIsMounted
<1>5. RunningPodSeesVolume'
  <2> SUFFICES ASSUME ~stolen', NEW p \in Pods, pod[p] \in Published
               PROVE  HasVolume(p)' /\ lv'
    BY Zenon DEF RunningPodSeesVolume, PodIn
  <2>1. staged = "yes" /\ claim = "bound"
    BY Zenon DEF MountsInv, CallsOrdered, Needed, BoundWhileUsed, PodIn, Wanting
  <2>2. UNCHANGED <<lv, mounts>> /\ ~stolen
    BY <1>3, <2>1, Zenon
  <2> QED
    BY <2>2, SameMounts, Zenon DEF MountsInv, RunningPodSeesVolume, PodIn
<1> QED
  BY <1>1, <1>2, <1>4, <1>5, Zenon DEF MountsInv

\* Steps of the cleanup that leave the host alone.
LEMMA CleanupGoesOn ==
  ASSUME MountsInv,
         UNCHANGED <<mode, hostVars, podVars, call, stolen>>,
         del' \in {"none", "list", "unmount", "lvremove"}, refs' \subseteq Paths, ref' \in Paths,
         by' \in {"none", "DeleteVolume", "collector"}, by' = "DeleteVolume" => claim # "bound",
         errors' \in 0..MaxErrors, disturbed' \in BOOLEAN, disturbed => disturbed',
         del = "remove" /\ ref = Staging => disturbed' \/ HasVolume(Staging)
  PROVE  MountsInv'
<1>1. UNCHANGED <<mode, lv, paths, mounts, pod, staged, claim, call, stolen>>
  BY Zenon DEF hostVars, podVars
<1>2. \A x : /\ HasVolume(x)' <=> HasVolume(x)
             /\ Holds(x)' <=> Holds(x)
             /\ IsMountPoint(x)' <=> IsMountPoint(x)
  BY <1>1, SameMounts, Zenon
<1>3. MountsTypeOK'
  BY <1>1, ZenonT(30) DEF MountsInv, MountsTypeOK
<1>4. StagingAccounted'
  BY <1>1, <1>2, Zenon DEF MountsInv, StagingAccounted
<1>5. GonePodLeavesNothing'
  BY <1>1, <1>2, Zenon DEF MountsInv, GonePodLeavesNothing, PodIn
<1>6. NoteTheft
  BY <1>1, Zenon DEF NoteTheft, MountsInv, MountsTypeOK
<1> QED
  BY <1>1, <1>3, <1>4, <1>5, <1>6, CleanupFrame, Zenon

LEMMA BeginCleanupStep ==
  ASSUME MountsInv, DeleteVolume \/ ScanFindsOrphan \/ CollectorStrays
  PROVE  MountsInv'
<1>1. /\ del = "none" /\ del' = "list"
      /\ by' = "collector" \/ (by' = "DeleteVolume" /\ claim # "bound")
      /\ UNCHANGED <<mode, hostVars, podVars, call, refs, ref, disturbed, stolen>>
      /\ errors' = errors \/ (errors < MaxErrors /\ errors' = errors + 1)
  BY Zenon DEF DeleteVolume, ScanFindsOrphan, CollectorStrays, BeginCleanup, history
<1>2. refs \subseteq Paths /\ ref \in Paths /\ errors \in 0..MaxErrors /\ disturbed \in BOOLEAN
  BY Zenon DEF MountsInv, MountsTypeOK
<1>3. errors' \in 0..MaxErrors
  BY <1>1, <1>2, MountBounds
<1> QED
  BY <1>1, <1>2, <1>3, CleanupGoesOn, Zenon

\* A cleanup that runs is somebody's.
LEMMA Cleaning ==
  ASSUME MountsInv
  PROVE  by \in {"none", "DeleteVolume", "collector"} /\ (by = "DeleteVolume" => claim # "bound")
BY Zenon DEF MountsInv, MountsTypeOK, BoundWhileUsed

LEMMA FindMountTargetsStep ==
  ASSUME MountsInv, FindMountTargets
  PROVE  MountsInv'
<1>1. /\ del = "list" /\ UNCHANGED <<mode, hostVars, podVars, call, errors, disturbed, stolen>>
      /\ \E R \in SUBSET Paths : NextRef(R)
  BY Zenon DEF FindMountTargets, history
<1>2. del' \in {"unmount", "lvremove"} /\ refs' \subseteq Paths /\ ref' \in Paths /\ by' = by
  BY <1>1, Zenon DEF NextRef, Paths
<1>3. errors \in 0..MaxErrors /\ disturbed \in BOOLEAN
  BY Zenon DEF MountsInv, MountsTypeOK
<1> QED
  BY <1>1, <1>2, <1>3, Cleaning, CleanupGoesOn, Zenon

LEMMA RemoveFailsStep ==
  ASSUME MountsInv, RemoveFails
  PROVE  MountsInv'
<1>1. /\ del = "remove" /\ del' = "list" /\ disturbed' = TRUE /\ refs' = {} /\ ref' = Staging
      /\ errors < MaxErrors /\ errors' = errors + 1 /\ UNCHANGED <<mode, hostVars, podVars, call, by, stolen>>
  BY Zenon DEF RemoveFails, NoRefs
<1>2. errors \in 0..MaxErrors
  BY Zenon DEF MountsInv, MountsTypeOK
<1>3. errors' \in 0..MaxErrors /\ Staging \in Paths
  BY <1>1, <1>2, MountBounds DEF Paths
<1> QED
  BY <1>1, <1>2, <1>3, Cleaning, CleanupGoesOn, Zenon

LEMMA CleanupUnmountStep ==
  ASSUME MountsInv, CleanupUnmount
  PROVE  MountsInv'
<1>1. /\ del = "unmount" /\ del' = "remove"
      /\ UNCHANGED <<mode, lv, paths, podVars, call, by, refs, ref, errors, disturbed>> /\ NoteTheft
  BY Zenon DEF CleanupUnmount
<1>2. PICK r \in Paths : r = ref
  BY Zenon DEF MountsInv, MountsTypeOK
<1>3. IF IsMountPoint(r) THEN Pop(r) ELSE UNCHANGED mounts
  BY <1>2, Zenon DEF CleanupUnmount
<1>4. mounts \in [Paths -> Seq(Mounted)] /\ Staging \in Paths /\ mode \in {"mount", "block"}
  BY Zenon DEF MountsInv, MountsTypeOK, Paths
<1>5. /\ mounts' \in [Paths -> Seq(Mounted)]
      /\ \A y \in Paths \ {r} : mounts'[y] = mounts[y]
      /\ ~IsMountPoint(r) => mounts'[r] = mounts[r]
      /\ Holds(r)' => Holds(r)
      /\ mounts[r] = <<"volume">> => mounts'[r] = <<>>
  <2>1. CASE IsMountPoint(r)
    BY <1>3, <1>4, <2>1, PopFacts, Zenon
  <2>2. CASE ~IsMountPoint(r)
    BY <1>3, <1>4, <2>2, SameMounts, MountFacts, Zenon
  <2> QED
    BY <2>1, <2>2, Zenon
<1>6. \A y \in Paths \ {r} : /\ HasVolume(y)' <=> HasVolume(y)
                             /\ Holds(y)' <=> Holds(y)
                             /\ IsMountPoint(y)' <=> IsMountPoint(y)
  BY <1>5, SameMounts, Zenon
<1>7. MountsTypeOK'
  BY <1>1, <1>5, ZenonT(30) DEF MountsInv, MountsTypeOK, podVars, NoteTheft
<1>8. StagingAccounted'
  <2>1. /\ mounts'[Staging] \in {<<>>, <<"volume">>}
        /\ mounts[Staging] = <<>> => mounts'[Staging] = <<>>
    BY <1>4, <1>5, Zenon DEF MountsInv, StagingAccounted, IsMountPoint
  <2>2. mode = "mount" /\ ~lv => \A x \in Paths : ~Holds(x)'
    BY <1>5, <1>6, Zenon DEF MountsInv, StagingAccounted
  <2>3. r # Staging => (HasVolume(Staging)' <=> HasVolume(Staging))
    BY <1>4, <1>6, Zenon
  <2> QED
    BY <1>1, <1>2, <2>1, <2>2, <2>3 DEF MountsInv, StagingAccounted, podVars
<1>9. GonePodLeavesNothing'
  <2>1. ~IsMountPoint(r) => ~IsMountPoint(r)'
    BY <1>5, SameMounts, Zenon
  <2>2. \A p \in Pods : pod[p] = "gone" => ~IsMountPoint(p)' /\ p \notin paths
    BY <1>6, <2>1, Zenon DEF MountsInv, GonePodLeavesNothing, PodIn, Paths
  <2> QED
    BY <1>1, <2>2, ZenonT(60) DEF GonePodLeavesNothing, PodIn, podVars
<1> QED
  BY <1>1, <1>7, <1>8, <1>9, Cleaning, CleanupFrame, Zenon DEF podVars

LEMMA CleanupRemoveStep ==
  ASSUME MountsInv, CleanupRemove
  PROVE  MountsInv'
<1>1. del = "remove" /\ UNCHANGED <<mode, lv, mounts, podVars, call, errors, disturbed>> /\ NoteTheft
  BY Zenon DEF CleanupRemove
<1>2. /\ errors \in 0..MaxErrors /\ disturbed \in BOOLEAN
      /\ Staging \in Paths /\ ref \in Paths /\ refs \subseteq Paths
      /\ mounts \in [Paths -> Seq(Mounted)] /\ paths \subseteq Paths
  BY Zenon DEF MountsInv, MountsTypeOK, Paths
<1>3. CASE ~IsMountPoint(ref) /\ paths' = paths \ {ref} /\ NextRef(refs \ {ref})
  <2>1. del' \in {"unmount", "lvremove"} /\ refs' \subseteq Paths /\ ref' \in Paths /\ by' = by
    BY <1>2, <1>3, Zenon DEF NextRef
  <2>2. \A x : /\ HasVolume(x)' <=> HasVolume(x)
               /\ Holds(x)' <=> Holds(x)
               /\ IsMountPoint(x)' <=> IsMountPoint(x)
    BY <1>1, SameMounts, Zenon
  <2>3. MountsTypeOK'
    BY <1>1, <1>2, <1>3, <2>1, ZenonT(30) DEF MountsInv, MountsTypeOK, podVars, NoteTheft
  <2>4. StagingAccounted'
    BY <1>1, <1>3, <2>2, Zenon DEF MountsInv, StagingAccounted, podVars
  <2>5. GonePodLeavesNothing'
    BY <1>1, <1>3, <2>2, Zenon DEF MountsInv, GonePodLeavesNothing, PodIn, podVars
  <2> QED
    BY <1>1, <2>1, <2>3, <2>4, <2>5, Cleaning, CleanupFrame, Zenon DEF podVars
<1>4. CASE /\ IsMountPoint(ref) /\ UNCHANGED paths /\ NoRefs
           /\ (del' \in {"list", "lvremove"} /\ UNCHANGED by) \/ CleanupEnds
  <2>1. ref = Staging => HasVolume(Staging)
    BY <1>2, <1>4, MountFacts, Zenon DEF MountsInv, StagingAccounted
  <2>2. stolen' = stolen
    BY <1>1, <1>4, Zenon DEF NoteTheft, hostVars, MountsInv, MountsTypeOK
  <2>3. /\ del' \in {"none", "list", "lvremove"} /\ refs' \subseteq Paths /\ ref' \in Paths
        /\ by' \in {"none", "DeleteVolume", "collector"} /\ (by' = "DeleteVolume" => claim # "bound")
    BY <1>2, <1>4, Cleaning, Zenon DEF NoRefs, CleanupEnds
  <2> QED
    BY <1>1, <1>2, <1>4, <2>1, <2>2, <2>3, CleanupGoesOn, Zenon DEF hostVars
<1> QED
  BY <1>3, <1>4, Zenon DEF CleanupRemove

LEMMA RemoveLogicalVolumeStep ==
  ASSUME MountsInv, RemoveLogicalVolume
  PROVE  MountsInv'
<1>1. /\ del = "lvremove" /\ del' = "none" /\ by' = "none" /\ NoteTheft
      /\ UNCHANGED <<mode, paths, mounts, pod, staged, call, refs, ref, errors, disturbed>>
      /\ \/ ~InUse /\ lv' = FALSE /\ claim' = IF by = "DeleteVolume" THEN "removed" ELSE claim
         \/ UNCHANGED <<lv, claim>>
  BY Zenon DEF RemoveLogicalVolume, CleanupEnds
<1>2. claim' = claim \/ (claim # "bound" /\ claim' = "removed")
  BY <1>1, Cleaning, Zenon
<1>3. \A x : /\ HasVolume(x)' <=> HasVolume(x)
             /\ Holds(x)' <=> Holds(x)
             /\ IsMountPoint(x)' <=> IsMountPoint(x)
  BY <1>1, SameMounts, Zenon
<1>4. MountsTypeOK'
  <2>1. lv' \in BOOLEAN /\ claim' \in {"bound", "deleted", "removed"}
    BY <1>1, <1>2, Zenon DEF MountsInv, MountsTypeOK
  <2> QED
    BY <1>1, <2>1, ZenonT(30) DEF MountsInv, MountsTypeOK, NoteTheft
<1>5. StagingAccounted'
  <2>1. UNCHANGED <<mode, paths, mounts, staged, disturbed>> /\ del # "remove"
    BY <1>1, Zenon
  <2>2. mode = "mount" /\ ~lv' => \A x \in Paths : ~Holds(x)
    <3>1. CASE ~InUse
      BY <3>1, Zenon DEF InUse
    <3>2. CASE lv' = lv
      BY <3>2, Zenon DEF MountsInv, StagingAccounted
    <3> QED
      BY <1>1, <3>1, <3>2, Zenon
  <2> QED
    BY <1>3, <2>1, <2>2, Zenon DEF MountsInv, StagingAccounted
<1>6. GonePodLeavesNothing'
  BY <1>1, <1>3, Zenon DEF MountsInv, GonePodLeavesNothing, PodIn
<1> QED
  BY <1>1, <1>2, <1>4, <1>5, <1>6, CleanupFrame, Zenon

-----------------------------------------------------------------------------
(* Ends of the process and of the node *)

LEMMA CallsLostStep ==
  ASSUME MountsInv, CallsLost
  PROVE  MountsInv'
<1>1. /\ UNCHANGED <<mode, lv, paths, mounts, pod, staged, claim, errors, stolen>>
      /\ del' = "none" /\ by' = "none" /\ refs' = {} /\ ref' = Staging
      /\ disturbed' = (disturbed \/ del \in {"unmount", "remove"})
  BY Zenon DEF CallsLost, CleanupEnds, hostVars, podVars, NoRefs
<1>2. call' \in [Slots -> Calls] /\ \A s \in Slots : call'[s] = NoCall
  BY CallFacts, Zenon DEF CallsLost
<1>3. \A x : /\ HasVolume(x)' <=> HasVolume(x)
             /\ Holds(x)' <=> Holds(x)
             /\ IsMountPoint(x)' <=> IsMountPoint(x)
  BY <1>1, SameMounts, Zenon
<1>4. MountsTypeOK'
  BY <1>1, <1>2, ZenonT(30) DEF MountsInv, MountsTypeOK, Paths
<1>5. CallsOrdered'
  <2>1. Needed' => Needed
    BY <1>1, <1>2, CallFacts, Zenon DEF Needed, PodIn
  <2>2. Needed' => staged' = "yes"
    BY <1>1, <2>1, Zenon DEF MountsInv, CallsOrdered
  <2> QED
    BY <1>2, <2>2, CallFacts, Zenon DEF CallsOrdered, Slots
<1>6. BoundWhileUsed'
  BY <1>1, Zenon DEF MountsInv, BoundWhileUsed, PodIn
<1>7. StagedIsMounted'
  BY <1>1, <1>3, Zenon DEF MountsInv, StagedIsMounted
<1>8. StagingAccounted'
  BY <1>1, <1>3, Zenon DEF MountsInv, StagingAccounted
<1>9. RunningPodSeesVolume' /\ GonePodLeavesNothing'
  BY <1>1, <1>3, Zenon DEF MountsInv, RunningPodSeesVolume, GonePodLeavesNothing, PodIn
<1> QED
  BY <1>4, <1>5, <1>6, <1>7, <1>8, <1>9, Zenon DEF MountsInv

LEMMA NodeRestartsStep ==
  ASSUME MountsInv, NodeRestarts
  PROVE  MountsInv'
<1>1. /\ UNCHANGED <<mode, lv, paths, claim>>
      /\ errors < MaxErrors /\ errors' = errors + 1
      /\ mounts' = [x \in Paths |-> <<>>] /\ staged' = "no"
      /\ del' = "none" /\ by' = "none" /\ refs' = {} /\ ref' = Staging
      /\ disturbed' = TRUE /\ stolen' = FALSE
  BY Zenon DEF NodeRestarts, CleanupEnds, NoRefs
<1>2. call' \in [Slots -> Calls] /\ \A s \in Slots : call'[s] = NoCall
  BY CallFacts, Zenon DEF NodeRestarts
<1>3. /\ pod' \in [Pods -> PodStates]
      /\ \A p \in Pods : \/ pod[p] \in Published /\ pod'[p] = "starting"
                         \/ pod[p] = "forced" /\ pod'[p] = "stopping"
                         \/ pod[p] \notin {"published", "running", "forced"} /\ pod'[p] = pod[p]
  BY Zenon DEF NodeRestarts, MountsInv, MountsTypeOK, PodStates, Published
<1>4. errors' \in 0..MaxErrors
  BY <1>1, MountBounds DEF MountsInv, MountsTypeOK
<1>5. /\ mounts' \in [Paths -> Seq(Mounted)] /\ Staging \in Paths
      /\ \A x \in Paths : mounts'[x] = <<>> /\ ~IsMountPoint(x)' /\ ~Holds(x)'
  BY <1>1 DEF IsMountPoint, Holds, Paths
<1>6. MountsTypeOK'
  BY <1>1, <1>2, <1>3, <1>4, <1>5, ZenonT(30) DEF MountsInv, MountsTypeOK, PodStates
<1>7. CallsOrdered'
  <2>1. ~Needed'
    BY <1>2, <1>3, CallFacts, Zenon DEF Needed, PodIn, Published
  <2> QED
    BY <1>2, <2>1, CallFacts, Zenon DEF CallsOrdered, Slots
<1>8. BoundWhileUsed'
  BY <1>1, <1>3, Zenon DEF MountsInv, BoundWhileUsed, PodIn, Wanting, Published
<1>9. StagedIsMounted'
  BY <1>1, Zenon DEF StagedIsMounted
<1>10. StagingAccounted'
  BY <1>1, <1>5, Zenon DEF MountsInv, StagingAccounted
<1>11. RunningPodSeesVolume'
  BY <1>3, Zenon DEF RunningPodSeesVolume, PodIn, Published
<1>12. GonePodLeavesNothing'
  BY <1>1, <1>3, <1>5, Zenon DEF MountsInv, GonePodLeavesNothing, PodIn, Paths
<1> QED
  BY <1>6, <1>7, <1>8, <1>9, <1>10, <1>11, <1>12, Zenon DEF MountsInv

LEMMA SameMountVars ==
  ASSUME MountsInv, UNCHANGED mountVars
  PROVE  MountsInv'
<1>1. UNCHANGED <<mode, lv, paths, mounts, pod, staged, claim, call, del, by, refs, ref, errors, disturbed, stolen>>
  BY Zenon DEF mountVars, hostVars, podVars, delVars, history
<1>2. MountsTypeOK'
  BY <1>1, ZenonT(30) DEF MountsInv, MountsTypeOK
<1>4. CallsOrdered'
  BY <1>1, Zenon DEF MountsInv, CallsOrdered, Needed, PodIn
<1>3. BoundWhileUsed'
  BY <1>1, Zenon DEF MountsInv, BoundWhileUsed, PodIn
<1> QED
  BY <1>1, <1>2, <1>3, <1>4, HostFrame, Zenon DEF hostVars, delVars, history

-----------------------------------------------------------------------------
(* The driver processes *)

ServedInv == ProcessTypeOK /\ CallsServed

\* A process that has served goes down only without calls, or loses them.
LEMMA ServedFrame ==
  ASSUME ServedInv, NEW n \in Nodes, NEW p \in Phases, SetPhase(n, p),
         csiDriver' \in BOOLEAN, csiDriver => csiDriver', stops' \in 0..MaxStops,
         p \in {"serving", "stopping"} => csiDriver',
         n = Here /\ p \notin {"serving", "stopping"} => Idle',
         n # Here => (Idle => Idle')
  PROVE  ServedInv'
<1>1. phase' \in [Nodes -> Phases] /\ phase'[n] = p /\ \A m \in Nodes \ {n} : phase'[m] = phase[m]
  BY Zenon DEF ServedInv, ProcessTypeOK, SetPhase
<1>2. ProcessTypeOK'
  BY <1>1, Zenon DEF ProcessTypeOK
<1>3. \A m \in Nodes : Alive(m)' => csiDriver'
  BY <1>1, Zenon DEF ServedInv, CallsServed, Alive
<1>4. ~Alive(Here)' => Idle'
  BY <1>1, HereAssumption, Zenon DEF ServedInv, CallsServed, Alive
<1> QED
  BY <1>2, <1>3, <1>4, Zenon DEF ServedInv, CallsServed

LEMMA ProcessStepStep ==
  ASSUME ServedInv, NEW n \in Nodes, ProcessStep(n)
  PROVE  ServedInv'
<1>1. Idle' <=> Idle
  BY Zenon DEF ProcessStep, mountVars, delVars, Idle
<1>2. csiDriver \in BOOLEAN /\ stops \in 0..MaxStops /\ phase \in [Nodes -> Phases]
  BY Zenon DEF ServedInv, ProcessTypeOK
<1>3. phase[n] \notin {"serving", "stopping"} /\ n = Here => Idle
  BY Zenon DEF ServedInv, CallsServed, Alive
<1>4. CASE Launch(n)
  BY <1>1, <1>2, <1>3, <1>4, ServedFrame, Zenon DEF Launch, Phases
<1>5. CASE Register(n)
  <2>1. PICK p \in Phases : p = IF csiDriver THEN "serving" ELSE "create"
    BY Zenon DEF Phases
  <2> QED
    BY <1>1, <1>2, <1>3, <1>5, <2>1, ServedFrame, Zenon DEF Register
<1>6. CASE RegisterCreate(n)
  <2>1. PICK p \in Phases : p = IF csiDriver THEN "down" ELSE "serving"
    BY Zenon DEF Phases
  <2> QED
    BY <1>1, <1>2, <1>3, <1>6, <2>1, ServedFrame, Zenon DEF RegisterCreate
<1>7. CASE GracefulStop(n, n = Here => Idle)
  BY <1>1, <1>2, <1>7, ServedFrame, Zenon DEF GracefulStop, Phases
<1> QED
  BY <1>4, <1>5, <1>6, <1>7, Zenon DEF ProcessStep, StartStep

LEMMA ProcessTerminatesStep ==
  ASSUME ServedInv, NEW n \in Nodes, ProcessTerminates(n)
  PROVE  ServedInv'
<1>1. Idle' <=> Idle
  BY Zenon DEF ProcessTerminates, mountVars, delVars, Idle
<1>2. csiDriver \in BOOLEAN /\ csiDriver /\ stops \in 0..MaxStops
  BY Zenon DEF ServedInv, ProcessTypeOK, CallsServed, ProcessTerminates, Terminate, Alive
<1>3. stops' \in 0..MaxStops
  BY <1>2, StopsAssumption DEF ProcessTerminates, Terminate
<1> QED
  BY <1>1, <1>2, <1>3, ServedFrame, Zenon DEF ProcessTerminates, Terminate, Phases

LEMMA ProcessDiesStep ==
  ASSUME ServedInv, NEW n \in Nodes, ProcessDies(n)
  PROVE  ServedInv'
<1>1. n = Here => Idle'
  BY Zenon DEF ProcessDies, CallsLost, CleanupEnds, Idle
<1>2. n # Here => (Idle' <=> Idle)
  BY Zenon DEF ProcessDies, mountVars, delVars, Idle
<1>3. csiDriver \in BOOLEAN /\ stops \in 0..MaxStops
  BY Zenon DEF ServedInv, ProcessTypeOK
<1>4. stops' \in 0..MaxStops
  BY <1>3, StopsAssumption DEF ProcessDies, Die
<1> QED
  BY <1>1, <1>2, <1>3, <1>4, ServedFrame DEF ProcessDies, Die, Phases

LEMMA NodeGoesDownStep ==
  ASSUME ServedInv, NodeGoesDown
  PROVE  ServedInv'
<1>1. Idle'
  BY Zenon DEF NodeGoesDown, NodeRestarts, CleanupEnds, Idle
<1>2. csiDriver \in BOOLEAN /\ stops \in 0..MaxStops
  BY Zenon DEF ServedInv, ProcessTypeOK
<1> QED
  BY <1>1, <1>2, HereAssumption, ServedFrame, Zenon DEF NodeGoesDown, Phases

\* All other steps are calls to a process that lives, or start and end none.
LEMMA SameProcesses ==
  ASSUME ServedInv, UNCHANGED processVars, Alive(Here) \/ UNCHANGED <<call, del>>
  PROVE  ServedInv'
BY Zenon DEF ServedInv, processVars, ProcessTypeOK, CallsServed, Alive, Idle

-----------------------------------------------------------------------------
(* The theorems *)

LEMMA VolumeInvSplit == VolumeInv <=> MountsInv /\ ServedInv
BY DEF VolumeInv, MountsInv, ServedInv, TypeOK

LEMMA VolumeInit == Init => VolumeInv
<1> SUFFICES ASSUME Init
             PROVE  MountsInv /\ ServedInv
  BY VolumeInvSplit, Zenon
<1>1. /\ mode \in {"mount", "block"} /\ lv = TRUE /\ paths = {} /\ mounts = [x \in Paths |-> <<>>]
      /\ pod = [p \in Pods |-> "absent"] /\ staged = "no" /\ call = [s \in Slots |-> NoCall]
      /\ claim = "bound" /\ del = "none" /\ by = "none" /\ refs = {} /\ ref = Staging
      /\ errors = 0 /\ disturbed = FALSE /\ stolen = FALSE
  BY DEF Init, MountsInit
<1>2. call \in [Slots -> Calls] /\ \A s \in Slots : call[s] = NoCall
  BY <1>1, CallFacts, Zenon
<1>3. errors \in 0..MaxErrors /\ mounts \in [Paths -> Seq(Mounted)] /\ Staging \in Paths
  BY <1>1, MountBounds DEF Paths
<1>4. MountsTypeOK
  BY <1>1, <1>2, <1>3, Zenon DEF MountsTypeOK
<1>5. CallsOrdered
  BY <1>1, <1>2, CallFacts, Zenon DEF CallsOrdered, Slots, Needed, PodIn, Published
<1>6. BoundWhileUsed /\ RunningPodSeesVolume /\ GonePodLeavesNothing
  BY <1>1, Zenon DEF BoundWhileUsed, RunningPodSeesVolume, GonePodLeavesNothing, PodIn, Published
<1>7. StagedIsMounted
  BY <1>1, Zenon DEF StagedIsMounted
<1>8. StagingAccounted
  BY <1>1, <1>3, Zenon DEF StagingAccounted
<1>9. ServedInv
  <2>1. phase = [n \in Nodes |-> "down"] /\ csiDriver = FALSE /\ stops \in 0..MaxStops
    BY StopsAssumption DEF Init, ProcessInit
  <2>2. ProcessTypeOK
    BY <2>1, Zenon DEF ProcessTypeOK, Phases
  <2>3. CallsServed
    BY <1>1, <1>2, <2>1, Zenon DEF CallsServed, Alive, Idle
  <2> QED
    BY <2>2, <2>3, Zenon DEF ServedInv
<1> QED
  BY <1>4, <1>5, <1>6, <1>7, <1>8, <1>9, Zenon DEF MountsInv

LEMMA MountsNext ==
  ASSUME MountsInv, [Next]_vars
  PROVE  MountsInv'
<1>1. CASE UNCHANGED mountVars
  BY <1>1, SameMountVars, Zenon
<1>2. CASE CallsLost \/ NodeRestarts
  BY <1>2, CallsLostStep, NodeRestartsStep, Zenon
<1>3. CASE KubeletCalls \/ DeleteVolume \/ ScanFindsOrphan \/ CollectorStrays
  BY <1>3, KubeletCallsStep, BeginCleanupStep, Zenon
<1>4. CASE DeleteStep
  BY <1>4, FindMountTargetsStep, CleanupUnmountStep, CleanupRemoveStep, RemoveLogicalVolumeStep,
     Zenon DEF DeleteStep
<1>5. CASE RemoveFails \/ KubeletGivesUp \/ DeleteClaim
  BY <1>5, RemoveFailsStep, KubeletGivesUpStep, DeleteClaimStep, Zenon
<1>6. ASSUME NEW p \in Pods, PodStarts(p) \/ ContainerStarts(p) \/ PodStops(p) \/ PodForced(p) \/ KubeletKills(p)
      PROVE  MountsInv'
  BY <1>6, BecomesStep, Zenon
<1>7. ASSUME NEW s \in Slots, HandlerStep(s)
      PROVE  MountsInv'
  BY <1>7, HandlerStepStep, Zenon
<1> QED
  BY <1>1, <1>2, <1>3, <1>4, <1>5, <1>6, <1>7, Zenon
     DEF Next, ProcessStep, ProcessTerminates, ProcessDies, NodeGoesDown, Admitted, Stray, Deleting,
         CallDisturbed, Kills, Users, Handled, vars

LEMMA ServedNext ==
  ASSUME ServedInv, [Next]_vars
  PROVE  ServedInv'
<1>1. ASSUME NEW n \in Nodes, ProcessStep(n) \/ ProcessTerminates(n) \/ ProcessDies(n)
      PROVE  ServedInv'
  BY <1>1, ProcessStepStep, ProcessTerminatesStep, ProcessDiesStep, Zenon
<1>2. CASE NodeGoesDown
  BY <1>2, NodeGoesDownStep, Zenon
<1>3. CASE Admitted \/ Stray \/ Deleting \/ CallDisturbed \/ \E s \in Slots : Handled(s)
  BY <1>3, SameProcesses, Zenon
     DEF Admitted, Stray, Deleting, CallDisturbed, Handled, Serving, Alive
<1>4. CASE Kills \/ Users
  <2>1. UNCHANGED <<processVars, call, del>>
    BY <1>4, Zenon
       DEF Kills, Users, PodStarts, ContainerStarts, PodStops, PodForced, KubeletKills, Becomes,
           DeleteClaim, delVars
  <2> QED
    BY <2>1, SameProcesses, Zenon
<1>5. CASE UNCHANGED vars
  BY <1>5, SameProcesses, Zenon DEF vars, mountVars, delVars
<1> QED
  BY <1>1, <1>2, <1>3, <1>4, <1>5, Zenon DEF Next

\* VolumeInv holds in every state, whatever the calls of kubelet, those it has
\* given up, DeleteVolume, the collectors, also those that go by an old PV, the
\* restarts of the process and of the node do between any two commands on the
\* host.
THEOREM VolumeInvariant == Spec => []VolumeInv
<1>1. VolumeInv /\ [Next]_vars => VolumeInv'
  <2> SUFFICES ASSUME VolumeInv, [Next]_vars
               PROVE  VolumeInv'
    BY Zenon
  <2>1. MountsInv' /\ ServedInv'
    BY VolumeInvSplit, MountsNext, ServedNext, Zenon
  <2> QED
    BY <2>1, Zenon DEF VolumeInv, MountsInv, ServedInv, TypeOK
<1> QED
  BY <1>1, VolumeInit, PTL DEF Spec

\* NodePublishVolume never gives a pod the bare staging directory: what it
\* binds there has the volume on it, and keeps it while the pod has it, unless
\* a collector took from the volume since kubelet staged it.
THEOREM RunningPodSees == Spec => []RunningPodSeesVolume
<1>1. VolumeInv => RunningPodSeesVolume
  BY Zenon DEF VolumeInv
<1> QED
  BY <1>1, VolumeInvariant, PTL

\* After NodeUnpublishVolume has answered, nothing is left at the target path,
\* and no late NodePublishVolume brings it back.
THEOREM GonePodLeaves == Spec => []GonePodLeavesNothing
<1>1. VolumeInv => GonePodLeavesNothing
  BY Zenon DEF VolumeInv
<1> QED
  BY <1>1, VolumeInvariant, PTL

\* DeleteVolume, the collectors and kubelet leave no staging directory, if
\* no cleanup is cut short and the node does not restart.
THEOREM DeletedVolumeLeaves == Spec => []DeletedVolumeLeavesNothing
<1>1. VolumeInv => DeletedVolumeLeavesNothing
  <2> SUFFICES ASSUME VolumeInv, ~lv, staged = "no", Idle, ~disturbed
               PROVE  ~IsMountPoint(Staging) /\ Staging \notin paths
    BY Zenon DEF DeletedVolumeLeavesNothing
  <2>1. /\ mode \in {"mount", "block"} /\ mounts \in [Paths -> Seq(Mounted)] /\ Staging \in Paths
    BY Zenon DEF VolumeInv, TypeOK, MountsTypeOK, Paths
  <2>2. CASE mode = "block"
    BY <2>2, Zenon DEF VolumeInv, StagingAccounted, IsMountPoint
  <2>3. CASE mode = "mount"
    <3>1. ~Holds(Staging) /\ ~HasVolume(Staging)
      BY <2>1, <2>3, MountFacts, Zenon DEF VolumeInv, StagingAccounted
    <3>2. mounts[Staging] = <<>>
      BY <2>1, <3>1, MountFacts, Zenon DEF VolumeInv, StagingAccounted
    <3> QED
      BY <2>3, <3>1, <3>2, Zenon DEF VolumeInv, StagingAccounted, IsMountPoint, Idle
  <2> QED
    BY <2>1, <2>2, <2>3, Zenon
<1> QED
  BY <1>1, VolumeInvariant, PTL
=============================================================================
