--------------------------- MODULE DriverProcess ---------------------------
(***************************************************************************)
(* The driver processes of the DaemonSet, one on each node, from main to   *)
(* the end of the CSI server.  At start each of them makes sure that the   *)
(* CSIDriver object exists; an error in any step of main ends the process, *)
(* and kubelet starts it again.                                            *)
(***************************************************************************)
EXTENDS Naturals

CONSTANTS Nodes, MaxStops  \* bound: terminations and crashes

ASSUME StopsAssumption == MaxStops \in Nat

VARIABLES phase,      \* phase[n]: how far the process on n has got
          csiDriver,  \* the CSIDriver object exists
          stops

processVars == <<phase, csiDriver, stops>>

Phases == {"down", "listen", "create", "serving", "stopping"}

ProcessTypeOK ==
  /\ phase \in [Nodes -> Phases]
  /\ csiDriver \in BOOLEAN
  /\ stops \in 0..MaxStops

ProcessInit ==
  /\ phase = [n \in Nodes |-> "down"]
  /\ csiDriver = FALSE
  /\ stops = 0

SetPhase(n, p) == phase' = [phase EXCEPT ![n] = p]

\* Kubelet starts the container.  main sets up telemetry, the kernel modules,
\* the LVM client, the runnables and the endpoint; the server then listens.
Launch(n) ==
  /\ phase[n] = "down"
  /\ SetPhase(n, "listen")
  /\ UNCHANGED <<csiDriver, stops>>

\* Mutant: Register does not look whether the object is there.
RegisterBlind(n) ==
  /\ phase[n] = "listen"
  /\ SetPhase(n, "create")
  /\ UNCHANGED <<csiDriver, stops>>

\* Register looks for the CSIDriver object.
Register(n) ==
  /\ phase[n] = "listen"
  /\ SetPhase(n, IF csiDriver THEN "serving" ELSE "create")
  /\ UNCHANGED <<csiDriver, stops>>

\* An object that another node has created meanwhile is an error: the server
\* does not start, and the process ends.
RegisterCreate(n) ==
  /\ phase[n] = "create"
  /\ SetPhase(n, IF csiDriver THEN "down" ELSE "serving")
  /\ csiDriver' = TRUE
  /\ UNCHANGED stops

\* SIGTERM: the server takes no new call and waits for the ones it has.
Terminate(n) ==
  /\ stops < MaxStops
  /\ phase[n] = "serving"
  /\ SetPhase(n, "stopping")
  /\ stops' = stops + 1
  /\ UNCHANGED csiDriver

GracefulStop(n, drained) ==
  /\ phase[n] = "stopping"
  /\ drained
  /\ SetPhase(n, "down")
  /\ UNCHANGED <<csiDriver, stops>>

\* An error in main, or a crash.
Die(n) ==
  /\ stops < MaxStops
  /\ phase[n] # "down"
  /\ SetPhase(n, "down")
  /\ stops' = stops + 1
  /\ UNCHANGED csiDriver

StartStep(n) == Launch(n) \/ Register(n) \/ RegisterCreate(n)

Serving(n) == phase[n] = "serving"
Alive(n) == phase[n] \in {"serving", "stopping"}
=============================================================================
