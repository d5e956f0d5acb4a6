--------------------------- MODULE ManagerProcess ---------------------------
(***************************************************************************)
(* The cluster manager from its start until it serves admission requests.  *)
(* Certificates come first.  Then one goroutine registers the handlers     *)
(* while the probes, and whatever else asks for the webhook server first,  *)
(* get that server started.                                                *)
(***************************************************************************)
EXTENDS Naturals

CONSTANT MaxCrashes  \* bound

ASSUME CrashesAssumption == MaxCrashes \in Nat

VARIABLES certs,      \* certSetupFinished is closed
          registered, \* handlers the webhook server knows
          server,     \* the webhook server: "off", "added" or "started"
          ready,      \* what the last readiness probe found
          crashes

managerVars == <<certs, registered, server, ready, crashes>>

Handlers == {"claim", "pod"}

ManagerTypeOK ==
  /\ certs \in BOOLEAN /\ ready \in BOOLEAN
  /\ registered \subseteq Handlers
  /\ server \in {"off", "added", "started"}
  /\ crashes \in 0..MaxCrashes

ManagerInit ==
  /\ certs = FALSE /\ registered = {} /\ server = "off" /\ ready = FALSE
  /\ crashes = 0

\* The rotator has the certificates in place.
CertsReady ==
  /\ ~certs
  /\ certs' = TRUE
  /\ UNCHANGED <<registered, server, ready, crashes>>

\* The first GetWebhookServer adds the server to the manager.
Added == IF server = "off" THEN "added" ELSE server

\* Mutant: the pod handler is registered only before the server is there.
RegisterEarly ==
  /\ certs
  /\ \/ registered = {} /\ registered' = {"claim"}
     \/ registered = {"claim"} /\ server = "off" /\ registered' = Handlers
  /\ server' = Added
  /\ UNCHANGED <<certs, ready, crashes>>

\* The goroutine behind certSetupFinished: the claim handler, then the pod
\* handler.
RegisterHandler ==
  /\ certs
  /\ \/ registered = {} /\ registered' = {"claim"}
     \/ registered = {"claim"} /\ registered' = Handlers
  /\ server' = Added
  /\ UNCHANGED <<certs, ready, crashes>>

ServerStarts ==
  /\ server = "added"
  /\ server' = "started"
  /\ UNCHANGED <<certs, registered, ready, crashes>>

\* healthz and readyz: not before the certificates, then as the server says.
Probe ==
  /\ \/ ~certs /\ ready' = FALSE /\ UNCHANGED server
     \/ certs /\ ready' = (server = "started") /\ server' = Added
  /\ UNCHANGED <<certs, registered, crashes>>

ManagerCrash ==
  /\ crashes < MaxCrashes
  /\ certs' = FALSE /\ registered' = {} /\ server' = "off" /\ ready' = FALSE
  /\ crashes' = crashes + 1

\* The service sends requests to a manager that is ready; a path without a
\* handler is not found.
Reached(h) == ready /\ h \in registered
=============================================================================
