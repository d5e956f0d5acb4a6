---------------------------- MODULE MCAdmission ----------------------------
EXTENDS Admission

CONSTANTS n1, n2, c1, c2, p1, p2

MCSpec(class, mode, accepts, owned) ==
  [class |-> class, mode |-> mode, accepts |-> accepts, owned |-> owned]

\* c1 is an accepted claim in durability mode, or one that should be denied;
\* c2 is a claim of another driver, or a local one that a pod owns.
MCClaimSpecs == [c \in {c1, c2} |->
  IF c = c1 THEN {MCSpec("local", "durability", TRUE, FALSE),
                  MCSpec("local", "invalid", FALSE, FALSE)}
            ELSE {MCSpec("other", None, FALSE, FALSE),
                  MCSpec("local", "availability", FALSE, TRUE)}]
MCPodVolumes == [p \in {p1, p2} |-> IF p = p1 THEN <<c1, Ephemeral>> ELSE <<c2, c1>>]
MCOwnTerms == [p \in {p1, p2} |-> {}]

\* Two pods with one volume in durability mode, one of them with a required
\* term of the user's.
MCDurable == [c \in {c1} |-> {MCSpec("local", "durability", TRUE, FALSE)}]
MCOneVolume == [p \in {p1, p2} |-> <<c1>>]
MCUserTerms == [p \in {p1, p2} |-> IF p = p2 THEN {{n2}} ELSE {}]
=============================================================================
