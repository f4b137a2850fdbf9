--------------------------- MODULE ClaimProtocol ----------------------------
(***************************************************************************)
(* What the control plane promises about named volumes, without requests,  *)
(* mutexes or failures: a sandbox mounts only volumes it owns, gives up a    *)
(* volume only when it does not mount it, and whatever is mounted when the   *)
(* gate opens is owned by the sandbox that mounts it.  CONTEXT.md: "exactly  *)
(* one running sandbox may mount a given volume at a time".                  *)
(***************************************************************************)
EXTENDS Names

VARIABLES
  open,    \* whether requests are served
  owner,   \* the sandbox a volume is reserved for
  inUse    \* the volumes each sandbox mounts; {} when it does not run

cpVars == <<open, owner, inUse>>

Unowned == [v \in Volume |-> Nobody]

\* Everything that is mounted is owned by the sandbox that mounts it.
Covers(o) == \A s \in Sandbox : \A v \in inUse[s] : o[v] = s

Exclusive == \A s, t \in Sandbox : s # t => inUse[s] \cap inUse[t] = {}

Init ==
  /\ open = FALSE
  /\ owner = Unowned
  /\ inUse \in [Sandbox -> SUBSET Volume]
  /\ Exclusive

Open ==
  /\ ~open
  /\ open' = TRUE
  /\ owner' \in [Volume -> Sandbox \cup {Nobody}]
  /\ Covers(owner')
  /\ UNCHANGED inUse

Close ==
  /\ open
  /\ open' = FALSE
  /\ owner' = Unowned
  /\ UNCHANGED inUse

\* All of vs, or none of it.
Reserve(s, vs) ==
  /\ open
  /\ \A v \in vs : owner[v] \in {s, Nobody}
  /\ owner' = [v \in Volume |-> IF v \in vs THEN s ELSE owner[v]]
  /\ UNCHANGED <<open, inUse>>

GiveBack(s, vs) ==
  /\ open
  /\ vs \cap inUse[s] = {}
  /\ \A v \in vs : owner[v] = s
  /\ owner' = [v \in Volume |-> IF v \in vs THEN Nobody ELSE owner[v]]
  /\ UNCHANGED <<open, inUse>>

Mount(s, vs) ==
  /\ open
  /\ inUse[s] = {}
  /\ \A v \in vs : owner[v] = s
  /\ inUse' = [inUse EXCEPT ![s] = vs]
  /\ UNCHANGED <<open, owner>>

\* A sandbox may stop at any time, served or not.
Unmount(s) ==
  /\ inUse' = [inUse EXCEPT ![s] = {}]
  /\ UNCHANGED <<open, owner>>

Next ==
  \/ Open \/ Close
  \/ \E s \in Sandbox :
       \/ Unmount(s)
       \/ \E vs \in SUBSET Volume : Reserve(s, vs) \/ GiveBack(s, vs) \/ Mount(s, vs)

Spec == Init /\ [][Next]_cpVars
=============================================================================
