---------------------------- MODULE StaleRegister ----------------------------
(***************************************************************************)
(* What the reads of a ride promise: a register that is written once after *)
(* the other, and a read that gives a value which is the current one or    *)
(* was so no longer than MaxStale ticks ago.                               *)
(***************************************************************************)
EXTENDS Naturals

CONSTANTS MaxVersion,   \* the last version of the register
          MaxStale

VARIABLES
  version,   \* the current value, by number
  age,       \* version -> ticks since it was replaced, up to MaxStale + 1
  view       \* what the last read gave

registerVars == <<version, age, view>>

\* One tick older, if it has been replaced.
Older(v) == IF v < version /\ age[v] <= MaxStale THEN age[v] + 1 ELSE age[v]

RegisterInit ==
  /\ version = 0
  /\ age = [v \in 0 .. MaxVersion |-> 0]
  /\ view = 0

Write ==
  /\ version < MaxVersion
  /\ version' = version + 1
  /\ UNCHANGED <<age, view>>

Read ==
  /\ view' \in {v \in 0 .. version : age[v] <= MaxStale}
  /\ UNCHANGED <<version, age>>

TimePasses ==
  /\ age' = [v \in 0 .. MaxVersion |-> Older(v)]
  /\ UNCHANGED <<version, view>>

RegisterSpec == RegisterInit /\ [][Write \/ Read \/ TimePasses]_registerVars
=============================================================================
