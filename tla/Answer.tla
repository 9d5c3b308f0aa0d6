------------------------------- MODULE Answer -------------------------------
(***************************************************************************)
(* What the engines promise together, through the shared RESULT: one       *)
(* verdict is published, it is the right one, and it never changes.        *)
(***************************************************************************)
VARIABLES
  safe,     \* whether the property holds of the circuit; fixed
  RESULT    \* 0 undecided, 10 a bug was found, 20 the property was proved

SAFE   == 20
UNSAFE == 10

Init == safe \in BOOLEAN /\ RESULT = 0

Publish ==
  /\ RESULT = 0
  /\ RESULT' = IF safe THEN SAFE ELSE UNSAFE
  /\ UNCHANGED safe

Spec == Init /\ [][Publish]_<<safe, RESULT>>

=============================================================================
