---------------------------- MODULE CommandWait ----------------------------
(***************************************************************************)
(* What a control panel promises of the commands it sends to a device: it  *)
(* waits for one command at a time, the newest, and the wait ends.         *)
(***************************************************************************)
EXTENDS Naturals

VARIABLES
  issued,    \* how many commands have been issued
  waiting    \* the command whose outcome is awaited, 0 for none

vars == <<issued, waiting>>

TypeOK == issued \in Nat /\ waiting \in 0..issued

Init == issued = 0 /\ waiting = 0

Issue == issued' = issued + 1 /\ waiting' = issued'

End == waiting # 0 /\ waiting' = 0 /\ UNCHANGED issued

Next == Issue \/ End

Spec == Init /\ [][Next]_vars
=============================================================================
