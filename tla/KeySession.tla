----------------------------- MODULE KeySession -----------------------------
(***************************************************************************)
(* What a two-phase key installation promises for each device: keys are    *)
(* first offered, only after this side's public key has gone out, and the  *)
(* session key changes only by confirming the key on offer or by falling   *)
(* back to the static key (None), which also withdraws the offer.          *)
(***************************************************************************)
CONSTANTS Devices, Keys, None

VARIABLES
  answered,  \* devices that have been sent this side's public key
  offered,   \* the key on offer to each device
  key        \* the session key of each device

vars == <<answered, offered, key>>

Answer(d) ==
  /\ answered' = answered \cup {d}
  /\ UNCHANGED <<offered, key>>

Offer(d, k) ==
  /\ d \in answered
  /\ offered' = [offered EXCEPT ![d] = k]
  /\ UNCHANGED <<answered, key>>

Confirm(d) ==
  /\ offered[d] # None
  /\ key' = [key EXCEPT ![d] = offered[d]]
  /\ offered' = [offered EXCEPT ![d] = None]
  /\ UNCHANGED answered

FallBack(d) ==
  /\ key' = [key EXCEPT ![d] = None]
  /\ offered' = [offered EXCEPT ![d] = None]
  /\ UNCHANGED answered

Init ==
  /\ answered = {}
  /\ offered = [d \in Devices |-> None]
  /\ key \in [Devices -> Keys \cup {None}]

Next == \E d \in Devices :
  \/ Answer(d)
  \/ \E k \in Keys : Offer(d, k)
  \/ Confirm(d)
  \/ FallBack(d)

Spec == Init /\ [][Next]_vars
=============================================================================
