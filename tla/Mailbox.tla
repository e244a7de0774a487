------------------------------ MODULE Mailbox ------------------------------
(***************************************************************************)
(* What a destructive command queue promises its callers: at-most-once     *)
(* delivery.  A command that was given an id is held until it is delivered *)
(* or lost, once, and stays that way; there is no third outcome and no     *)
(* second delivery.                                                        *)
(***************************************************************************)
EXTENDS Integers

CONSTANT Limit   \* bound of the model: commands ever made

VARIABLES made, held, delivered, lost

box == <<made, held, delivered, lost>>

Init ==
  /\ made = 0
  /\ held = {}
  /\ delivered = {}
  /\ lost = {}

\* A command is given the next id.
Make ==
  /\ made < Limit
  /\ made' = made + 1
  /\ held' = held \cup {made + 1}
  /\ UNCHANGED <<delivered, lost>>

\* A held command reaches its device.
Deliver(id) ==
  /\ id \in held
  /\ held' = held \ {id}
  /\ delivered' = delivered \cup {id}
  /\ UNCHANGED <<made, lost>>

\* Held commands are given up together.
Lose(ids) ==
  /\ ids \subseteq held
  /\ held' = held \ ids
  /\ lost' = lost \cup ids
  /\ UNCHANGED <<made, delivered>>

Next ==
  \/ Make
  \/ \E id \in held : Deliver(id)
  \/ \E ids \in SUBSET held : Lose(ids)

Spec == Init /\ [][Next]_box
=============================================================================
