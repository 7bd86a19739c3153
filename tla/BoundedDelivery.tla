---------------------------- MODULE BoundedDelivery ----------------------------
(***************************************************************************)
(* What the output pump promises, without its threads, queue and marker:   *)
(* the chunks it has read are shown in order, none left out and none twice;*)
(* not more than Limit of them are held at a time; and it is complete only *)
(* when all that was read is shown and nothing more will be.               *)
(***************************************************************************)
EXTENDS Naturals, Sequences

CONSTANT Limit

VARIABLES accepted,  \* number of chunks read
          shown,     \* the chunks on the display, in order
          outcome    \* "open", "complete" or "failed"

vars == <<accepted, shown, outcome>>

Init == accepted = 0 /\ shown = <<>> /\ outcome = "open"

\* Reading may go on for a while after the display has failed.
Accept ==
  /\ outcome # "complete"
  /\ accepted - Len(shown) < Limit
  /\ accepted' = accepted + 1
  /\ UNCHANGED <<shown, outcome>>

Show ==
  /\ outcome = "open"
  /\ Len(shown) < accepted
  /\ shown' = Append(shown, Len(shown) + 1)
  /\ UNCHANGED <<accepted, outcome>>

Complete ==
  /\ outcome = "open"
  /\ Len(shown) = accepted
  /\ outcome' = "complete"
  /\ UNCHANGED <<accepted, shown>>

GiveUp ==
  /\ outcome = "open"
  /\ outcome' = "failed"
  /\ UNCHANGED <<accepted, shown>>

Next == Accept \/ Show \/ Complete \/ GiveUp

Spec == Init /\ [][Next]_vars
=============================================================================
