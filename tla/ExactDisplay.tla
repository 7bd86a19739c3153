----------------------------- MODULE ExactDisplay -----------------------------
(***************************************************************************)
(* What the display path promises of the child's output, whatever the      *)
(* gate, the detector, the renderer and the rendering toggle do: each byte *)
(* is accounted for on the display exactly once and in order, either as    *)
(* itself or as part of the source of a block shown rendered in its place. *)
(* Bytes may be withheld for a while (owed), never past the end of stream. *)
(***************************************************************************)
EXTENDS Pieces

CONSTANT Chunks  \* what one read of the child's output may return

VARIABLES owed,    \* bytes received and not accounted for yet
          shown,   \* what the last step put on the display, piece by piece
          status   \* "open", "closed" (end of stream) or "failed"

Init == owed = <<>> /\ shown = <<>> /\ status = "open"

\* What was owed is shown from the front, as far as the display got.
ShowFrom(text) == TextOf(shown') \o owed' = text

Receive(chunk) ==
  /\ status = "open"
  /\ ShowFrom(owed \o chunk)
  /\ status' \in {"open", "failed"}

Close ==
  /\ status = "open"
  /\ ShowFrom(owed)
  /\ \/ status' = "closed" /\ owed' = <<>>
     \/ status' = "failed"

\* A step of the program that does not touch the display.
Idle == shown' = <<>> /\ UNCHANGED <<owed, status>>

Next == Close \/ Idle \/ \E chunk \in Chunks : Receive(chunk)

Spec == Init /\ [][Next]_<<owed, shown, status>>
=============================================================================
