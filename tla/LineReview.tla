----------------------------- MODULE LineReview -----------------------------
(***************************************************************************)
(* What the Review list promises of a ticket line (verdict_contract.rs,    *)
(* ReviewStatus; auto_send.rs): a line that went out waits there until the *)
(* owner confirms it, a line that did not go out is listed with its error  *)
(* until it does.  A line that went out is listed as Not sent only by a    *)
(* send of the run that had set out before, and then failed; no send sets  *)
(* out for a line that went out.  A confirmed line never comes back,       *)
(* unless the owner clears its text and hours and so makes the line anew.  *)
(***************************************************************************)
CONSTANT Lines

VARIABLES
    phase,
    busy      \* lines that a send of the run is on its way for

Phases == {"open", "failed", "sent", "confirmed"}

Moves == {<<"open", "failed">>, <<"open", "sent">>, <<"failed", "sent">>,
          <<"sent", "confirmed">>}
         \cup {<<p, "open">> : p \in Phases}
         \cup {<<p, p>> : p \in Phases}

(* While a send is on its way another sync may bring the line out; the     *)
(* owner does not come to it.                                              *)
MovesBeside == {<<"failed", "sent">>} \cup {<<p, p>> : p \in Phases \ {"confirmed"}}

(* The send ends, or is broken off: it has the last word.                  *)
MovesAtEnd ==
    {<<p, q>> : p \in {"open", "failed", "sent"}, q \in {"failed", "sent"}}
    \cup {<<"open", "open">>}

Init == phase = [l \in Lines |-> "open"] /\ busy = {}

(* The rollover marks several lines at once, and so does Confirm all. *)
Next ==
    /\ phase' \in [Lines -> Phases] /\ busy' \in SUBSET Lines
    /\ \A l \in Lines :
           <<phase[l], phase'[l]>> \in IF l \notin busy THEN Moves
                                       ELSE IF l \in busy' THEN MovesBeside ELSE MovesAtEnd
    /\ \A l \in busy' \ busy : phase[l] \in {"open", "failed"} /\ phase'[l] = phase[l]

Spec == Init /\ [][Next]_<<phase, busy>>
=============================================================================
