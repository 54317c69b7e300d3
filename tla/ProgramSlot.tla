---------------------------- MODULE ProgramSlot ----------------------------
(***************************************************************************)
(* What the updater promises of the installed program (updater/mod.rs,     *)
(* install.rs): there always is one, it is replaced as a whole, only by a  *)
(* released program, and what takes the place of a release that did not    *)
(* run is a program that was installed before.                             *)
(***************************************************************************)
CONSTANTS Released, Others   \* programs: releases, and builds of the owner's

VARIABLES program, past

Init == program \in Released \cup Others /\ past = {program}

Install == program' \in Released

Restore == program' \in past

Next == (Install \/ Restore) /\ past' = past \cup {program'}

Spec == Init /\ [][Next]_<<program, past>>
=============================================================================
