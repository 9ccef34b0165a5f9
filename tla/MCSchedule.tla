----------------------------- MODULE MCSchedule -----------------------------
(* Small instances of Schedule for TLC. *)
EXTENDS Schedule

CONSTANTS c1, c2, name

\* Two claims of the same name, in two namespaces.
SameName == [c \in Claims |-> name]
=============================================================================
