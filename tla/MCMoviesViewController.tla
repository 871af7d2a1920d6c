----------------------- MODULE MCMoviesViewController -----------------------
(* Instances of MoviesViewController for TLC. *)
EXTENDS MoviesViewController

(* Every other movie has a poster path, so that both ways to a poster are  *)
(* taken; all but the last movie have an image listed under /images.       *)
EveryOther == {m \in Movie : (m.page + m.slot) % 2 = 0}
AllButLast == Movie \ {[page |-> TotalPages, slot |-> PageSize]}
=============================================================================
