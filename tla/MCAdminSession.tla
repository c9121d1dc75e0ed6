--------------------------- MODULE MCAdminSession ---------------------------
(* Clocks that agree, or differ by one. *)
EXTENDS AdminSession, TLC

MCSkews == {-1, 0, 1}
MCSymmetry == Permutations(Clients) \cup Permutations(Tokens)
=============================================================================
