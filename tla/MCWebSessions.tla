------------------------------- MODULE MCWebSessions -------------------------------
(* An instance of WebSessions for TLC: one administrator, two requests at a time.     *)
EXTENDS WebSessions, TLC

CONSTANTS q1, q2, s1, s2

OneUser == 1..1
TwoRequests == {q1, q2}
TwoSessions == {s1, s2}
OneTicket == 1..1
Symmetry == Permutations(TwoRequests) \cup Permutations(TwoSessions)
=============================================================================
