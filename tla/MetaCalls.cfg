SPECIFICATION Spec
CONSTANTS
  Users = {u1, u2}
  Keys = {k1, k2}
  Calls = {c1, c2}
  Answers = {a1, a2}
  Events = {"connect", "ringing", "accepted", "rejected", "terminate"}
  Echoes = {TRUE, FALSE}
  None = None
SYMMETRY Symmetry
CHECK_DEADLOCK FALSE
INVARIANTS
  OneCallAtATime
  CommandIsTrue
  OneAnswerPerCall
  BoundToReserved
PROPERTIES
  EndIsTrueAndFinal
