-------------------------- MODULE MCSyncService ----------------------------
(* SyncService for TLC: a few channels and calls, as model values.  Three  *)
(* channels meet two calls, two channels meet three: MaxActors bounds both *)
(* together.                                                               *)
EXTENDS SyncService, TLC

CONSTANT MaxActors   \* bound: subscribers and notify calls in one behaviour

Symmetry == Permutations(Chans) \cup Permutations(Notes)

Actors == Cardinality({c \in Chans : chan[c] # "none"}) + Cardinality({n \in Notes : npc[n] # "new"})

MCNext == Next /\ Actors' <= MaxActors

MCSpec == Init /\ [][MCNext]_vars
=============================================================================
