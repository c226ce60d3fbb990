------------------------------ MODULE MCClient ------------------------------
(* Model of Client for TLC: operations, regions and handlers are           *)
(* interchangeable.                                                        *)
EXTENDS ClientFuture, TLC

MCSymmetry == Permutations(Op) \cup Permutations(Region) \cup Permutations(Handler)
=============================================================================
