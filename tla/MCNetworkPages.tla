---------------------------- MODULE MCNetworkPages ----------------------------
(* Two handlers, two services and two servers that a proxy can move between. *)
EXTENDS NetworkPages, TLC

NetworkSymmetry ==
  Permutations(Request) \cup Permutations(Service) \cup Permutations(Host)
    \cup Permutations(Path)
===============================================================================
