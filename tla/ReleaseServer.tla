---------------------------- MODULE ReleaseServer ----------------------------
(* What the machines in the field rely on: the file "latest" always names  *)
(* a version that can be had completely.  Releases may be replaced and     *)
(* latest may go back, but nothing that was available is taken away.       *)
CONSTANT Version
VARIABLES latest, available

InitServer(first) == latest = first /\ available = {first}

Provide(v) == available' = available \cup {v} /\ UNCHANGED latest
Release(v) == v \in available /\ latest' = v /\ UNCHANGED available

NextServer == \E v \in Version : Provide(v) \/ Release(v)
SpecServer == (\E v \in Version : InitServer(v)) /\ [][NextServer]_<<latest, available>>
=============================================================================
