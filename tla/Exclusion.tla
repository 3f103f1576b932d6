------------------------------ MODULE Exclusion ------------------------------
(***************************************************************************)
(* What a lock promises: at any time it has at most one owner, and somebody *)
(* else becomes the owner only after it left.                               *)
(***************************************************************************)
CONSTANT Process

VARIABLE owners

ExInit == owners = {}

Take(p) == owners = {} /\ owners' = {p}
Leave(p) == owners = {p} /\ owners' = {}

ExNext == \E p \in Process : Take(p) \/ Leave(p)

ExSpec == ExInit /\ [][ExNext]_owners

=============================================================================
