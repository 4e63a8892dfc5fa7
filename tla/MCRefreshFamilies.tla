------------------------ MODULE MCRefreshFamilies ------------------------
(* Small instances of RefreshFamilies for TLC.                                *)
EXTENDS RefreshFamilies, TLC

CONSTANT ContractAge   \* age the documentation asks of a contract it removes

Symmetry == Permutations(Requests) \cup Permutations(Resources)

(* The runs explore one slice of the next-state relation per initial state, so *)
(* that each question is asked with the bounds it needs.  Every slice serves    *)
(* requests, revokes by token and lets time pass.  Only the rotation slice has  *)
(* two requests in flight, only the audience slice names more than one          *)
(* resource, only the capacity slice opens more than one family and has a       *)
(* client whose policy keeps tokens, only the reclaim slice runs the            *)
(* maintenance worker and only the administration slice changes clients and     *)
(* users.                                                                       *)
VARIABLE slice

Slices == {"rotation", "audience", "reclaim", "administration", "capacity"}

SlicedInit ==
    /\ Init
    /\ slice \in Slices
    /\ slice = "capacity" <=> client.policy # "none"

(* The one request in flight, except in the rotation slice.                    *)
Turn(q) == slice = "rotation" \/ \A p \in Requests \ {q} : req[p] = Idle

SlicedNext ==
    /\ \/ \E q \in Requests : Turn(q) /\ Serve(q)
       \/ \E m \in Members : RevokeToken(m)
       \/ slice = "administration" /\ Administer
       \/ slice = "reclaim" /\ Maintenance
       \/ Tick
    /\ UNCHANGED slice

SlicedSpec == SlicedInit /\ [][SlicedNext]_<<vars, slice>>

(* The reclaim slice by itself.                                                *)
ReclaimInit == SlicedInit /\ slice = "reclaim"

ReclaimSpec == ReclaimInit /\ [][SlicedNext]_<<vars, slice>>

Named == UNION ({req[q].audience : q \in Requests} \cup {families[f].audience : f \in FamilyIds})

Bounds ==
    /\ slice # "audience" => Cardinality(Named) <= 1
    /\ slice # "capacity" => nextFamily <= 2
    /\ slice \in {"administration", "capacity"} => clock <= 1
    /\ client.epoch + user.epoch <= 1

(* docs/protocol/refresh-token-rotation.md: a contract is removed only when    *)
(* its creation is at least one hour old.  delete_orphan_refresh_contracts     *)
(* asks only that it be older than the batch.                                  *)
ContractsAgeBeforeRemoval ==
    [][\A c \in Contracts :
        contracts[c] # NoContract /\ contracts'[c] = NoContract =>
            clock >= contracts[c] + ContractAge]_vars

=============================================================================
