------------------------- MODULE MCCodeRedemption -------------------------
(* Instances of CodeRedemption for TLC: the original holder (with and without  *)
(* a key), the same client with a wrong verifier, and another client.          *)
EXTENDS CodeRedemption, TLC

CONSTANTS k1

OneKey == {k1}

Holder(k)    == [client |-> "own", verifier |-> "right", key |-> k]
Unverified   == [client |-> "own", verifier |-> "wrong", key |-> "none"]
OtherClient  == [client |-> "other", verifier |-> "right", key |-> "none"]

AllFacts     == {Holder("none"), Holder(k1), Unverified, OtherClient}

(* Each behaviour presents the code in two ways.                               *)
VARIABLE presented

Pairs == {{Holder("none"), Holder(k1)}, {Holder("none"), Unverified},
          {Holder("none"), OtherClient}}

PairedInit ==
    /\ Init
    /\ presented \in Pairs
    /\ (\E c \in Codes : code[c].bound # "none") => Holder(k1) \in presented

PairedNext ==
    /\ Next
    /\ \A q \in Requests : req'[q].stage # "idle" => req'[q].facts \in presented
    /\ UNCHANGED presented

PairedSpec == PairedInit /\ [][PairedNext]_<<vars, presented>>

Symmetric == Permutations(Requests)
=============================================================================
