---------------------------- MODULE Notarization ----------------------------
(***************************************************************************)
(* What is shown about a connection, in both forms: one proof between      *)
(* prover and verifier (Disclosure), or an attestation that the notary     *)
(* signs and the prover presents to a third party later (Attestation).     *)
(* A behaviour is about one of them and leaves the other as it began.      *)
(***************************************************************************)
EXTENDS Disclosure, Attestation

VARIABLE attesting      \* is this behaviour about the attestation?

NotarizationInit ==
    /\ attesting \in BOOLEAN
    /\ Init /\ AttestInit
    /\ IF attesting THEN records["sent"] = <<>> ELSE env = DefaultEnv

NotarizationNext ==
    \/ ~attesting /\ Next /\ UNCHANGED <<attesting, attestVars>>
    \/ attesting /\ AttestNext /\ UNCHANGED <<attesting, vars>>

NotarizationSpec ==
    NotarizationInit /\ [][NotarizationNext]_<<attesting, vars, attestVars>>
=============================================================================
