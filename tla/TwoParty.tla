------------------------------ MODULE TwoParty ------------------------------
(***************************************************************************)
(* The two parties beside TLS: the calls of Prover and Verifier on a       *)
(* session (Session), or, within its phases from setup to committed, the   *)
(* derivation of the keys in the MPC and the ZK machine (KeySchedule).     *)
(* A behaviour is about one of them and leaves the other alone.            *)
(***************************************************************************)
EXTENDS Session, KeySchedule

VARIABLE deriving       \* is this behaviour about the keys?

allVars == <<deriving, vars, keysVars>>

TwoPartyInit ==
    /\ deriving \in BOOLEAN
    /\ Init
    /\ IF deriving THEN version /\ trusted /\ KeysInit
       ELSE /\ mode = None /\ fault = {} /\ tag = None /\ party = None /\ chan = <<>>
            /\ mpc = None /\ zk = None

KeysStep == deriving /\ KeysNext /\ UNCHANGED <<deriving, vars>>

TwoPartyNext ==
    \/ ~deriving /\ Next /\ UNCHANGED <<deriving, keysVars>>
    \/ KeysStep

\* The fairness of Session, and both parties keep deriving what they can.
TwoPartySpec ==
    /\ TwoPartyInit /\ [][TwoPartyNext]_allVars
    /\ \A s \in Sides :
        /\ WF_allVars(~deriving /\ DriverPoll(s) /\ UNCHANGED <<deriving, parties, up, keysVars>>)
        /\ WF_allVars(~deriving /\ WakeDriver(s) /\ UNCHANGED <<deriving, parties, up, keysVars>>)
    /\ WF_allVars(KeysStep)

-----------------------------------------------------------------------------
\* The keys of the connection and nothing else (prf.rs, MpcKeyExchange::finalize,
\* Deap::finalize): correct in the MPC machine, and in the ZK machine of a verifier
\* that committed.
KeysRight == deriving => KeysCorrect /\ OnlyRightCommitted

\* The two flush loops (Prf::flush of MpcPrf, and the machines' own) stay in
\* step: both sides end, and without a fault or a wrong tag both commit.
Completes ==
    /\ deriving ~> deriving /\ Ended
    /\ (deriving /\ fault = {}) ~> deriving /\ (Both("committed") \/ tag = "wrong")
=============================================================================
