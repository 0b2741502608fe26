---------------------------- MODULE TrafficModes ----------------------------
(***************************************************************************)
(* The two modes in which the traffic of a connection becomes a            *)
(* transcript: the record layer of a party in MPC mode (RecordLayer), and  *)
(* the connection through the verifier in proxy mode (Proxy).  A behaviour *)
(* is about one of them and leaves the other alone.                        *)
(***************************************************************************)
EXTENDS RecordLayer, Proxy

VARIABLE proxied        \* TlsCommitProtocolConfig: is the connection in proxy mode?

modeVars == <<proxied, vars, proxyVars>>

ModesInit ==
    /\ proxied \in BOOLEAN
    /\ Init
    /\ ProxyInit
    /\ ~proxied => ~server.auth

ModesNext ==
    \/ ~proxied /\ Next /\ UNCHANGED <<proxied, proxyVars>>
    \/ proxied /\ ProxyNext /\ UNCHANGED <<proxied, vars>>

\* An action of proxy mode.
Proxied(A) == proxied /\ UNCHANGED <<proxied, vars>> /\ A

\* The prover's task and the verifier's run are polled as long as they can go on,
\* and the application reads what there is.  It need not write or close, and the
\* server need not do anything; nor need anyone call the record layer.
ModesSpec ==
    /\ ModesInit /\ [][ModesNext]_modeVars
    /\ WF_modeVars(Proxied(ProverNext)) /\ WF_modeVars(Proxied(VerifierNext))
    /\ WF_modeVars(Proxied(AppRead))
=============================================================================
