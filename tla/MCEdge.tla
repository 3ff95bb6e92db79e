------------------------------- MODULE MCEdge -------------------------------
(***************************************************************************)
(* Instances of Accounts, Gateway and Limiter for TLC: who is signed in,   *)
(* what the payment provider is asked, and how often anyone may ask this   *)
(* service.  They share no state, so a behaviour of this module is one of  *)
(* one component, and the others stay as they began.                       *)
(***************************************************************************)
EXTENDS Accounts, Gateway, Limiter, TLC

VARIABLE part

Init ==
    /\ part \in {"accounts", "gateway", "limiter"}
    /\ AccountInit /\ GatewayInit /\ LimiterInit
    /\ part # "gateway" => adapter = "route" /\ provider = NoProvider

Next ==
    \/ part = "accounts" /\ AccountNext /\ UNCHANGED <<part, gatewayVars, limiterVars>>
    \/ part = "gateway" /\ GatewayNext /\ UNCHANGED <<part, accountVars, limiterVars>>
    \/ part = "limiter" /\ LimiterNext /\ UNCHANGED <<part, accountVars, gatewayVars>>

Spec == Init /\ [][Next]_<<part, accountVars, gatewayVars, limiterVars>>

TypeOK == AccountTypeOK /\ GatewayTypeOK /\ LimiterTypeOK

\* The calls of the identity service, its sessions and the callers of the limiter are
\* interchangeable.
Symmetric == Permutations(Calls) \cup Permutations(Sessions) \cup Permutations(Callers)
=============================================================================
