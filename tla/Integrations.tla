------------------------------ MODULE Integrations ------------------------------
(***************************************************************************)
(* Four components around the pipeline that share no state: the OAuth      *)
(* flows, the tokens of a credential group, the accounts and the           *)
(* messengers. A behaviour runs one of them, the others stay as they are.  *)
(***************************************************************************)
EXTENDS OAuthFlow, TokenGroup, Accounts, Messengers

VARIABLE part

integrationVars == <<part, flowVars, groupVars, teamVars, chatVars>>

Parts == {"oauth", "group", "team", "chat"}

IntegrationsInit ==
    /\ part \in Parts
    /\ FlowInit /\ (part # "oauth" => server = "gitlab")
    /\ GroupInit /\ (part # "group" => /\ members = [m \in Members |-> [token |-> 2, error |-> FALSE]]
                                       /\ valid = {2} /\ stale = 0)
    /\ TeamInit /\ ChatInit

IntegrationsNext ==
    /\ part' = part
    /\ \/ part = "oauth" /\ FlowNext /\ UNCHANGED <<groupVars, teamVars, chatVars>>
       \/ part = "group" /\ GroupNext /\ UNCHANGED <<flowVars, teamVars, chatVars>>
       \/ part = "team" /\ TeamNext /\ UNCHANGED <<flowVars, groupVars, chatVars>>
       \/ part = "chat" /\ ChatNext /\ UNCHANGED <<flowVars, groupVars, teamVars>>

IntegrationsSpec == IntegrationsInit /\ [][IntegrationsNext]_integrationVars

\* The state of every component has its type, whichever of them runs
IntegrationsTypeOK == FlowTypeOK /\ GroupTypeOK /\ TeamTypeOK /\ ChatTypeOK
=============================================================================
