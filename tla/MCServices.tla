----------------------------- MODULE MCServices -----------------------------
(* The services around the delivery loop.  They meet only through their      *)
(* outcomes, so each behaviour exercises one of them, the subject, and the   *)
(* others stand still.                                                       *)
EXTENDS ScmPublication, ScmObserver, ScmProvider, ControlCutover, Integration,
        Provision, TLC

CONSTANT Subjects    \* the services this run looks at

VARIABLE focus       \* the subject of this behaviour

MCSymmetry == Permutations(Items)

mcVars == <<focus, pubVars, obsVars, providerVars, cutoverVars, integrationVars, provVars>>

Init ==
  /\ focus \in Subjects
  /\ PublicationInit /\ ObserverInit /\ ProviderInit /\ IntegrationInit /\ ProvisionInit
  /\ CutoverInit /\ (focus # "cutover" => leaves = "none")

Next ==
  /\ UNCHANGED focus
  /\ \/ /\ focus = "publication" /\ PublicationNext
        /\ UNCHANGED <<obsVars, providerVars, cutoverVars, integrationVars, provVars>>
     \/ /\ focus = "observer" /\ ObserverNext
        /\ UNCHANGED <<pubVars, providerVars, cutoverVars, integrationVars, provVars>>
     \/ /\ focus = "provider" /\ ProviderNext
        /\ UNCHANGED <<pubVars, obsVars, cutoverVars, integrationVars, provVars>>
     \/ /\ focus = "cutover" /\ CutoverNext
        /\ UNCHANGED <<pubVars, obsVars, providerVars, integrationVars, provVars>>
     \/ /\ focus = "integration" /\ IntegrationNext
        /\ UNCHANGED <<pubVars, obsVars, providerVars, cutoverVars, provVars>>
     \/ /\ focus = "provision" /\ ProvisionNext
        /\ UNCHANGED <<pubVars, obsVars, providerVars, cutoverVars, integrationVars>>

Spec == Init /\ [][Next]_mcVars
=============================================================================
