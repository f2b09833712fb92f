------------------------------ MODULE MCWatch ------------------------------
(* A provider's turn and what is made of it: the turn, the protocol sessions *)
(* and normalizers that judge it, its transcript, and the control service.   *)
(* Each behaviour exercises one of them, the subject, and the others stand   *)
(* still.                                                                    *)
EXTENDS ProviderTurn, AdapterSession, Normalizer, Transcript, ControlService

CONSTANT Subjects    \* the parts this run looks at

VARIABLE focus       \* the subject of this behaviour

mcVars == <<focus, turnVars, adapterVars, normVars, transcriptVars, serviceVars>>

Init ==
  /\ focus \in Subjects
  /\ TurnInit /\ TranscriptInit
  /\ AdapterInit /\ (focus # "adapter" => grammar = "acp")
  /\ NormalizerInit /\ (focus # "normalizer" => dialect = "raw")
  /\ ServiceInit /\ (focus # "service" => \A i \in Processes : kind[i] = "run")

Next ==
  /\ UNCHANGED focus
  /\ \/ /\ focus = "turn" /\ TurnNext
        /\ UNCHANGED <<adapterVars, normVars, transcriptVars, serviceVars>>
     \/ /\ focus = "adapter" /\ AdapterNext
        /\ UNCHANGED <<turnVars, normVars, transcriptVars, serviceVars>>
     \/ /\ focus = "normalizer" /\ NormalizerNext
        /\ UNCHANGED <<turnVars, adapterVars, transcriptVars, serviceVars>>
     \/ /\ focus = "transcript" /\ TranscriptNext
        /\ UNCHANGED <<turnVars, adapterVars, normVars, serviceVars>>
     \/ /\ focus = "service" /\ ServiceNext
        /\ UNCHANGED <<turnVars, adapterVars, normVars, transcriptVars>>

Spec == Init /\ [][Next]_mcVars
============================================================================
