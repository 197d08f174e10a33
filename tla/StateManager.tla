---------------------------- MODULE StateManager ----------------------------
(***************************************************************************)
(* The navigation state of the GUI: one ApplicationState and the table of  *)
(* transitions StateManager.cpp accepts.  WorkflowController and MainWindow *)
(* each own a StateManager and move only through it, so this module is     *)
(* both a component and the abstract specification the two are shown to    *)
(* implement.                                                              *)
(***************************************************************************)

VARIABLE currentState

ApplicationState ==
    { "START", "SOURCE_SELECTION", "STORAGE_PARTITION_INSPECTION",
      "FILESYSTEM_DETECTION", "FILESYSTEM_ANALYSIS", "RECOVERY_CONFIGURATION",
      "VALIDATION", "RECOVERY", "RESULTS", "ERROR", "EXIT" }

(* The switch of isValidTransition, as the set of accepted pairs.  EXIT has *)
(* no successor.                                                           *)
ValidTransitions ==
    { <<"START", "SOURCE_SELECTION">>,
      <<"START", "EXIT">>,
      <<"SOURCE_SELECTION", "STORAGE_PARTITION_INSPECTION">>,
      <<"SOURCE_SELECTION", "START">>,
      <<"STORAGE_PARTITION_INSPECTION", "FILESYSTEM_DETECTION">>,
      <<"STORAGE_PARTITION_INSPECTION", "SOURCE_SELECTION">>,
      <<"FILESYSTEM_DETECTION", "FILESYSTEM_ANALYSIS">>,
      <<"FILESYSTEM_DETECTION", "STORAGE_PARTITION_INSPECTION">>,
      <<"FILESYSTEM_ANALYSIS", "RECOVERY_CONFIGURATION">>,
      <<"FILESYSTEM_ANALYSIS", "FILESYSTEM_DETECTION">>,
      <<"RECOVERY_CONFIGURATION", "VALIDATION">>,
      <<"RECOVERY_CONFIGURATION", "FILESYSTEM_ANALYSIS">>,
      <<"VALIDATION", "RECOVERY">>,
      <<"VALIDATION", "RECOVERY_CONFIGURATION">>,
      <<"RECOVERY", "RESULTS">>,
      <<"RECOVERY", "ERROR">>,
      <<"RECOVERY", "VALIDATION">>,
      <<"RESULTS", "SOURCE_SELECTION">>,
      <<"RESULTS", "EXIT">>,
      <<"ERROR", "SOURCE_SELECTION">>,
      <<"ERROR", "EXIT">> }

IsValidTransition(old, new) == <<old, new>> \in ValidTransitions

(* The state after transitionTo(new): refused moves leave it alone.        *)
AfterTransition(old, new) == IF IsValidTransition(old, new) THEN new ELSE old

-----------------------------------------------------------------------------

Init == currentState = "START"

TransitionTo(new) ==
    /\ IsValidTransition(currentState, new)
    /\ currentState' = new

ResetToStart == currentState' = "START"

(* Unguarded: nothing in the application calls it, only a test does.       *)
ForceTransitionTo(new) == currentState' = new

Next ==
    \/ \E new \in ApplicationState : TransitionTo(new)
    \/ ResetToStart

(* What a user of the guarded interface can see.                           *)
Spec == Init /\ [][Next]_currentState

=============================================================================
