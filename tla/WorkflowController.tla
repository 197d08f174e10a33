------------------------- MODULE WorkflowController -------------------------
(***************************************************************************)
(* The recovery workflow of GUI/widgets/WorkflowController.cpp: proceed(), *)
(* goBack(), cancel(), initialize() and processCurrentState(), the handler *)
(* of every state, and the two callbacks the controller makes.             *)
(*                                                                         *)
(* The controller is synchronous but not closed: proceed() moves the state *)
(* manager, then calls the state-change callback, and only after that      *)
(* callback has returned runs the handler of whatever state is current     *)
(* THEN.  A callback that calls back into the controller therefore nests   *)
(* calls.  stack holds one frame per controller call that is waiting for   *)
(* a callback, innermost last:                                             *)
(*    "process"    the state-change callback; processCurrentState() next   *)
(*    "direct"     no callback: processCurrentState() itself was called    *)
(*    "completed"  recoveryCompleteCallback_(true, ...); nothing next      *)
(*    "failed"     recoveryCompleteCallback_(false, ...); to ERROR next    *)
(* An API call made by the event loop is a call made with an empty stack.  *)
(* A handler that re-enters processCurrentState() does so as its last act, *)
(* so its frame is reused.                                                 *)
(***************************************************************************)
EXTENDS Naturals, Sequences

CONSTANT MaxDepth   \* bound on the nesting of calls from callbacks

ASSUME MaxDepthAssumption == MaxDepth \in Nat \ {0}

VARIABLES
    state,               \* stateManager_.currentState_
    selectedSource,      \* "" until a source is selected
    detectedFilesystem,  \* "" until a filesystem is detected
    validationPassed,
    stack,
    view,                \* the new state of the last notification
    handled,             \* history: the states whose handler has succeeded
                         \* since a source was last selected
    limit                \* rigid: 1 for observers that never call back

vars == <<state, selectedSource, detectedFilesystem, validationPassed,
          stack, view, handled, limit>>

data == <<selectedSource, detectedFilesystem, validationPassed>>

SM == INSTANCE StateManager WITH currentState <- state

-----------------------------------------------------------------------------
(* The tables of the three user operations; "" means the call returns     *)
(* false without touching anything.                                       *)

(* Wrong variant: configuration is skipped, a move the state manager's own  *)
(* table does not have.                                                    *)
ProceedTargetSkipsConfiguration(s) ==
    CASE s = "FILESYSTEM_ANALYSIS" -> "VALIDATION"
      [] s = "START"               -> "SOURCE_SELECTION"
      [] s = "SOURCE_SELECTION"    -> "STORAGE_PARTITION_INSPECTION"
      [] s = "STORAGE_PARTITION_INSPECTION" -> "FILESYSTEM_DETECTION"
      [] s = "FILESYSTEM_DETECTION"         -> "FILESYSTEM_ANALYSIS"
      [] OTHER                     -> ""

ProceedTarget(s) ==
    CASE s = "START"                        -> "SOURCE_SELECTION"
      [] s = "SOURCE_SELECTION"             -> "STORAGE_PARTITION_INSPECTION"
      [] s = "STORAGE_PARTITION_INSPECTION" -> "FILESYSTEM_DETECTION"
      [] s = "FILESYSTEM_DETECTION"         -> "FILESYSTEM_ANALYSIS"
      [] s = "FILESYSTEM_ANALYSIS"          -> "RECOVERY_CONFIGURATION"
      [] s = "RECOVERY_CONFIGURATION"       -> "VALIDATION"
      [] s = "VALIDATION"                   -> "RECOVERY"
      [] s = "RECOVERY"                     -> "RESULTS"
      [] s \in {"RESULTS", "ERROR"}         -> "SOURCE_SELECTION"
      [] OTHER                              -> ""

GoBackTarget(s) ==
    CASE s = "SOURCE_SELECTION"             -> "START"
      [] s = "STORAGE_PARTITION_INSPECTION" -> "SOURCE_SELECTION"
      [] s = "FILESYSTEM_DETECTION"         -> "STORAGE_PARTITION_INSPECTION"
      [] s = "FILESYSTEM_ANALYSIS"          -> "FILESYSTEM_DETECTION"
      [] s = "RECOVERY_CONFIGURATION"       -> "FILESYSTEM_ANALYSIS"
      [] s = "VALIDATION"                   -> "RECOVERY_CONFIGURATION"
      [] s = "RECOVERY"                     -> "VALIDATION"
      [] s \in {"RESULTS", "ERROR"}         -> "SOURCE_SELECTION"
      [] OTHER                              -> ""

CancelTarget(s) ==
    CASE s = "RECOVERY"                     -> "VALIDATION"
      [] s = "FILESYSTEM_ANALYSIS"          -> "FILESYSTEM_DETECTION"
      [] s = "STORAGE_PARTITION_INSPECTION" -> "SOURCE_SELECTION"
      [] s = "SOURCE_SELECTION"             -> "START"
      [] s = "VALIDATION"                   -> "RECOVERY_CONFIGURATION"
      [] s \in {"ERROR", "RESULTS"}         -> "SOURCE_SELECTION"
      [] OTHER                              -> GoBackTarget(s)

-----------------------------------------------------------------------------

Top == stack[Len(stack)]

Push(frame) == stack' = Append(stack, frame)

Pop == stack' = SubSeq(stack, 1, Len(stack) - 1)

ReplaceTop(frame) == stack' = [stack EXCEPT ![Len(stack)] = frame]

(* The event loop (empty stack) or the running callback may call in.      *)
CanCall ==
    /\ Len(stack) < limit
    /\ stack # <<>> => Top # "direct"

FrameNames == {"process", "direct", "completed", "failed"}

TypeOK ==
    /\ state \in SM!ApplicationState
    /\ selectedSource \in {"", "/dev/sda"}
    /\ detectedFilesystem \in {"", "NTFS"}
    /\ validationPassed \in BOOLEAN
    /\ stack \in Seq(FrameNames)
    /\ Len(stack) <= limit
    /\ view \in SM!ApplicationState
    /\ handled \subseteq SM!ApplicationState
    /\ limit \in 1 .. MaxDepth

Init ==
    /\ SM!Init
    /\ selectedSource = "" /\ detectedFilesystem = ""
    /\ validationPassed = FALSE
    /\ stack = <<>>
    /\ view = "START"
    /\ handled = {}
    /\ limit \in 1 .. MaxDepth

-----------------------------------------------------------------------------
(* API calls.                                                             *)

(* Wrong variant: the new state is announced but never processed.          *)
MoveWithoutProcessing(target) ==
    /\ CanCall
    /\ SM!TransitionTo(target)
    /\ view' = target
    /\ UNCHANGED <<data, stack, handled, limit>>

Move(target) ==
    /\ CanCall
    /\ SM!TransitionTo(target)
    /\ view' = target            \* notifyStateChange(currentState, target)
    /\ Push("process")
    /\ UNCHANGED <<data, handled, limit>>

Proceed == Move(ProceedTarget(state))

GoBack == Move(GoBackTarget(state))

Cancel == Move(CancelTarget(state))

(* Resets the state manager alone, and tells nobody.                      *)
Initialize ==
    /\ CanCall
    /\ SM!ResetToStart
    /\ UNCHANGED <<data, stack, view, handled, limit>>

ProcessCurrentState ==
    /\ CanCall
    /\ Push("direct")
    /\ UNCHANGED <<state, data, view, handled, limit>>

-----------------------------------------------------------------------------
(* The state-change callback returns and processCurrentState() runs the    *)
(* handler of the state that is current now.                              *)

AboutToProcess == stack # <<>> /\ Top \in {"process", "direct"}

Handled(s) == handled' = handled \cup {s}

(* These handlers only write to the console.                              *)
ProcessQuietState ==
    /\ AboutToProcess
    /\ state \notin {"SOURCE_SELECTION", "FILESYSTEM_DETECTION", "VALIDATION", "RECOVERY"}
    /\ Pop
    /\ Handled(state)
    /\ UNCHANGED <<state, data, view, limit>>

HandleSourceSelectionState ==
    /\ AboutToProcess
    /\ state = "SOURCE_SELECTION"
    /\ selectedSource' = "/dev/sda"
    /\ handled' = {"SOURCE_SELECTION"}
    /\ Pop
    /\ UNCHANGED <<state, detectedFilesystem, validationPassed, view, limit>>

(* Wrong variant: detection that finds nothing and leaves the type empty.  *)
DetectionFindsNothing ==
    /\ AboutToProcess
    /\ state = "FILESYSTEM_DETECTION"
    /\ detectedFilesystem' = ""
    /\ Handled(state)
    /\ Pop
    /\ UNCHANGED <<state, selectedSource, validationPassed, view, limit>>

(* Wrong variant: detection reports a type the workflow does not know.     *)
DetectionFindsUnknownType ==
    /\ AboutToProcess
    /\ state = "FILESYSTEM_DETECTION"
    /\ detectedFilesystem' = "RAW"
    /\ Handled(state)
    /\ Pop
    /\ UNCHANGED <<state, selectedSource, validationPassed, view, limit>>

HandleFilesystemDetectionState ==
    /\ AboutToProcess
    /\ state = "FILESYSTEM_DETECTION"
    /\ detectedFilesystem' = "NTFS"
    /\ Handled(state)
    /\ Pop
    /\ UNCHANGED <<state, selectedSource, validationPassed, view, limit>>

(* validateRecoveryOperation(), and the guards of                         *)
(* executeRecoveryOperation().                                            *)
ValidateRecoveryOperation == selectedSource # "" /\ detectedFilesystem # ""

(* Wrong variant: forceTransitionTo(ERROR).                                *)
ForceInto ==
    /\ state' = "ERROR"
    /\ view' = "ERROR"
    /\ ReplaceTop("process")

(* transitionTo(ERROR) with its result ignored, then the notification and *)
(* processCurrentState(), whether or not the state moved.                 *)
FailInto ==
    /\ state' = SM!AfterTransition(state, "ERROR")
    /\ view' = "ERROR"
    /\ ReplaceTop("process")

(* Wrong variant: the flag is raised before the check and never lowered.   *)
ValidationFlagRaisedFirst ==
    /\ AboutToProcess
    /\ state = "VALIDATION"
    /\ validationPassed' = TRUE
    /\ IF ValidateRecoveryOperation
       THEN Pop /\ Handled(state) /\ UNCHANGED <<state, view>>
       ELSE FailInto /\ UNCHANGED handled
    /\ UNCHANGED <<selectedSource, detectedFilesystem, limit>>

HandleValidationState ==
    /\ AboutToProcess
    /\ state = "VALIDATION"
    /\ validationPassed' = ValidateRecoveryOperation
    /\ IF ValidateRecoveryOperation
       THEN Pop /\ Handled(state) /\ UNCHANGED <<state, view>>
       ELSE FailInto /\ UNCHANGED handled
    /\ UNCHANGED <<selectedSource, detectedFilesystem, limit>>

(* Without a passed validation, straight to ERROR; otherwise the recovery *)
(* runs and the completion callback is called with its outcome.           *)
HandleRecoveryState ==
    /\ AboutToProcess
    /\ state = "RECOVERY"
    /\ IF ~validationPassed
       THEN FailInto /\ UNCHANGED handled
       ELSE IF ValidateRecoveryOperation
            THEN ReplaceTop("completed") /\ Handled(state) /\ UNCHANGED <<state, view>>
            ELSE ReplaceTop("failed") /\ UNCHANGED <<state, view, handled>>
    /\ UNCHANGED <<data, limit>>

RecoveryCompleteReturns ==
    /\ stack # <<>> /\ Top \in {"completed", "failed"}
    /\ IF Top = "completed" THEN Pop /\ UNCHANGED <<state, view>> ELSE FailInto
    /\ UNCHANGED <<data, handled, limit>>

CallbackReturns ==
    \/ ProcessQuietState
    \/ HandleSourceSelectionState
    \/ HandleFilesystemDetectionState
    \/ HandleValidationState
    \/ HandleRecoveryState
    \/ RecoveryCompleteReturns

Next ==
    \/ Proceed
    \/ GoBack
    \/ Cancel
    \/ Initialize
    \/ ProcessCurrentState
    \/ CallbackReturns

-----------------------------------------------------------------------------

(* Callbacks return: the only assumption.  Nothing obliges a user to act. *)
Spec == Init /\ [][Next]_vars /\ WF_vars(CallbackReturns)

-----------------------------------------------------------------------------
(* Properties.                                                            *)

Stages == { "SOURCE_SELECTION", "STORAGE_PARTITION_INSPECTION",
            "FILESYSTEM_DETECTION", "FILESYSTEM_ANALYSIS",
            "RECOVERY_CONFIGURATION", "VALIDATION", "RECOVERY", "RESULTS" }

Rank(s) ==
    CASE s = "SOURCE_SELECTION"             -> 1
      [] s = "STORAGE_PARTITION_INSPECTION" -> 2
      [] s = "FILESYSTEM_DETECTION"         -> 3
      [] s = "FILESYSTEM_ANALYSIS"          -> 4
      [] s = "RECOVERY_CONFIGURATION"       -> 5
      [] s = "VALIDATION"                   -> 6
      [] s = "RECOVERY"                     -> 7
      [] s = "RESULTS"                      -> 8
      [] OTHER                              -> 0

(* With observers that never call back, no stage is ever skipped: since a  *)
(* source was last selected, the handler of every stage before the current *)
(* one has succeeded, and between calls that of the current one too - so   *)
(* RESULTS is never shown, after any mix of going back, cancelling and     *)
(* restarting, without a validation and a recovery of this source.         *)
StagesInOrder ==
    limit = 1 =>
        /\ \A s \in Stages : Rank(s) < Rank(state) => s \in handled
        /\ stack = <<>> /\ state \in Stages => state \in handled

(* An observer that never calls back is told the truth: while it runs, the *)
(* state it was last told of is the state of the controller.  (It fails    *)
(* for the notification of VALIDATION -> ERROR, a move the state manager   *)
(* refuses, which observers that call back can provoke.)                   *)
HonestNotice == limit = 1 /\ stack # <<>> /\ Top = "process" => view = state

(* However callbacks nest, a raised validation flag - which nothing lowers *)
(* when the workflow restarts - never vouches for a recovery without a     *)
(* source or a filesystem: executeRecoveryOperation() cannot fail.         *)
ValidatedHasInputs == validationPassed => ValidateRecoveryOperation

(* The switch statements of the controller and the transition table of the *)
(* state manager agree: no proceed(), goBack() or cancel() picks a target  *)
(* that transitionTo() then refuses.                                       *)
TablesAgree ==
    \A target \in {ProceedTarget(state), GoBackTarget(state), CancelTarget(state)} :
        target # "" => SM!IsValidTransition(state, target)

(* However callbacks nest, the controller moves only as the state manager  *)
(* allows.                                                                 *)
ImplementsStateManager == SM!Spec

(* With observers that never call back, every call into the controller     *)
(* returns: the handlers of VALIDATION and RECOVERY re-enter               *)
(* processCurrentState() finitely often.                                   *)
EveryCallReturns == (limit = 1 /\ stack # <<>>) ~> (stack = <<>>)

=============================================================================
