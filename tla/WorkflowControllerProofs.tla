---------------------- MODULE WorkflowControllerProofs ----------------------
(***************************************************************************)
(* Proofs about WorkflowController for every nesting bound: type           *)
(* correctness, the order of the stages under observers that never call    *)
(* back, what a raised validation flag guarantees under any observer, the  *)
(* honesty of notifications, and the implementation of StateManager.       *)
(*                                                                         *)
(* StagesInOrder is not inductive: that VALIDATION succeeds when it is     *)
(* reached rests on the data the earlier handlers stored, and that the     *)
(* moves to ERROR never happen rests on that in turn.  Passive adds both.  *)
(***************************************************************************)
EXTENDS WorkflowController, StackLemmas

StoredData ==
    /\ "SOURCE_SELECTION" \in handled => selectedSource # ""
    /\ "FILESYSTEM_DETECTION" \in handled => detectedFilesystem # ""
    /\ "VALIDATION" \in handled => validationPassed

EarlierStages == \A s \in Stages : Rank(s) < Rank(state) => s \in handled

Frames ==
    /\ stack = <<>> /\ state \in Stages => state \in handled
    /\ stack # <<>> /\ Top = "process" => view = state
    /\ stack # <<>> => Top # "failed"
    /\ stack # <<>> /\ Top = "direct" /\ state \in Stages => state \in handled
    /\ stack # <<>> /\ Top = "completed" => state = "RECOVERY" /\ state \in handled

Passive ==
    limit = 1 =>
        /\ state \notin {"ERROR", "EXIT"}
        /\ StoredData
        /\ EarlierStages
        /\ Frames

IInv == TypeOK /\ ValidatedHasInputs /\ Passive

-----------------------------------------------------------------------------
(* What the stack operators do to the stack of the controller.             *)

LEMMA Bounded ==
    ASSUME TypeOK
    PROVE  stack \in Seq(FrameNames) /\ Len(stack) <= limit /\ limit \in Nat
<1>1. stack \in Seq(FrameNames) /\ Len(stack) <= limit /\ limit \in 1 .. MaxDepth
  BY Zenon DEF TypeOK
<1>2. limit \in Nat
  BY <1>1, MaxDepthAssumption
<1>3. QED
  BY <1>1, <1>2

LEMMA Pushed ==
    ASSUME TypeOK, CanCall, NEW f \in FrameNames, Push(f), limit' = limit
    PROVE  /\ stack' \in Seq(FrameNames) /\ Len(stack') <= limit'
           /\ stack' # <<>> /\ Top' = f
<1>1. stack \in Seq(FrameNames) /\ Len(stack) < limit /\ limit \in Nat
  BY Bounded, Zenon DEF CanCall
<1>2. stack' \in Seq(FrameNames) /\ Len(stack') = Len(stack) + 1 /\ Top' = f
  BY <1>1, PushOnStack DEF Push, Top
<1>3. QED
  BY <1>1, <1>2, EmptySeq, LenProperties

LEMMA Popped ==
    ASSUME TypeOK, stack # <<>>, Pop, limit' = limit
    PROVE  /\ stack' \in Seq(FrameNames) /\ Len(stack') <= limit'
           /\ limit = 1 => stack' = <<>>
<1>1. stack \in Seq(FrameNames) /\ Len(stack) <= limit /\ limit \in Nat
  BY Bounded
<1>2. /\ stack' \in Seq(FrameNames) /\ Len(stack') = Len(stack) - 1
      /\ Len(stack) = 1 => stack' = <<>>
  BY <1>1, PopFromStack DEF Pop
<1>3. Len(stack) \in Nat \ {0}
  BY <1>1, EmptySeq
<1>4. QED
  BY <1>1, <1>2, <1>3

LEMMA Replaced ==
    ASSUME TypeOK, stack # <<>>, NEW f \in FrameNames, ReplaceTop(f), limit' = limit
    PROVE  /\ stack' \in Seq(FrameNames) /\ Len(stack') <= limit'
           /\ stack' # <<>> /\ Top' = f
<1>1. stack \in Seq(FrameNames) /\ Len(stack) <= limit /\ limit \in Nat
  BY Bounded
<1>2. stack' \in Seq(FrameNames) /\ Len(stack') = Len(stack) /\ Top' = f
  BY <1>1, ReplaceTopOfStack DEF ReplaceTop, Top
<1>3. Len(stack) \in Nat \ {0}
  BY <1>1, EmptySeq
<1>4. QED
  BY <1>1, <1>2, <1>3, EmptySeq

-----------------------------------------------------------------------------
(* Facts about the tables.                                                 *)

LEMMA MoveStaysTyped ==
    ASSUME NEW a, NEW b, SM!IsValidTransition(a, b)
    PROVE  b \in SM!ApplicationState
  BY DEF SM!IsValidTransition, SM!ValidTransitions, SM!ApplicationState

(* No accepted transition climbs more than one stage.                      *)
LEMMA MoveClimbsOneStage ==
    ASSUME NEW a, NEW b, SM!IsValidTransition(a, b), NEW s \in Stages, Rank(s) < Rank(b)
    PROVE  s = a \/ Rank(s) < Rank(a)
  BY DEF SM!IsValidTransition, SM!ValidTransitions, Stages, Rank

LEMMA OnlyRecoveryFails ==
    ASSUME state \in SM!ApplicationState
    PROVE  /\ SM!AfterTransition(state, "ERROR") = IF state = "RECOVERY" THEN "ERROR" ELSE state
           /\ SM!AfterTransition(state, "ERROR") \in SM!ApplicationState
  BY DEF SM!AfterTransition, SM!IsValidTransition, SM!ValidTransitions, SM!ApplicationState

LEMMA SwitchesAgree == TypeOK => TablesAgree
  BY DEF TypeOK, TablesAgree, ProceedTarget, GoBackTarget, CancelTarget,
         SM!IsValidTransition, SM!ValidTransitions, SM!ApplicationState

-----------------------------------------------------------------------------
(* Type correctness.                                                       *)

LEMMA TypeInit == Init => TypeOK
<1> SUFFICES ASSUME Init
             PROVE  TypeOK
  OBVIOUS
<1>1. stack \in Seq(FrameNames) /\ Len(stack) = 0
  BY EmptySeq DEF Init
<1>2. limit \in 1 .. MaxDepth
  BY DEF Init
<1>3. Len(stack) <= limit
  BY <1>1, <1>2, MaxDepthAssumption
<1>4. QED
  BY <1>1, <1>2, <1>3 DEF Init, TypeOK, SM!Init, SM!ApplicationState

LEMMA TypeMove ==
    ASSUME TypeOK, NEW t, Move(t)
    PROVE  TypeOK'
<1>1. t \in SM!ApplicationState
  BY MoveStaysTyped DEF Move, SM!TransitionTo
<1>2. stack' \in Seq(FrameNames) /\ Len(stack') <= limit'
  BY Pushed DEF Move, FrameNames
<1>3. QED
  BY <1>1, <1>2 DEF TypeOK, Move, SM!TransitionTo, data

LEMMA TypeFail ==
    ASSUME TypeOK, stack # <<>>, FailInto, limit' = limit
    PROVE  /\ state' \in SM!ApplicationState /\ view' \in SM!ApplicationState
           /\ stack' \in Seq(FrameNames) /\ Len(stack') <= limit'
<1>1. stack' \in Seq(FrameNames) /\ Len(stack') <= limit'
  BY Replaced DEF FailInto, FrameNames
<1>2. state' \in SM!ApplicationState
  BY OnlyRecoveryFails DEF TypeOK, FailInto
<1>3. QED
  BY <1>1, <1>2 DEF FailInto, SM!ApplicationState

LEMMA TypeStep == TypeOK /\ [Next]_vars => TypeOK'
<1> SUFFICES ASSUME TypeOK, [Next]_vars
             PROVE  TypeOK'
  OBVIOUS
<1>1. CASE Proceed
  BY <1>1, TypeMove DEF Proceed
<1>2. CASE GoBack
  BY <1>2, TypeMove DEF GoBack
<1>3. CASE Cancel
  BY <1>3, TypeMove DEF Cancel
<1>4. CASE Initialize
  BY <1>4 DEF Initialize, SM!ResetToStart, TypeOK, SM!ApplicationState, data
<1>5. CASE ProcessCurrentState
  <2>1. stack' \in Seq(FrameNames) /\ Len(stack') <= limit'
    BY <1>5, Pushed DEF ProcessCurrentState, FrameNames
  <2>2. QED
    BY <1>5, <2>1 DEF ProcessCurrentState, TypeOK, data
<1>6. CASE ProcessQuietState
  <2>1. stack' \in Seq(FrameNames) /\ Len(stack') <= limit'
    BY <1>6, Popped DEF ProcessQuietState, AboutToProcess
  <2>2. QED
    BY <1>6, <2>1 DEF ProcessQuietState, Handled, TypeOK, data
<1>7. CASE HandleSourceSelectionState
  <2>1. stack' \in Seq(FrameNames) /\ Len(stack') <= limit'
    BY <1>7, Popped DEF HandleSourceSelectionState, AboutToProcess
  <2>2. QED
    BY <1>7, <2>1 DEF HandleSourceSelectionState, TypeOK, SM!ApplicationState
<1>8. CASE HandleFilesystemDetectionState
  <2>1. stack' \in Seq(FrameNames) /\ Len(stack') <= limit'
    BY <1>8, Popped DEF HandleFilesystemDetectionState, AboutToProcess
  <2>2. QED
    BY <1>8, <2>1 DEF HandleFilesystemDetectionState, Handled, TypeOK
<1>9. CASE HandleValidationState
  <2>1. CASE ValidateRecoveryOperation
    <3>1. stack' \in Seq(FrameNames) /\ Len(stack') <= limit'
      BY <1>9, <2>1, Popped DEF HandleValidationState, AboutToProcess
    <3>2. QED
      BY <1>9, <2>1, <3>1 DEF HandleValidationState, Handled, TypeOK
  <2>2. CASE ~ValidateRecoveryOperation
    <3>1. /\ state' \in SM!ApplicationState /\ view' \in SM!ApplicationState
          /\ stack' \in Seq(FrameNames) /\ Len(stack') <= limit'
      BY <1>9, <2>2, TypeFail DEF HandleValidationState, AboutToProcess
    <3>2. validationPassed' = FALSE
      BY <1>9, <2>2 DEF HandleValidationState
    <3>3. QED
      BY <1>9, <2>2, <3>1, <3>2 DEF HandleValidationState, TypeOK
  <2>3. QED
    BY <2>1, <2>2
<1>10. CASE HandleRecoveryState
  <2>1. CASE ~validationPassed
    <3>1. /\ state' \in SM!ApplicationState /\ view' \in SM!ApplicationState
          /\ stack' \in Seq(FrameNames) /\ Len(stack') <= limit'
      BY <1>10, <2>1, TypeFail DEF HandleRecoveryState, AboutToProcess
    <3>2. QED
      BY <1>10, <2>1, <3>1 DEF HandleRecoveryState, TypeOK, data
  <2>2. CASE validationPassed
    <3>1. stack' \in Seq(FrameNames) /\ Len(stack') <= limit'
      BY <1>10, <2>2, Replaced DEF HandleRecoveryState, AboutToProcess, FrameNames
    <3>2. QED
      BY <1>10, <2>2, <3>1 DEF HandleRecoveryState, Handled, TypeOK, data
  <2>3. QED
    BY <2>1, <2>2
<1>11. CASE RecoveryCompleteReturns
  <2>1. CASE Top = "completed"
    <3>1. stack' \in Seq(FrameNames) /\ Len(stack') <= limit'
      BY <1>11, <2>1, Popped DEF RecoveryCompleteReturns
    <3>2. QED
      BY <1>11, <2>1, <3>1 DEF RecoveryCompleteReturns, TypeOK, data
  <2>2. CASE Top # "completed"
    <3>1. /\ state' \in SM!ApplicationState /\ view' \in SM!ApplicationState
          /\ stack' \in Seq(FrameNames) /\ Len(stack') <= limit'
      BY <1>11, <2>2, TypeFail DEF RecoveryCompleteReturns
    <3>2. QED
      BY <1>11, <2>2, <3>1 DEF RecoveryCompleteReturns, TypeOK, data
  <2>3. QED
    BY <2>1, <2>2
<1>12. CASE UNCHANGED vars
  BY <1>12 DEF vars, TypeOK
<1>13. QED
  BY <1>1, <1>2, <1>3, <1>4, <1>5, <1>6, <1>7, <1>8, <1>9, <1>10, <1>11, <1>12
     DEF Next, CallbackReturns

(* Every reachable state of the controller is well typed, whatever the     *)
(* nesting of calls from callbacks.                                        *)
THEOREM TypeCorrect == Spec => []TypeOK
<1>1. Init => TypeOK
  BY TypeInit
<1>2. TypeOK /\ [Next]_vars => TypeOK'
  BY TypeStep
<1>3. QED
  BY <1>1, <1>2, PTL DEF Spec

(* The controller's switch statements agree with the state manager's in    *)
(* every reachable state: no user operation picks a target that is then    *)
(* refused.                                                                *)
THEOREM TablesAlwaysAgree == Spec => []TablesAgree
  BY TypeCorrect, SwitchesAgree, PTL

-----------------------------------------------------------------------------
(* A raised validation flag vouches for the inputs of the recovery.        *)

LEMMA InputsStep ==
    ASSUME TypeOK, ValidatedHasInputs, [Next]_vars
    PROVE  ValidatedHasInputs'
<1> USE DEF ValidatedHasInputs, ValidateRecoveryOperation
<1>1. CASE Proceed \/ GoBack \/ Cancel
  BY <1>1 DEF Proceed, GoBack, Cancel, Move, data
<1>2. CASE Initialize \/ ProcessCurrentState
  BY <1>2 DEF Initialize, ProcessCurrentState, data
<1>3. CASE ProcessQuietState \/ HandleRecoveryState \/ RecoveryCompleteReturns
  BY <1>3 DEF ProcessQuietState, HandleRecoveryState, RecoveryCompleteReturns, data
<1>4. CASE HandleSourceSelectionState
  BY <1>4 DEF HandleSourceSelectionState
<1>5. CASE HandleFilesystemDetectionState
  BY <1>5 DEF HandleFilesystemDetectionState
<1>6. CASE HandleValidationState
  BY <1>6 DEF HandleValidationState
<1>7. CASE UNCHANGED vars
  BY <1>7 DEF vars
<1>8. QED
  BY <1>1, <1>2, <1>3, <1>4, <1>5, <1>6, <1>7 DEF Next, CallbackReturns

(* Under any observer, in every reachable state, validationPassed_ implies *)
(* a selected source and a detected filesystem: the guards of              *)
(* executeRecoveryOperation() never fail.                                  *)
THEOREM ValidatedHasInputsAlways == Spec => []ValidatedHasInputs
<1>1. Init => ValidatedHasInputs
  BY DEF Init, ValidatedHasInputs
<1>2. TypeOK /\ ValidatedHasInputs /\ [Next]_vars => ValidatedHasInputs'
  BY InputsStep
<1>3. QED
  BY <1>1, <1>2, TypeCorrect, PTL DEF Spec

-----------------------------------------------------------------------------
(* The implementation of the state manager.                                *)

LEMMA StateManagerStep ==
    ASSUME TypeOK, [Next]_vars
    PROVE  [SM!Next]_state
<1>1. ASSUME NEW t, Move(t)
      PROVE  SM!Next
  BY <1>1, MoveStaysTyped DEF Move, SM!TransitionTo, SM!Next
<1>2. ASSUME FailInto
      PROVE  [SM!Next]_state
  BY <1>2 DEF FailInto, SM!AfterTransition, SM!Next, SM!TransitionTo, SM!ApplicationState
<1>3. CASE Proceed \/ GoBack \/ Cancel
  BY <1>1, <1>3 DEF Proceed, GoBack, Cancel
<1>4. CASE Initialize
  BY <1>4 DEF Initialize, SM!Next
<1>5. CASE ProcessCurrentState
  BY <1>5 DEF ProcessCurrentState
<1>6. CASE ProcessQuietState \/ HandleSourceSelectionState \/ HandleFilesystemDetectionState
  BY <1>6 DEF ProcessQuietState, HandleSourceSelectionState, HandleFilesystemDetectionState
<1>7. CASE HandleValidationState
  BY <1>2, <1>7 DEF HandleValidationState
<1>8. CASE HandleRecoveryState
  BY <1>2, <1>8 DEF HandleRecoveryState
<1>9. CASE RecoveryCompleteReturns
  BY <1>2, <1>9 DEF RecoveryCompleteReturns
<1>10. CASE UNCHANGED vars
  BY <1>10 DEF vars
<1>11. QED
  BY <1>3, <1>4, <1>5, <1>6, <1>7, <1>8, <1>9, <1>10 DEF Next, CallbackReturns

(* However callbacks nest, the controller moves its state only along the   *)
(* transitions of the state manager, or by a reset.                        *)
THEOREM Implementation == Spec => ImplementsStateManager
<1>1. Init => SM!Init
  BY DEF Init
<1>2. TypeOK /\ [Next]_vars => [SM!Next]_state
  BY StateManagerStep
<1>3. QED
  BY <1>1, <1>2, TypeCorrect, PTL DEF Spec, SM!Spec, ImplementsStateManager

-----------------------------------------------------------------------------
(* Under observers that never call back, the stages happen in order.       *)

LEMMA PassiveMove ==
    ASSUME TypeOK, limit = 1, Passive, NEW t, t \notin {"ERROR", "EXIT"}, Move(t)
    PROVE  Passive'
<1>1. stack = <<>>
  BY Bounded, EmptySeq DEF CanCall, Move
<1>2. state' = t /\ view' = t /\ SM!IsValidTransition(state, t)
  BY DEF Move, SM!TransitionTo
<1>3. stack' # <<>> /\ Top' = "process"
  BY Pushed DEF Move, FrameNames
<1>4. ASSUME NEW s \in Stages, Rank(s) < Rank(t)
      PROVE  s \in handled
  <2>1. s = state \/ Rank(s) < Rank(state)
    BY <1>2, <1>4, MoveClimbsOneStage
  <2>2. QED
    BY <1>1, <2>1 DEF Passive, EarlierStages, Frames
<1>5. EarlierStages'
  BY <1>2, <1>4 DEF Move, EarlierStages
<1>6. StoredData'
  BY DEF Passive, StoredData, Move, data
<1>7. Frames'
  BY <1>2, <1>3 DEF Frames
<1>8. QED
  BY <1>2, <1>5, <1>6, <1>7 DEF Passive

(* A handler that succeeds and pops its frame, adding its state to handled *)
(* and storing its datum.                                                  *)
LEMMA PassivePop ==
    ASSUME TypeOK, limit = 1, Passive, stack # <<>>, Pop, limit' = limit, state' = state,
           state' \in Stages => state' \in handled',
           EarlierStages', StoredData'
    PROVE  Passive'
<1>1. stack' = <<>>
  BY Popped
<1>2. Frames'
  BY <1>1 DEF Frames
<1>3. QED
  BY <1>2 DEF Passive

LEMMA PassiveStep ==
    ASSUME TypeOK, ValidatedHasInputs, Passive, [Next]_vars
    PROVE  Passive'
<1> SUFFICES ASSUME limit = 1, limit' = limit
             PROVE  Passive'
  <2>1. limit' = limit
    BY DEF Next, CallbackReturns, Proceed, GoBack, Cancel, Move, Initialize,
           ProcessCurrentState, ProcessQuietState, HandleSourceSelectionState,
           HandleFilesystemDetectionState, HandleValidationState,
           HandleRecoveryState, RecoveryCompleteReturns, vars
  <2>2. QED
    BY <2>1 DEF Passive
<1>1. CASE Proceed
  <2>1. ProceedTarget(state) \notin {"ERROR", "EXIT"}
    BY DEF ProceedTarget
  <2>2. QED
    BY <1>1, <2>1, PassiveMove DEF Proceed
<1>2. CASE GoBack
  <2>1. GoBackTarget(state) \notin {"ERROR", "EXIT"}
    BY DEF GoBackTarget
  <2>2. QED
    BY <1>2, <2>1, PassiveMove DEF GoBack
<1>3. CASE Cancel
  <2>1. CancelTarget(state) \notin {"ERROR", "EXIT"}
    BY DEF CancelTarget, GoBackTarget
  <2>2. QED
    BY <1>3, <2>1, PassiveMove DEF Cancel
<1>4. CASE Initialize
  <2>1. stack = <<>> /\ stack' = <<>>
    BY <1>4, Bounded, EmptySeq DEF Initialize, CanCall
  <2>2. state' = "START"
    BY <1>4 DEF Initialize, SM!ResetToStart
  <2>3. EarlierStages'
    BY <2>2 DEF EarlierStages, Stages, Rank
  <2>4. StoredData'
    BY <1>4 DEF Initialize, Passive, StoredData, data
  <2>5. QED
    BY <2>1, <2>2, <2>3, <2>4 DEF Passive, Frames, Stages
<1>5. CASE ProcessCurrentState
  <2>1. stack = <<>>
    BY <1>5, Bounded, EmptySeq DEF ProcessCurrentState, CanCall
  <2>2. stack' # <<>> /\ Top' = "direct"
    BY <1>5, Pushed DEF ProcessCurrentState, FrameNames
  <2>3. EarlierStages' /\ StoredData'
    BY <1>5 DEF ProcessCurrentState, Passive, StoredData, EarlierStages, data
  <2>4. state' = state /\ handled' = handled
    BY <1>5 DEF ProcessCurrentState
  <2>5. Frames'
    BY <2>1, <2>2, <2>4 DEF Passive, Frames
  <2>6. QED
    BY <2>3, <2>4, <2>5 DEF Passive
<1>6. CASE ProcessQuietState
  <2>1. /\ stack # <<>> /\ Pop /\ state' = state /\ handled' = handled \cup {state}
        /\ state \notin {"SOURCE_SELECTION", "FILESYSTEM_DETECTION", "VALIDATION"}
        /\ UNCHANGED data
    BY <1>6 DEF ProcessQuietState, AboutToProcess, Handled
  <2>2. EarlierStages' /\ StoredData'
    BY <2>1 DEF Passive, StoredData, EarlierStages, data
  <2>3. QED
    BY <2>1, <2>2, PassivePop
<1>7. CASE HandleSourceSelectionState
  <2>1. /\ stack # <<>> /\ Pop /\ state = "SOURCE_SELECTION" /\ state' = state
        /\ handled' = {"SOURCE_SELECTION"} /\ selectedSource' = "/dev/sda"
    BY <1>7 DEF HandleSourceSelectionState, AboutToProcess
  <2>2. EarlierStages' /\ StoredData'
    BY <2>1 DEF StoredData, EarlierStages, Stages, Rank
  <2>3. QED
    BY <2>1, <2>2, PassivePop
<1>8. CASE HandleFilesystemDetectionState
  <2>1. /\ stack # <<>> /\ Pop /\ state = "FILESYSTEM_DETECTION" /\ state' = state
        /\ handled' = handled \cup {state} /\ detectedFilesystem' = "NTFS"
        /\ UNCHANGED <<selectedSource, validationPassed>>
    BY <1>8 DEF HandleFilesystemDetectionState, AboutToProcess, Handled
  <2>2. EarlierStages' /\ StoredData'
    BY <2>1 DEF Passive, StoredData, EarlierStages
  <2>3. QED
    BY <2>1, <2>2, PassivePop
<1>9. CASE HandleValidationState
  <2>1. stack # <<>> /\ state = "VALIDATION"
    BY <1>9 DEF HandleValidationState, AboutToProcess
  <2>2. "SOURCE_SELECTION" \in handled /\ "FILESYSTEM_DETECTION" \in handled
    BY <2>1 DEF Passive, EarlierStages, Stages, Rank
  <2>3. ValidateRecoveryOperation
    BY <2>2 DEF Passive, StoredData, ValidateRecoveryOperation
  <2>4. /\ Pop /\ state' = state /\ handled' = handled \cup {state}
        /\ validationPassed' = TRUE
        /\ UNCHANGED <<selectedSource, detectedFilesystem>>
    BY <1>9, <2>3 DEF HandleValidationState, Handled
  <2>5. EarlierStages' /\ StoredData'
    <3>1. EarlierStages'
      BY <2>4 DEF Passive, EarlierStages
    <3>2. StoredData'
      <4>1. selectedSource' # "" /\ detectedFilesystem' # ""
        BY <2>3, <2>4 DEF ValidateRecoveryOperation
      <4>2. validationPassed'
        BY <2>4
      <4>3. QED
        BY <4>1, <4>2 DEF StoredData
    <3>3. QED
      BY <3>1, <3>2
  <2>6. QED
    BY <2>1, <2>4, <2>5, PassivePop
<1>10. CASE HandleRecoveryState
  <2>1. stack # <<>> /\ state = "RECOVERY"
    BY <1>10 DEF HandleRecoveryState, AboutToProcess
  <2>2. validationPassed
    <3>1. "VALIDATION" \in handled
      BY <2>1 DEF Passive, EarlierStages, Stages, Rank
    <3>2. QED
      BY <3>1, Zenon DEF Passive, StoredData
  <2>3. ReplaceTop("completed") /\ handled' = handled \cup {state} /\ UNCHANGED <<state, data>>
    BY <1>10, <2>2 DEF HandleRecoveryState, ValidatedHasInputs, Handled
  <2>4. stack' # <<>> /\ Top' = "completed"
    BY <2>1, <2>3, Replaced DEF FrameNames
  <2>5. EarlierStages' /\ StoredData'
    BY <2>1, <2>3 DEF Passive, StoredData, EarlierStages, data
  <2>6. Frames'
    BY <2>1, <2>3, <2>4 DEF Frames
  <2>7. QED
    BY <2>1, <2>3, <2>5, <2>6 DEF Passive
<1>11. CASE RecoveryCompleteReturns
  <2>1. stack # <<>> /\ Top = "completed"
    BY <1>11 DEF RecoveryCompleteReturns, Passive, Frames
  <2>2. Pop /\ state' = state /\ handled' = handled /\ UNCHANGED data
    BY <1>11, <2>1 DEF RecoveryCompleteReturns
  <2>3. state \in handled
    BY <2>1 DEF Passive, Frames
  <2>4. EarlierStages' /\ StoredData'
    BY <2>2 DEF Passive, StoredData, EarlierStages, data
  <2>5. QED
    BY <2>1, <2>2, <2>3, <2>4, PassivePop
<1>12. CASE UNCHANGED vars
  BY <1>12 DEF vars, Passive, StoredData, EarlierStages, Frames, Top
<1>13. QED
  BY <1>1, <1>2, <1>3, <1>4, <1>5, <1>6, <1>7, <1>8, <1>9, <1>10, <1>11, <1>12
     DEF Next, CallbackReturns

LEMMA PassiveInit == Init => Passive
<1> SUFFICES ASSUME Init
             PROVE  Passive
  OBVIOUS
<1>1. EarlierStages
  <2>1. state = "START"
    BY DEF Init, SM!Init
  <2>2. QED
    BY <2>1 DEF EarlierStages, Stages, Rank
<1>2. StoredData
  BY DEF Init, StoredData
<1>3. Frames
  <2>1. stack = <<>> /\ state \notin Stages
    BY DEF Init, SM!Init, Stages
  <2>2. QED
    BY <2>1 DEF Frames
<1>4. QED
  BY <1>1, <1>2, <1>3 DEF Passive, Init, SM!Init

LEMMA Inductive == Spec => []IInv
<1>1. Init => IInv
  BY TypeInit, PassiveInit DEF IInv, Init, ValidatedHasInputs
<1>2. IInv /\ [Next]_vars => IInv'
  BY TypeStep, InputsStep, PassiveStep DEF IInv
<1>3. QED
  BY <1>1, <1>2, PTL DEF Spec

(* Under observers that never call back, no handler is skipped on the way  *)
(* to any stage, for whatever number of restarts, cancels and retreats.    *)
THEOREM StagesAlwaysInOrder == Spec => []StagesInOrder
<1>1. IInv => StagesInOrder
  BY DEF IInv, Passive, EarlierStages, Frames, StagesInOrder
<1>2. QED
  BY <1>1, Inductive, PTL

(* Such an observer is never told of a state the controller is not in.     *)
THEOREM NoticesAreHonest == Spec => []HonestNotice
<1>1. IInv => HonestNotice
  BY DEF IInv, Passive, Frames, HonestNotice
<1>2. QED
  BY <1>1, Inductive, PTL

=============================================================================
