-------------------------- MODULE MainWindowProofs --------------------------
(***************************************************************************)
(* Proofs about MainWindow for every set of devices and every number of    *)
(* pending timers: the two states the window is confined to, the page it   *)
(* shows, and the source it holds.                                         *)
(*                                                                         *)
(* InspectionHasSource is not inductive: the device arrives with a timer,  *)
(* and what the timer delivers is the path chosen by then.  SelectionHeld  *)
(* says that no pending timer can find that path empty.                    *)
(***************************************************************************)
EXTENDS MainWindow, StackLemmas

SelectionHeld ==
    (selectEnabled \/ timers["select"] > 0) => chosen # NoDevice

Places == Confined /\ PageFitsState /\ InspectionHasSource /\ SelectionHeld

-----------------------------------------------------------------------------
(* The state manager from the two states the window is ever in: every      *)
(* request but the two between them is refused.                            *)

LEMMA RefusedMoves ==
    ASSUME Confined, NEW t \in {"FILESYSTEM_ANALYSIS", "ERROR", "RECOVERY"}
    PROVE  SM!AfterTransition(state, t) = state
  BY DEF Confined, SM!AfterTransition, SM!IsValidTransition, SM!ValidTransitions

LEMMA ToSelection ==
    ASSUME Confined
    PROVE  SM!AfterTransition(state, "SOURCE_SELECTION") = "SOURCE_SELECTION"
  BY DEF Confined, SM!AfterTransition, SM!IsValidTransition, SM!ValidTransitions

LEMMA ToInspection ==
    ASSUME Confined
    PROVE  /\ SM!AfterTransition(state, "STORAGE_PARTITION_INSPECTION")
                = "STORAGE_PARTITION_INSPECTION"
           /\ SM!IsValidTransition(state, "STORAGE_PARTITION_INSPECTION")
                <=> state = "SOURCE_SELECTION"
  BY DEF Confined, SM!AfterTransition, SM!IsValidTransition, SM!ValidTransitions

(* What starting and firing timers does to the function of counters.       *)
LEMMA StartedTimer ==
    ASSUME TypeOK, NEW k \in TimerKinds, StartTimer(k)
    PROVE  /\ timers' \in [TimerKinds -> 0 .. MaxTimers]
           /\ timers'[k] = timers[k] + 1
           /\ \A j \in TimerKinds \ {k} : timers'[j] = timers[j]
<1>1. timers \in [TimerKinds -> 0 .. MaxTimers] /\ timers[k] + 1 \in 0 .. MaxTimers
  <2>1. timers \in [TimerKinds -> 0 .. MaxTimers]
    BY Zenon DEF TypeOK
  <2>2. timers[k] \in 0 .. MaxTimers /\ timers[k] < MaxTimers
    BY <2>1 DEF StartTimer
  <2>3. QED
    BY <2>1, <2>2, MaxTimersAssumption
<1>2. QED
  BY <1>1 DEF StartTimer

LEMMA FiredTimer ==
    ASSUME TypeOK, NEW k \in TimerKinds, Fires(k)
    PROVE  /\ timers' \in [TimerKinds -> 0 .. MaxTimers]
           /\ timers[k] > 0 /\ timers'[k] = timers[k] - 1
           /\ \A j \in TimerKinds \ {k} : timers'[j] = timers[j]
<1>1. timers \in [TimerKinds -> 0 .. MaxTimers] /\ timers[k] - 1 \in 0 .. MaxTimers
  <2>1. timers \in [TimerKinds -> 0 .. MaxTimers]
    BY Zenon DEF TypeOK
  <2>2. timers[k] \in 0 .. MaxTimers /\ timers[k] > 0
    BY <2>1 DEF Fires
  <2>3. QED
    BY <2>1, <2>2, MaxTimersAssumption
<1>2. QED
  BY <1>1 DEF Fires

-----------------------------------------------------------------------------
(* Type correctness.                                                       *)

LEMMA TypeInit == Init => TypeOK
<1> SUFFICES ASSUME Init
             PROVE  TypeOK
  OBVIOUS
<1>1. timers \in [TimerKinds -> 0 .. MaxTimers]
  BY MaxTimersAssumption DEF Init
<1>2. dialogs \in Seq(DialogKinds)
  BY EmptySeq DEF Init
<1>3. state \in SM!ApplicationState
  BY DEF Init, SM!AfterTransition, SM!ApplicationState
<1>4. QED
  BY <1>1, <1>2, <1>3 DEF Init, TypeOK

LEMMA OpenTyped ==
    ASSUME TypeOK, NEW k \in DialogKinds, Open(k)
    PROVE  dialogs' \in Seq(DialogKinds)
  BY PushOnStack DEF TypeOK, Open

LEMMA CloseTyped ==
    ASSUME TypeOK, dialogs # <<>>, Close
    PROVE  dialogs' \in Seq(DialogKinds)
<1>1. dialogs \in Seq(DialogKinds)
  BY DEF TypeOK
<1>2. QED
  BY <1>1, PopFromStack DEF Close

LEMMA MoveTyped ==
    ASSUME NEW s \in SM!ApplicationState, NEW t \in SM!ApplicationState
    PROVE  SM!AfterTransition(s, t) \in SM!ApplicationState
  BY DEF SM!AfterTransition

LEMMA TypeStep == TypeOK /\ [Next]_vars => TypeOK'
<1> SUFFICES ASSUME TypeOK, [Next]_vars
             PROVE  TypeOK'
  OBVIOUS
<1> DEFINE Timed == timers' \in [TimerKinds -> 0 .. MaxTimers]
           Stacked == dialogs' \in Seq(DialogKinds)
<1>a. \A k \in TimerKinds : StartTimer(k) \/ Fires(k) => Timed
  BY StartedTimer, FiredTimer
<1>b. \A k \in DialogKinds : Open(k) => Stacked
  BY OpenTyped
<1>c. dialogs # <<>> /\ Close => Stacked
  BY CloseTyped
<1> HIDE DEF Timed, Stacked
<1>1. ASSUME NEW d \in Devices, SelectRow(d)
      PROVE  TypeOK'
  BY <1>1 DEF SelectRow, TypeOK
<1>2. ASSUME NEW d \in Devices, OnDeviceDoubleClicked(d)
      PROVE  TypeOK'
  <2>1. Timed
    BY <1>2, <1>a DEF OnDeviceDoubleClicked, TimerKinds
  <2>2. QED
    BY <1>2, <2>1 DEF OnDeviceDoubleClicked, TypeOK, Timed
<1>3. CASE OnSelectClicked
  <2>1. Timed
    BY <1>3, <1>a DEF OnSelectClicked, TimerKinds
  <2>2. QED
    BY <1>3, <2>1 DEF OnSelectClicked, TypeOK, page, Timed
<1>4. CASE OnRefreshClicked
  <2>1. Timed
    BY <1>4, <1>a DEF OnRefreshClicked, StartRefresh, TimerKinds
  <2>2. QED
    BY <1>4, <2>1 DEF OnRefreshClicked, StartRefresh, TypeOK, Timed
<1>5. ASSUME NEW op \in LongRunning, Refuse(op)
      PROVE  TypeOK'
  <2>1. Stacked
    BY <1>5, <1>b DEF Refuse, DialogKinds
  <2>2. QED
    BY <1>5, <2>1 DEF Refuse, TypeOK, page, Stacked
<1>6. CASE HandleListStorageSources
  <2>1. state' \in SM!ApplicationState
    BY <1>6, MoveTyped DEF HandleListStorageSources, TypeOK, SM!ApplicationState
  <2>2. running' \in BOOLEAN /\ selectedDevice' = selectedDevice
    BY <1>6 DEF HandleListStorageSources, Accept
  <2>3. CASE state' = "SOURCE_SELECTION"
    <3>1. Timed /\ StartRefresh /\ view' \in {0, 1} /\ dialogs' = dialogs
      BY <1>6, <1>a, <2>3 DEF HandleListStorageSources, StartRefresh, TimerKinds, TypeOK
    <3>2. QED
      BY <2>1, <2>2, <3>1 DEF StartRefresh, TypeOK, Timed
  <2>4. CASE state' # "SOURCE_SELECTION"
    <3>1. Stacked /\ UNCHANGED <<view, page, timers>>
      BY <1>6, <1>b, <2>4 DEF HandleListStorageSources, DialogKinds
    <3>2. QED
      BY <2>1, <2>2, <3>1 DEF TypeOK, page, Stacked
  <2>5. QED
    BY <2>3, <2>4
<1>7. CASE \/ HandleInspectPartitions \/ HandleAnalyzeFilesystem
           \/ HandleValidateRecovery \/ HandleStartRecovery
  <2>1. Stacked
    BY <1>7, <1>b DEF HandleInspectPartitions, HandleAnalyzeFilesystem,
                      HandleValidateRecovery, HandleStartRecovery, DialogKinds
  <2>2. running' \in BOOLEAN
    <3>1. ASSUME NEW op, Accept(op)
          PROVE  running' \in BOOLEAN
      BY <3>1 DEF Accept
    <3>2. QED
      BY <1>7, <3>1, Zenon DEF HandleInspectPartitions, HandleAnalyzeFilesystem,
                               HandleValidateRecovery, HandleStartRecovery
  <2>3. UNCHANGED <<state, view, selectedDevice, page, timers>>
    BY <1>7 DEF HandleInspectPartitions, HandleAnalyzeFilesystem,
                HandleValidateRecovery, HandleStartRecovery
  <2>4. QED
    BY <2>1, <2>2, <2>3 DEF TypeOK, page, Stacked
<1>8. CASE HandleDetectFilesystem
  <2>1. running' \in BOOLEAN /\ UNCHANGED <<state, view, selectedDevice, page>>
    BY <1>8 DEF HandleDetectFilesystem, Accept
  <2>2. CASE selectedDevice = NoDevice
    <3>1. Stacked /\ timers' = timers
      BY <1>8, <1>b, <2>2 DEF HandleDetectFilesystem, DialogKinds
    <3>2. QED
      BY <2>1, <3>1 DEF TypeOK, page, Stacked
  <2>3. CASE selectedDevice # NoDevice
    <3>1. Timed /\ dialogs' = dialogs
      BY <1>8, <1>a, <2>3 DEF HandleDetectFilesystem, TimerKinds
    <3>2. QED
      BY <2>1, <3>1 DEF TypeOK, page, Timed
  <2>4. QED
    BY <2>2, <2>3
<1>9. CASE HandleCancelOperation
  BY <1>9 DEF HandleCancelOperation, Accept, TypeOK, page
<1>10. CASE DismissNotice \/ FinishReport \/ AbandonPrompt
  <2>1. Stacked
    BY <1>10, <1>c DEF DismissNotice, FinishReport, AbandonPrompt, Finish, TopIs
  <2>2. running' \in BOOLEAN /\ UNCHANGED <<state, view, selectedDevice, page, timers>>
    BY <1>10 DEF DismissNotice, FinishReport, AbandonPrompt, Finish, TypeOK
  <2>3. QED
    BY <2>1, <2>2 DEF TypeOK, page, Stacked
<1>11. CASE AnswerAnalyze
  <2>1. Stacked /\ Timed
    BY <1>11, <1>a, <1>c DEF AnswerAnalyze, TopIs, TimerKinds
  <2>2. QED
    BY <1>11, <2>1 DEF AnswerAnalyze, TypeOK, page, Stacked, Timed
<1>12. CASE AnswerRecovery
  <2>1. Stacked
    <3>1. dialogs # <<>> /\ dialogs \in Seq(DialogKinds)
      BY <1>12 DEF AnswerRecovery, TopIs, TypeOK
    <3>2. [dialogs EXCEPT ![Len(dialogs)] = "report"] \in Seq(DialogKinds)
      BY <3>1, ReplaceTopOfStack DEF DialogKinds
    <3>3. QED
      BY <1>12, <1>c, <3>1, <3>2 DEF AnswerRecovery, Stacked
  <2>2. state' \in SM!ApplicationState
    BY <1>12, MoveTyped DEF AnswerRecovery, TypeOK, SM!ApplicationState
  <2>3. QED
    BY <1>12, <2>1, <2>2 DEF AnswerRecovery, TypeOK, page, Stacked
<1>13. CASE RefreshFires
  <2>1. Timed
    BY <1>13, <1>a DEF RefreshFires, TimerKinds
  <2>2. QED
    BY <1>13, <2>1 DEF RefreshFires, TypeOK, Timed
<1>14. CASE SelectFires
  <2>1. Timed
    BY <1>14, <1>a DEF SelectFires, TimerKinds
  <2>2. Stacked
    BY <1>14, <1>b DEF SelectFires, DialogKinds, TypeOK, Stacked
  <2>3. state' \in SM!ApplicationState
    BY <1>14, MoveTyped DEF SelectFires, TypeOK, SM!ApplicationState
  <2>4. view' \in {0, 1} /\ selectedDevice' = chosen /\ UNCHANGED <<running, page>>
    BY <1>14 DEF SelectFires, TypeOK
  <2>5. QED
    BY <2>1, <2>2, <2>3, <2>4 DEF TypeOK, page, Timed, Stacked
<1>15. ASSUME NEW success \in BOOLEAN, DetectFires(success)
       PROVE  TypeOK'
  <2>1. Timed /\ Stacked
    BY <1>15, <1>a, <1>b DEF DetectFires, TimerKinds, DialogKinds
  <2>2. state' \in SM!ApplicationState
    BY <1>15, MoveTyped DEF DetectFires, TypeOK, SM!ApplicationState
  <2>3. view' \in {0, 1} /\ UNCHANGED <<running, selectedDevice, page>>
    BY <1>15 DEF DetectFires, ViewFor
  <2>4. QED
    BY <2>1, <2>2, <2>3 DEF TypeOK, page, Timed, Stacked
<1>16. CASE AnalyzeFires
  <2>1. Timed /\ Stacked
    BY <1>16, <1>a, <1>b DEF AnalyzeFires, TimerKinds, DialogKinds
  <2>2. QED
    BY <1>16, <2>1 DEF AnalyzeFires, TypeOK, page, Timed, Stacked
<1>17. CASE UNCHANGED vars
  BY <1>17 DEF vars, page, TypeOK
<1>18. QED
  BY <1>1, <1>2, <1>3, <1>4, <1>5, <1>6, <1>7, <1>8, <1>9, <1>10, <1>11, <1>12,
     <1>13, <1>14, <1>15, <1>16, <1>17 DEF Next, TimerFires, DialogAnswered

(* Every reachable state of the window is well typed: dialogs and timers   *)
(* nest without ever mixing up what an open dialog stands for.             *)
THEOREM TypeCorrect == Spec => []TypeOK
<1>1. Init => TypeOK
  BY TypeInit
<1>2. TypeOK /\ [Next]_vars => TypeOK'
  BY TypeStep
<1>3. QED
  BY <1>1, <1>2, PTL DEF Spec

-----------------------------------------------------------------------------
(* The places of the window.                                               *)

LEMMA PlacesInit == Init => Places
<1> SUFFICES ASSUME Init
             PROVE  Places
  OBVIOUS
<1>1. state = "SOURCE_SELECTION"
  BY DEF Init, SM!AfterTransition, SM!IsValidTransition, SM!ValidTransitions
<1>2. view = 0 /\ selectEnabled = FALSE
  BY DEF Init
<1>3. timers["select"] = 0
  BY DEF Init, TimerKinds
<1>4. QED
  BY <1>1, <1>2, <1>3 DEF Places, Confined, PageFitsState, InspectionHasSource, SelectionHeld

(* The three conjuncts about state, view and selectedDevice are untouched  *)
(* by a step that leaves the three alone.                                  *)
LEMMA PlaceKept ==
    ASSUME Places, UNCHANGED <<state, view, selectedDevice>>
    PROVE  Confined' /\ PageFitsState' /\ InspectionHasSource'
  BY DEF Places, Confined, PageFitsState, InspectionHasSource

LEMMA SelectionKept ==
    ASSUME TypeOK, SelectionHeld, UNCHANGED <<chosen, selectEnabled>>,
           timers'["select"] > 0 => timers["select"] > 0
    PROVE  SelectionHeld'
  BY DEF SelectionHeld

LEMMA PlacesStep == TypeOK /\ Places /\ [Next]_vars => Places'
<1> SUFFICES ASSUME TypeOK, Places, [Next]_vars
             PROVE  Places'
  OBVIOUS
<1>a. TypeOK' /\ Confined /\ SelectionHeld
  BY TypeStep DEF Places
<1>1. ASSUME NEW d \in Devices, SelectRow(d) \/ OnDeviceDoubleClicked(d)
      PROVE  Places'
  <2>1. SelectionHeld'
    BY <1>1, DevicesAssumption DEF SelectRow, OnDeviceDoubleClicked, SelectionHeld
  <2>2. UNCHANGED <<state, view, selectedDevice>>
    BY <1>1 DEF SelectRow, OnDeviceDoubleClicked
  <2>3. QED
    BY <2>1, <2>2, PlaceKept DEF Places
<1>2. CASE OnSelectClicked
  <2>1. SelectionHeld'
    BY <1>2 DEF OnSelectClicked, SelectionHeld, page
  <2>2. UNCHANGED <<state, view, selectedDevice>>
    BY <1>2 DEF OnSelectClicked
  <2>3. QED
    BY <2>1, <2>2, PlaceKept DEF Places
<1>3. ASSUME StartRefresh
      PROVE  SelectionHeld'
  <2>1. timers'["select"] = timers["select"]
    BY <1>3, StartedTimer DEF StartRefresh, TimerKinds
  <2>2. selectEnabled' = FALSE /\ chosen' = chosen
    BY <1>3 DEF StartRefresh
  <2>3. QED
    BY <1>a, <2>1, <2>2 DEF SelectionHeld
<1>4. CASE OnRefreshClicked
  BY <1>3, <1>4, PlaceKept DEF OnRefreshClicked, Places
<1>5. ASSUME UNCHANGED <<state, view, selectedDevice, page, timers>>
      PROVE  Places'
  BY <1>5, PlaceKept DEF Places, SelectionHeld, page
<1>6. ASSUME NEW op \in LongRunning, Refuse(op)
      PROVE  Places'
  BY <1>5, <1>6 DEF Refuse
<1>7. CASE HandleListStorageSources
  <2>1. state' = "SOURCE_SELECTION"
    BY <1>7, <1>a, ToSelection DEF HandleListStorageSources
  <2>2. StartRefresh /\ view' = (IF state' = state THEN view ELSE 0)
    BY <1>7, <2>1 DEF HandleListStorageSources
  <2>3. view' = 0
    BY <2>1, <2>2 DEF Places, PageFitsState
  <2>4. QED
    BY <1>3, <2>1, <2>2, <2>3 DEF Places, Confined, PageFitsState, InspectionHasSource
<1>8. CASE \/ HandleInspectPartitions \/ HandleAnalyzeFilesystem
           \/ HandleValidateRecovery \/ HandleStartRecovery \/ HandleCancelOperation
  BY <1>5, <1>8 DEF HandleInspectPartitions, HandleAnalyzeFilesystem,
                    HandleValidateRecovery, HandleStartRecovery, HandleCancelOperation
<1>9. CASE HandleDetectFilesystem
  <2>1. timers'["select"] = timers["select"]
    BY <1>9, StartedTimer DEF HandleDetectFilesystem, TimerKinds
  <2>2. UNCHANGED <<state, view, selectedDevice, chosen, selectEnabled>>
    BY <1>9 DEF HandleDetectFilesystem, page
  <2>3. QED
    BY <1>a, <2>1, <2>2, PlaceKept, SelectionKept DEF Places
<1>10. CASE DismissNotice \/ FinishReport \/ AbandonPrompt
  BY <1>5, <1>10 DEF DismissNotice, FinishReport, AbandonPrompt, Finish
<1>11. CASE AnswerAnalyze
  <2>1. timers'["select"] = timers["select"]
    BY <1>11, StartedTimer DEF AnswerAnalyze, TimerKinds
  <2>2. UNCHANGED <<state, view, selectedDevice, chosen, selectEnabled>>
    BY <1>11 DEF AnswerAnalyze, page
  <2>3. QED
    BY <1>a, <2>1, <2>2, PlaceKept, SelectionKept DEF Places
<1>12. CASE AnswerRecovery
  <2>1. state' = state
    BY <1>12, <1>a, RefusedMoves DEF AnswerRecovery
  <2>2. QED
    BY <1>5, <1>12, <2>1 DEF AnswerRecovery
<1>13. CASE RefreshFires
  <2>1. timers'["select"] = timers["select"]
    BY <1>13, FiredTimer DEF RefreshFires, TimerKinds
  <2>2. selectEnabled' = FALSE /\ UNCHANGED <<state, view, selectedDevice, chosen>>
    BY <1>13 DEF RefreshFires
  <2>3. SelectionHeld'
    BY <1>a, <2>1, <2>2 DEF SelectionHeld
  <2>4. QED
    BY <2>2, <2>3, PlaceKept DEF Places
<1>14. CASE SelectFires
  <2>1. timers["select"] > 0 /\ timers'["select"] = timers["select"] - 1
    BY <1>14, FiredTimer DEF SelectFires, TimerKinds
  <2>2. selectedDevice' = chosen /\ chosen # NoDevice
    BY <1>14, <1>a, <2>1 DEF SelectFires, SelectionHeld
  <2>3. state' = "STORAGE_PARTITION_INSPECTION" /\ view' = 1
    <3>1. state' = "STORAGE_PARTITION_INSPECTION"
      BY <1>14, <1>a, ToInspection DEF SelectFires
    <3>2. CASE state = "SOURCE_SELECTION"
      BY <1>14, <1>a, <3>1, <3>2, ToInspection DEF SelectFires
    <3>3. CASE state # "SOURCE_SELECTION"
      <4>1. view' = view
        BY <1>14, <1>a, <3>3, ToInspection DEF SelectFires
      <4>2. view = 1
        BY <3>3 DEF Places, PageFitsState, TypeOK
      <4>3. QED
        BY <3>1, <4>1, <4>2
    <3>4. QED
      BY <3>2, <3>3
  <2>4. SelectionHeld'
    BY <1>14, <2>2 DEF SelectFires, SelectionHeld, page
  <2>5. QED
    BY <2>2, <2>3, <2>4 DEF Places, Confined, PageFitsState, InspectionHasSource
<1>15. ASSUME NEW success \in BOOLEAN, DetectFires(success)
       PROVE  Places'
  <2>1. timers'["select"] = timers["select"]
    BY <1>15, FiredTimer DEF DetectFires, TimerKinds
  <2>2. state' = state
    BY <1>15, <1>a, RefusedMoves DEF DetectFires
  <2>3. view' = view
    BY <1>15, <2>2 DEF DetectFires, ViewFor, Places, PageFitsState, TypeOK
  <2>4. UNCHANGED <<selectedDevice, chosen, selectEnabled>>
    BY <1>15 DEF DetectFires, page
  <2>5. QED
    BY <1>a, <2>1, <2>2, <2>3, <2>4, PlaceKept, SelectionKept DEF Places
<1>16. CASE AnalyzeFires
  <2>1. timers'["select"] = timers["select"]
    BY <1>16, FiredTimer DEF AnalyzeFires, TimerKinds
  <2>2. UNCHANGED <<state, view, selectedDevice, chosen, selectEnabled>>
    BY <1>16 DEF AnalyzeFires, page
  <2>3. QED
    BY <1>a, <2>1, <2>2, PlaceKept, SelectionKept DEF Places
<1>17. CASE UNCHANGED vars
  BY <1>5, <1>17 DEF vars
<1>18. QED
  BY <1>1, <1>2, <1>4, <1>6, <1>7, <1>8, <1>9, <1>10, <1>11, <1>12,
     <1>13, <1>14, <1>15, <1>16, <1>17 DEF Next, TimerFires, DialogAnswered

LEMMA PlacesAlways == Spec => [](TypeOK /\ Places)
<1>1. Init => TypeOK /\ Places
  BY TypeInit, PlacesInit
<1>2. (TypeOK /\ Places) /\ [Next]_vars => (TypeOK /\ Places)'
  BY TypeStep, PlacesStep
<1>3. QED
  BY <1>1, <1>2, PTL DEF Spec

(* The window is confined to the selection of a source and the inspection  *)
(* of its partitions: detection, analysis, configuration, validation and   *)
(* recovery are never entered, for any order of clicks, answers, timers    *)
(* and service results.                                                    *)
THEOREM ConfinedAlways == Spec => []Confined
  BY PlacesAlways, PTL DEF Places

(* The page shown always is the one of the state.                          *)
THEOREM PageAlwaysFits == Spec => []PageFitsState
  BY PlacesAlways, PTL DEF Places

(* The window never inspects partitions without a source, even when the    *)
(* timer of an old selection fires late.                                   *)
THEOREM InspectionAlwaysHasSource == Spec => []InspectionHasSource
  BY PlacesAlways, PTL DEF Places

=============================================================================
