----------------------------- MODULE MainWindow -----------------------------
(***************************************************************************)
(* The main window of the GUI with its source discovery page, as wired by  *)
(* MainWindow.cpp and SourceDiscoveryWidget.cpp.                           *)
(*                                                                         *)
(* Everything runs on the GUI thread, but handlers do overlap: a handler   *)
(* that shows a modal dialog runs a nested event loop, in which the user   *)
(* can only answer the topmost dialog while single-shot timers still fire. *)
(* dialogs is the stack of open dialogs, innermost last, named by what the *)
(* interrupted handler does when its dialog is closed:                     *)
(*    "notice"      nothing                                                *)
(*    "report"      reset isOperationRunning_: the last dialog of a        *)
(*                  long-running operation                                 *)
(*    "validation"  the same, for validate_recovery                        *)
(*    "analyze"     prompts for a range, then starts the analysis timer    *)
(*    "recovery"    prompts for the parameters, then starts the recovery   *)
(* Consecutive prompts of one handler are one dialog: nothing changes      *)
(* between them.                                                           *)
(*                                                                         *)
(* The configuration page is mute in this wiring: its two buttons stop at  *)
(* "No Device Selected", because nothing calls its setSelectedDevice().    *)
(* The enabled state of the Start and Cancel buttons is left out: the menu *)
(* offers all operations at all times.                                     *)
(***************************************************************************)
EXTENDS Naturals, Sequences

CONSTANTS
    Devices,     \* the rows of the device table, which a refresh replaces
    NoDevice,    \* the empty path
    MaxTimers    \* bound on the timers of one kind that are pending

ASSUME DevicesAssumption == NoDevice \notin Devices /\ Devices # {}

ASSUME MaxTimersAssumption == MaxTimers \in Nat

VARIABLES
    state,           \* stateManager_
    view,            \* page of stackedWidget_: 0 discovery, 1 workflow
    running,         \* isOperationRunning_
    selectedDevice,  \* selectedDevice_ of the window
    chosen,          \* selectedDevicePath_ of the discovery page
    selectEnabled,   \* selectButton_
    refreshEnabled,  \* refreshButton_
    timers,          \* pending single-shot timers, by kind
    dialogs

page == <<chosen, selectEnabled, refreshEnabled>>

vars == <<state, view, running, selectedDevice, page, timers, dialogs>>

SM == INSTANCE StateManager WITH currentState <- state

TimerKinds == {"refresh", "select", "detect", "analyze"}

DialogKinds == {"notice", "report", "validation", "analyze", "recovery"}

LongRunning == { "start_recovery", "analyze_filesystem", "detect_filesystem",
                 "inspect_partitions", "list_sources" }

TypeOK ==
    /\ state \in SM!ApplicationState
    /\ view \in {0, 1}
    /\ running \in BOOLEAN
    /\ selectedDevice \in Devices \cup {NoDevice}
    /\ chosen \in Devices \cup {NoDevice}
    /\ selectEnabled \in BOOLEAN
    /\ refreshEnabled \in BOOLEAN
    /\ timers \in [TimerKinds -> 0 .. MaxTimers]
    /\ dialogs \in Seq(DialogKinds)

(* The constructor moves from START to SOURCE_SELECTION, and the discovery *)
(* page has filled its table.                                              *)
Init ==
    /\ state = SM!AfterTransition("START", "SOURCE_SELECTION")
    /\ view = 0
    /\ running = FALSE
    /\ selectedDevice = NoDevice
    /\ chosen = NoDevice
    /\ selectEnabled = FALSE
    /\ refreshEnabled = TRUE
    /\ timers = [k \in TimerKinds |-> 0]
    /\ dialogs = <<>>

-----------------------------------------------------------------------------
(* Timers and dialogs.                                                     *)

StartTimer(k) ==
    /\ timers[k] < MaxTimers
    /\ timers' = [timers EXCEPT ![k] = @ + 1]

Fires(k) ==
    /\ timers[k] > 0
    /\ timers' = [timers EXCEPT ![k] = @ - 1]

Open(kind) == dialogs' = Append(dialogs, kind)

TopIs(kind) == dialogs # <<>> /\ dialogs[Len(dialogs)] = kind

Close == dialogs' = SubSeq(dialogs, 1, Len(dialogs) - 1)

(* The user reaches the window and its pages only when no dialog is open.  *)
WindowActive == dialogs = <<>>

-----------------------------------------------------------------------------
(* The discovery page.                                                     *)

(* selectionChanged, for a row that becomes selected.                      *)
SelectRow(d) ==
    /\ WindowActive /\ view = 0
    /\ chosen' = d
    /\ selectEnabled' = TRUE
    /\ UNCHANGED <<state, view, running, selectedDevice, refreshEnabled, timers, dialogs>>

OnSelectClicked ==
    /\ WindowActive /\ view = 0 /\ selectEnabled
    /\ chosen # NoDevice
    /\ StartTimer("select")
    /\ UNCHANGED <<state, view, running, selectedDevice, page, dialogs>>

(* A double click is a selection of its row first.                         *)
OnDeviceDoubleClicked(d) ==
    /\ WindowActive /\ view = 0
    /\ chosen' = d
    /\ selectEnabled' = TRUE
    /\ StartTimer("select")
    /\ UNCHANGED <<state, view, running, selectedDevice, refreshEnabled, dialogs>>

StartRefresh ==
    /\ refreshEnabled' = FALSE
    /\ selectEnabled' = FALSE
    /\ StartTimer("refresh")
    /\ UNCHANGED chosen

OnRefreshClicked ==
    /\ WindowActive /\ view = 0 /\ refreshEnabled
    /\ StartRefresh
    /\ UNCHANGED <<state, view, running, selectedDevice, dialogs>>

(* Removing the old rows clears the selection, not selectedDevicePath_.    *)
RefreshFires ==
    /\ Fires("refresh")
    /\ selectEnabled' = FALSE
    /\ refreshEnabled' = TRUE
    /\ UNCHANGED <<state, view, running, selectedDevice, chosen, dialogs>>

(* Wrong variant: the device is stored only when the move is refused.      *)
SelectFiresStoringLate ==
    /\ Fires("select")
    /\ state' = SM!AfterTransition(state, "STORAGE_PARTITION_INSPECTION")
    /\ IF SM!IsValidTransition(state, "STORAGE_PARTITION_INSPECTION")
       THEN view' = 1 /\ UNCHANGED <<selectedDevice, dialogs>>
       ELSE Open("notice") /\ selectedDevice' = chosen /\ UNCHANGED view
    /\ UNCHANGED <<running, page>>

(* sourceSelected() carries the path chosen by the time the timer fires.   *)
(* onSourceSelected stores it whether or not the move is accepted.         *)
SelectFires ==
    /\ Fires("select")
    /\ selectedDevice' = chosen
    /\ state' = SM!AfterTransition(state, "STORAGE_PARTITION_INSPECTION")
    /\ IF SM!IsValidTransition(state, "STORAGE_PARTITION_INSPECTION")
       THEN view' = 1 /\ UNCHANGED dialogs
       ELSE Open("notice") /\ UNCHANGED view
    /\ UNCHANGED <<running, page>>

-----------------------------------------------------------------------------
(* handleWorkflowOperation.                                                *)

Refuse(op) ==
    /\ WindowActive
    /\ running /\ op \in LongRunning
    /\ Open("notice")
    /\ UNCHANGED <<state, view, running, selectedDevice, page, timers>>

(* Accepting an operation assigns the flag, whatever it was.               *)
Accept(op) ==
    /\ WindowActive
    /\ ~(running /\ op \in LongRunning)
    /\ running' = (op \in LongRunning)

HandleListStorageSources ==
    /\ Accept("list_sources")
    /\ state' = SM!AfterTransition(state, "SOURCE_SELECTION")
    /\ IF state' = "SOURCE_SELECTION"
       THEN StartRefresh /\ view' = (IF state' = state THEN view ELSE 0) /\ UNCHANGED dialogs
       ELSE Open("report") /\ UNCHANGED <<view, page, timers>>
    /\ UNCHANGED selectedDevice

(* With a device, placeholder text; without one, a warning.                *)
HandleInspectPartitions ==
    /\ Accept("inspect_partitions")
    /\ Open("report")
    /\ UNCHANGED <<state, view, selectedDevice, page, timers>>

HandleDetectFilesystem ==
    /\ Accept("detect_filesystem")
    /\ IF selectedDevice = NoDevice
       THEN Open("report") /\ UNCHANGED timers
       ELSE StartTimer("detect") /\ UNCHANGED dialogs
    /\ UNCHANGED <<state, view, selectedDevice, page>>

HandleAnalyzeFilesystem ==
    /\ Accept("analyze_filesystem")
    /\ Open(IF selectedDevice = NoDevice THEN "report" ELSE "analyze")
    /\ UNCHANGED <<state, view, selectedDevice, page, timers>>

HandleValidateRecovery ==
    /\ Accept("validate_recovery")
    /\ Open("validation")
    /\ UNCHANGED <<state, view, selectedDevice, page, timers>>

HandleStartRecovery ==
    /\ Accept("start_recovery")
    /\ Open(IF selectedDevice = NoDevice THEN "report" ELSE "recovery")
    /\ UNCHANGED <<state, view, selectedDevice, page, timers>>

(* Outside RECOVERY there is nothing to cancel, but the flag is lowered.   *)
HandleCancelOperation ==
    /\ Accept("cancel_operation")
    /\ UNCHANGED <<state, view, selectedDevice, page, timers, dialogs>>

-----------------------------------------------------------------------------
(* Answers to dialogs.                                                     *)

DismissNotice ==
    /\ TopIs("notice")
    /\ Close
    /\ UNCHANGED <<state, view, running, selectedDevice, page, timers>>

(* Wrong variant: the report is closed and the flag stays up.              *)
FinishWithoutReset ==
    /\ Close
    /\ UNCHANGED <<state, view, running, selectedDevice, page, timers>>

Finish ==
    /\ Close
    /\ running' = FALSE
    /\ UNCHANGED <<state, view, selectedDevice, page, timers>>

FinishReport == (TopIs("report") \/ TopIs("validation")) /\ Finish

(* A prompt is cancelled, or answered with something that is no number.    *)
AbandonPrompt == (TopIs("analyze") \/ TopIs("recovery")) /\ Finish

AnswerAnalyze ==
    /\ TopIs("analyze")
    /\ Close
    /\ StartTimer("analyze")
    /\ UNCHANGED <<state, view, running, selectedDevice, page>>

(* In RECOVERY the worker thread takes over; otherwise "Invalid State".    *)
AnswerRecovery ==
    /\ TopIs("recovery")
    /\ state' = (IF state = "RECOVERY" THEN state ELSE SM!AfterTransition(state, "RECOVERY"))
    /\ IF state' = "RECOVERY"
       THEN Close
       ELSE dialogs' = [dialogs EXCEPT ![Len(dialogs)] = "report"]
    /\ UNCHANGED <<view, running, selectedDevice, page, timers>>

-----------------------------------------------------------------------------
(* The timers of the two operations that call the recovery service.  Both  *)
(* end in a dialog, with the service's answer or with its error.           *)

(* Wrong variant: the detection forces its state on the state manager.     *)
DetectFiresForcing(success) ==
    /\ Fires("detect")
    /\ state' = (IF success THEN "FILESYSTEM_ANALYSIS" ELSE "ERROR")
    /\ view' = 1
    /\ Open("report")
    /\ UNCHANGED <<running, selectedDevice, page>>

(* Wrong variant: a failure is shown on the workflow page.                 *)
DetectFiresShowingWorkflow(success) ==
    /\ Fires("detect")
    /\ state' = SM!AfterTransition(state, IF success THEN "FILESYSTEM_ANALYSIS" ELSE "ERROR")
    /\ view' = 1
    /\ Open("report")
    /\ UNCHANGED <<running, selectedDevice, page>>

(* The page updateUIForState shows for a state; its texts are left out.    *)
ViewFor(s) == IF s = "SOURCE_SELECTION" THEN 0 ELSE 1

(* The result of transitionTo is ignored; updateUIForState picks the page. *)
DetectFires(success) ==
    /\ Fires("detect")
    /\ state' = SM!AfterTransition(state, IF success THEN "FILESYSTEM_ANALYSIS" ELSE "ERROR")
    /\ view' = ViewFor(state')
    /\ Open("report")
    /\ UNCHANGED <<running, selectedDevice, page>>

(* Wrong variant: the result is shown by a dialog of an unknown kind.      *)
AnalyzeFiresUnknown ==
    /\ Fires("analyze")
    /\ Open("result")
    /\ UNCHANGED <<state, view, running, selectedDevice, page>>

AnalyzeFires ==
    /\ Fires("analyze")
    /\ Open("report")
    /\ UNCHANGED <<state, view, running, selectedDevice, page>>

-----------------------------------------------------------------------------

TimerFires ==
    \/ RefreshFires
    \/ SelectFires
    \/ \E success \in BOOLEAN : DetectFires(success)
    \/ AnalyzeFires

DialogAnswered ==
    \/ DismissNotice
    \/ FinishReport
    \/ AbandonPrompt
    \/ AnswerAnalyze
    \/ AnswerRecovery

Next ==
    \/ \E d \in Devices : SelectRow(d) \/ OnDeviceDoubleClicked(d)
    \/ OnSelectClicked
    \/ OnRefreshClicked
    \/ \E op \in LongRunning : Refuse(op)
    \/ HandleListStorageSources
    \/ HandleInspectPartitions
    \/ HandleDetectFilesystem
    \/ HandleAnalyzeFilesystem
    \/ HandleValidateRecovery
    \/ HandleStartRecovery
    \/ HandleCancelOperation
    \/ DialogAnswered
    \/ TimerFires

(* Every timer that is due fires - Qt serves timers in the order in which  *)
(* they are due - and the user answers every dialog sooner or later.       *)
Fairness ==
    /\ WF_vars(RefreshFires)
    /\ WF_vars(SelectFires)
    /\ WF_vars(\E success \in BOOLEAN : DetectFires(success))
    /\ WF_vars(AnalyzeFires)
    /\ WF_vars(DialogAnswered)

Spec == Init /\ [][Next]_vars /\ Fairness

-----------------------------------------------------------------------------
(* Properties.                                                             *)

(* The window never leaves its first two states: no handler ever requests  *)
(* FILESYSTEM_DETECTION, and every transition that is requested - the one  *)
(* of a finished detection, to ERROR, to RECOVERY - is refused from them.  *)
Confined == state \in {"SOURCE_SELECTION", "STORAGE_PARTITION_INSPECTION"}

(* The page on show is the one of the state, although handlers and timers  *)
(* set the two at different places.                                        *)
PageFitsState == view = 0 <=> state = "SOURCE_SELECTION"

(* No order of clicks, refreshes and late timers brings the window to the  *)
(* inspection of partitions without a selected device.                     *)
InspectionHasSource == state # "SOURCE_SELECTION" => selectedDevice # NoDevice

InFlight ==
    \/ timers["detect"] + timers["analyze"] > 0
    \/ \E i \in DOMAIN dialogs : dialogs[i] \in {"report", "analyze", "recovery"}

(* An operation that has a timer or a dialog of its own gives the flag     *)
(* back once timers fire and dialogs are answered, however they nest.      *)
OperationEnds == (running /\ InFlight) ~> ~running

(* "Please wait for the current operation to complete before starting a    *)
(* new one" (MainWindow.cpp, the warning of a refused operation): the      *)
(* operation that raised the flag completes.                               *)
EveryOperationCompletes == running ~> ~running

OverlapCount ==
    timers["detect"] + timers["analyze"]
      + Len(SelectSeq(dialogs, LAMBDA k : k \in {"report", "analyze", "recovery"}))

(* "prevent multiple long-running operations (like recovery) from          *)
(* overlapping" (MainWindow.cpp, the comment on isOperationRunning_).      *)
NoOverlap == OverlapCount <= 1

=============================================================================
