------------------------- MODULE MainWindowRequests -------------------------
(***************************************************************************)
(* The main window with a history variable: the device that the window     *)
(* names in its status bar when a detection is requested.  The detection   *)
(* itself runs from a timer, which reads selectedDevice_ when it fires,    *)
(* while selections may still be on their way by timers of their own.      *)
(*                                                                         *)
(* A selection takes 500 ms and a detection 100 ms, so that a selection    *)
(* made after the request arrives after the detection: only those that     *)
(* were pending by then may come first, and "before" counts them.          *)
(***************************************************************************)
EXTENDS MainWindow

VARIABLE announced   \* the pending detections, oldest first

AnnouncedInit == Init /\ announced = <<>>

(* "Detecting filesystem on ...", and the timer is started.                *)
Announce ==
    /\ HandleDetectFilesystem
    /\ selectedDevice # NoDevice
    /\ announced' = Append(announced, [device |-> selectedDevice, before |-> timers["select"]])

(* Timers of one length fire in the order in which they were started.      *)
DetectAnnounced ==
    /\ \E success \in BOOLEAN : DetectFires(success)
    /\ announced' = Tail(announced)

SelectAnnounced ==
    /\ \A i \in DOMAIN announced : announced[i].before > 0
    /\ SelectFires
    /\ announced' = [i \in DOMAIN announced |-> [announced[i] EXCEPT !.before = @ - 1]]

OtherStep ==
    /\ Next
    /\ timers'["detect"] = timers["detect"]
    /\ timers'["select"] >= timers["select"]
    /\ UNCHANGED announced

AnnouncedNext == Announce \/ DetectAnnounced \/ SelectAnnounced \/ OtherStep

AnnouncedSpec == AnnouncedInit /\ [][AnnouncedNext]_<<vars, announced>>

(* "Detecting filesystem on %1..." (MainWindow.cpp, the status of a        *)
(* requested detection): the device that is then analyzed is the one the   *)
(* message names.                                                          *)
AnnouncedIsDetected ==
    [][Len(announced') < Len(announced) => selectedDevice = announced[1].device]_announced

=============================================================================
