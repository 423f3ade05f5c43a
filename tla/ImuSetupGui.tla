---------------------------- MODULE ImuSetupGui -----------------------------
(***************************************************************************)
(* src/examples/imu_setup_gui.py: the controller of the window, whose      *)
(* handlers run one after another on the Qt thread, and the poller, a      *)
(* thread that reads the IMU.  A handler that shows an error dialog is one *)
(* step with it.                                                           *)
(***************************************************************************)
EXTENDS ImuSetup

VARIABLES profile,    \* _profile_choice
          timers,     \* single-shot timers of the search: young, and due
          noise,      \* the poller's working_imu
          peak,       \* the poller's peak acceleration per axis
          opens,      \* steps opened so far
          openFailed  \* the write that opens the orientation step has raised

gui == <<profile, timers, noise, peak, opens, openFailed>>

Profiles == {"default", "logs"}
Accel    == {"x", "y", "z"}
NoPeak   == [s \in Accel |-> Unset]

NextPage == [x |-> "y", y |-> "z", z |-> "menu", roll |-> "pitch", pitch |-> "yaw", yaw |-> "menu"]

(* main and run_gui: read the configuration, start poller and window.  An  *)
(* acknowledgement is waited for when --wait-ack is given.                 *)
StartGui ==
  /\ waits' \in BOOLEAN
  /\ program = "none"
  /\ program' = "gui"
  /\ page' = "menu"
  /\ config' = ram.appconf
  /\ noise' = Working
  /\ UNCHANGED <<ram, stored, fails, lost, late>>
  /\ UNCHANGED <<opened, restore, hasty, search, profile, timers, peak, opens, openFailed>>

(* A stretch of polls that succeed, after which each timer is due.  The    *)
(* peaks matter on their pages only, where they begin with a reset.        *)
Poll ==
  /\ noise' = Working
  /\ peak' = IF page \in Accel
             THEN [s \in Accel |-> IF Reading(s) > peak[s] THEN Reading(s) ELSE peak[s]]
             ELSE peak
  /\ timers' = [young |-> 0, due |-> timers.young + timers.due]
  /\ UNCHANGED <<device, session, config, search, profile, opens, openFailed>>

(* A stretch in which every poll raises: nothing changes but last_error.   *)
PollFails ==
  /\ timers.young > 0
  /\ fails < MaxFails
  /\ fails' = fails + 1
  /\ timers' = [young |-> 0, due |-> timers.young + timers.due]
  /\ UNCHANGED <<ram, stored, lost, late, waits>>
  /\ UNCHANGED <<session, config, search, profile, noise, peak, opens, openFailed>>

OpenConfigurator ==
  /\ page' = "configurator"
  /\ opened' = config
  /\ profile' = "default"
  /\ config' = Profiled(config, "default")
  /\ UNCHANGED <<device, program, restore, hasty, search, timers, noise, peak, openFailed>>

OpenGyro ==
  /\ page' = "gyro"
  /\ opened' = config
  /\ UNCHANGED <<device, program, config, restore, hasty, search, profile, timers, noise, peak, openFailed>>

OpenAccel ==
  /\ page' = "x"
  /\ opened' = config
  /\ peak' = NoPeak
  /\ UNCHANGED <<device, program, config, restore, hasty, search, profile, timers, noise, openFailed>>

(* The configuration is prepared before the write that may raise.          *)
OpenOrientation ==
  /\ restore' = RestoreOf(config)
  /\ config' = Prepared(config)
  /\ opened' = config
  /\ \/ Sent("appconf", config', FALSE) /\ page' = "roll" /\ UNCHANGED openFailed
     \/ WriteRaises("appconf", config', FALSE) /\ openFailed' = TRUE /\ UNCHANGED page
  /\ UNCHANGED <<program, hasty, search, profile, timers, noise, peak>>

(* _build_menu_page: the buttons and their callbacks.                      *)
MenuPage ==
  /\ page = "menu"
  /\ opens < MaxOpens
  /\ opens' = opens + 1
  /\ OpenConfigurator \/ OpenGyro \/ OpenAccel \/ OpenOrientation

ChooseProfile(p) ==
  /\ profile' = p
  /\ config' = Profiled(config, p)
  /\ UNCHANGED <<device, session, search, timers, noise, peak, opens, openFailed>>

(* A mutant: the application of before the search is not put back.         *)
SearchedMutant(c, found, app) == Profiled([c EXCEPT !.type = found], profile)

Searched(c, found, app) == Profiled([c EXCEPT !.type = found, !.app = app], profile)

(* _finish_imu_search *)
FinishSearch(c, found, app, due) ==
  /\ config' = Searched(c, found, app)
  /\ Sent("appconf", config', FALSE) \/ WriteRaises("appconf", config', FALSE)
  /\ search' = NoSearch
  /\ timers' = [timers EXCEPT !.due = due]

(* _try_search_candidate: past the last type the search ends with Off, and *)
(* a write that raises ends it with the candidate.                         *)
TryCandidate(c, n, app, due) ==
  LET tried == [c EXCEPT !.type = n]
  IN  \/ n \notin Types /\ FinishSearch(c, 0, app, due)
      \/ /\ n \in Types
         /\ config' = tried
         /\ Sent("appconf", tried, FALSE)
         /\ search' = [active |-> TRUE, candidate |-> n, app |-> app]
         /\ timers' = [young |-> timers.young + 1, due |-> due]
      \/ /\ n \in Types
         /\ config' = Searched(c, n, app)
         /\ WriteRaisesThen("appconf", tried, config')
         /\ search' = NoSearch
         /\ timers' = [timers EXCEPT !.due = due]

StartSearch ==
  /\ ~search.active
  /\ timers.young + timers.due < MaxTimers
  /\ TryCandidate([config EXCEPT !.app = "off"], 1, config.app, timers.due)
  /\ UNCHANGED <<session, profile, noise, peak, opens, openFailed>>

(* _check_search_candidate: the timer of a search that is over, or was     *)
(* cancelled, finds no search, or another one.                             *)
CheckCandidate ==
  /\ timers.due > 0
  /\ \/ /\ ~search.active
        /\ timers' = [timers EXCEPT !.due = @ - 1]
        /\ UNCHANGED <<device, config, search>>
     \/ /\ search.active /\ noise
        /\ FinishSearch(config, search.candidate, search.app, timers.due - 1)
     \/ /\ search.active /\ ~noise
        /\ TryCandidate(config, search.candidate + 1, search.app, timers.due - 1)
  /\ UNCHANGED <<session, profile, noise, peak, opens, openFailed>>

(* _set_page: what the configurator, orientation and acceleration pages    *)
(* remember is set anew when they are opened, and forgotten here at the    *)
(* menu.                                                                   *)
SetPage(next) ==
  /\ page' = next
  /\ IF next = "menu"
     THEN /\ opened' = UserConfig /\ restore' = RestoreOf(UserConfig)
          /\ profile' = "default" /\ peak' = NoPeak
     ELSE UNCHANGED <<opened, restore, profile, peak>>

(* The handlers of Save and Skip: change the configuration, write it, and  *)
(* go on; a write that raises leaves page and configuration as they are.   *)
Commit(c, store, next) ==
  /\ config' = c
  /\ \/ Sent("appconf", c, store) /\ SetPage(next)
     \/ WriteRaises("appconf", c, store) /\ SetPage(page)
  /\ UNCHANGED <<program, search, timers, noise, opens, openFailed>>

(* The Save button is disabled during a search.                            *)
SaveConfigurator ==
  /\ ~search.active
  /\ Commit(config, TRUE, "menu")
  /\ UNCHANGED hasty

ConfiguratorPage ==
  /\ page = "configurator"
  /\ \/ StartSearch
     \/ \E p \in Profiles : ChooseProfile(p)
     \/ SaveConfigurator

SaveGyro ==
  /\ page = "gyro"
  /\ Commit(Calibrated(config, "gyro", Reading("gyro")), TRUE, "menu")
  /\ UNCHANGED hasty

SaveAccel ==
  /\ Commit(Calibrated(config, page, peak[page]), TRUE, NextPage[page])
  /\ SaveMeasured(peak[page] # Unset /\ Working)

SkipAccel ==
  /\ SetPage(NextPage[page])
  /\ UNCHANGED <<device, program, config, hasty, search, timers, noise, opens, openFailed>>

ClearMax ==
  /\ peak' = NoPeak
  /\ UNCHANGED <<device, session, config, search, profile, timers, noise, opens, openFailed>>

AccelPage == page \in Accel /\ (SaveAccel \/ SkipAccel \/ ClearMax)

(* Roll and pitch are written for the time being, yaw stores all three.    *)
SaveOrientation ==
  /\ Commit(Turned(config, page, Angle(page)), page = "yaw", NextPage[page])
  /\ hasty' = (hasty \/ ~Working)

SkipOrientation ==
  /\ Commit(Turned(config, page, restore.rot[page]), page = "yaw", NextPage[page])
  /\ UNCHANGED hasty

OrientationPage == page \in Axes /\ (SaveOrientation \/ SkipOrientation)

(* A mutant: what a cancelled step wrote stays in the controller.          *)
CancelMutant ==
  /\ page # "menu"
  /\ SetPage("menu")
  /\ config' = IF page \in Axes THEN Restored(config, restore) ELSE config
  /\ search' = IF page = "configurator" THEN NoSearch ELSE search
  /\ UNCHANGED <<device, program, hasty, timers, noise, opens, openFailed>>

(* _cancel_or_close: a write that raises is shown, and the menu comes back *)
(* all the same.  The timer of a search goes on.                           *)
Cancel ==
  /\ page # "menu"
  /\ SetPage("menu")
  /\ config' = CASE page = "configurator" -> opened
                 [] page \in Axes -> Restored(config, restore)
                 [] OTHER -> config
  /\ search' = IF page = "configurator" THEN NoSearch ELSE search
  /\ IF page \in Axes \cup {"configurator"}
     THEN Sent("appconf", config', FALSE) \/ WriteRaises("appconf", config', FALSE)
     ELSE UNCHANGED device
  /\ UNCHANGED <<program, hasty, timers, noise, opens, openFailed>>

(* The window may be closed on any page; the finally clauses of run_gui    *)
(* and main stop the timers and the poller and close the connection.       *)
CloseWindow ==
  /\ program' = "over"
  /\ SetPage("menu")
  /\ search' = NoSearch
  /\ timers' = [young |-> 0, due |-> 0]
  /\ UNCHANGED <<device, config, hasty, noise, opens, openFailed>>

NextGui ==
  /\ program = "gui"
  /\ \/ Poll \/ PollFails \/ CheckCandidate
     \/ MenuPage \/ ConfiguratorPage \/ SaveGyro \/ AccelPage \/ OrientationPage
     \/ Cancel \/ CloseWindow

InitGui ==
  /\ profile = "default"
  /\ timers = [young |-> 0, due |-> 0]
  /\ noise = FALSE
  /\ peak = NoPeak
  /\ opens = 0
  /\ openFailed = FALSE
=============================================================================
