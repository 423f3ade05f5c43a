--------------------------- MODULE ImuSetupWizard ---------------------------
(***************************************************************************)
(* src/examples/imu_setup.py: the same workflow as a program with prompts. *)
(* Every step reads the IMU anew before it asks, and a write or a read     *)
(* that raises, or Ctrl-C, ends the program.                               *)
(***************************************************************************)
EXTENDS ImuSetupGui

others == <<gui, opened, restore, search, hasty>>

WizardAt(step) == program = "wizard" /\ page = step

(* main: connect, read the configuration; --wait-ack as in the window.     *)
StartWizard ==
  /\ waits' \in BOOLEAN
  /\ program = "none"
  /\ program' = "wizard"
  /\ page' = "basic"
  /\ config' = ram.appconf
  /\ UNCHANGED <<ram, stored, fails, lost, late, others>>

Ends == program' = "over" /\ page' = "none"

Continue(step) ==
  IF step = "over" THEN Ends ELSE page' = step /\ UNCHANGED program

(* write_appconf, and on to the next step.                                 *)
WriteThen(c, store, step) ==
  /\ config' = c
  /\ \/ Sent("appconf", c, store) /\ Continue(step)
     \/ WriteRaises("appconf", c, store) /\ Ends

(* The steps can be left out by flags; the orientation step by its own.    *)
LeaveOut ==
  /\ program = "wizard"
  /\ page \in {"basic", "gyro", "x"}
  /\ Continue(CASE page = "basic" -> "gyro" [] page = "gyro" -> "x" [] OTHER -> "ready")
  /\ UNCHANGED <<device, config, others>>

(* run_basic_step begins: original is kept, and a search may be asked for. *)
BeginBasic(doSearch) ==
  /\ WizardAt("basic")
  /\ opened' = config
  /\ IF doSearch
     THEN /\ page' = "try"
          /\ search' = [active |-> TRUE, candidate |-> 1, app |-> config.app]
          /\ config' = [config EXCEPT !.app = "off"]
     ELSE page' = "profile" /\ UNCHANGED <<search, config>>
  /\ UNCHANGED <<device, program, restore, hasty, gui>>

TryType ==
  /\ WizardAt("try")
  /\ WriteThen([config EXCEPT !.type = search.candidate], FALSE, "sample")
  /\ UNCHANGED others

(* search_imu_type samples a candidate; it ends at the first that works.   *)
SampleType ==
  /\ WizardAt("sample")
  /\ LET n == search.candidate IN
     IF ~Working /\ n + 1 \in Types
     THEN /\ search' = [search EXCEPT !.candidate = n + 1]
          /\ page' = "try"
          /\ UNCHANGED <<device, program, config>>
     ELSE /\ search' = NoSearch
          /\ WriteThen([config EXCEPT !.type = IF Working THEN n ELSE 0, !.app = search.app],
                       FALSE, "profile")
  /\ UNCHANGED <<opened, restore, hasty, gui>>

StoreBasic ==
  /\ WizardAt("profile")
  /\ \E c \in {config} \cup {Profiled(config, p) : p \in Profiles} : WriteThen(c, TRUE, "gyro")
  /\ UNCHANGED others

DiscardBasic ==
  /\ WizardAt("profile")
  /\ WriteThen(opened, FALSE, "gyro")
  /\ UNCHANGED others

(* What the prompt of a calibration step takes; a retry samples again.     *)
StepChoice == {"save", "retry", "skip", "cancel"}

(* sample_filtered_imu begins with a new filter, so what it returns has    *)
(* been measured since the prompt.                                         *)
Sampled(s) == Reading(s)

Stay == page' = page /\ UNCHANGED program

Choose(choice, next) ==
  /\ choice # "save"
  /\ IF choice = "retry" THEN Stay ELSE Continue(next)
  /\ UNCHANGED <<device, config, hasty>>

WizardGyro ==
  /\ WizardAt("gyro")
  /\ \E choice \in StepChoice :
       \/ Choose(choice, "x")
       \/ /\ choice = "save"
          /\ WriteThen(Calibrated(config, "gyro", Sampled("gyro")), TRUE, "x")
          /\ UNCHANGED hasty
  /\ UNCHANGED <<gui, opened, restore, search>>

(* Skip goes to the next axis, cancel leaves the step.                     *)
WizardAccel ==
  /\ program = "wizard" /\ page \in Accel
  /\ LET next == IF page = "z" THEN "ready" ELSE NextPage[page] IN
     \E choice \in StepChoice :
       \/ Choose(choice, IF choice = "cancel" THEN "ready" ELSE next)
       \/ /\ choice = "save"
          /\ WriteThen(Calibrated(config, page, Sampled(page)), TRUE, next)
          /\ SaveMeasured(Working)
  /\ UNCHANGED <<gui, opened, restore, search>>

(* run_orientation_step prepares outside its try statement.                *)
BeginOrientation ==
  /\ WizardAt("ready")
  /\ restore' = RestoreOf(config)
  /\ opened' = config
  /\ \/ WriteThen(Prepared(config), FALSE, "roll")
     \/ Ends /\ UNCHANGED <<device, config>>               \* --skip-orientation
  /\ UNCHANGED <<search, hasty, gui>>

(* A sub-step writes the measured angle, or the one of before.             *)
Orient(axis, store, next) ==
  /\ WizardAt(axis)
  /\ \/ WriteThen(Turned(config, axis, Angle(axis)), store, next) /\ hasty' = (hasty \/ ~Working)
     \/ WriteThen(Turned(config, axis, restore.rot[axis]), store, next) /\ UNCHANGED hasty
  /\ UNCHANGED <<gui, opened, restore, search>>

RollOrientation  == Orient("roll", FALSE, "pitch")
PitchOrientation == Orient("pitch", FALSE, "yaw")
YawOrientation   == Orient("yaw", TRUE, "over")

(* Cancel, or Ctrl-C, puts the previous values back for the time being.    *)
LeaveOrientation ==
  /\ program = "wizard" /\ page \in Axes
  /\ WriteThen(Restored(config, restore), FALSE, "over")
  /\ UNCHANGED others

(* So does a Ctrl-C that strikes after the last write went out, which      *)
(* stored.  Its own write may be lost, or raise, as well.                  *)
InterruptedStore ==
  /\ WizardAt("yaw")
  /\ config' = Restored(config, restore)
  /\ \E angle \in {Angle("yaw"), restore.rot.yaw} :
       LET c == Turned(config, "yaw", angle) IN
       /\ stored' = [stored EXCEPT !.appconf = c]
       /\ \/ ram' = [ram EXCEPT !.appconf = config'] /\ lost' = Mended /\ UNCHANGED fails
          \/ /\ ram' = [ram EXCEPT !.appconf = c]
             /\ \/ MayBeLost("appconf", FALSE) /\ lost' = "open" /\ UNCHANGED fails
                \/ fails < MaxFails /\ fails' = fails + 1 /\ lost' = Mended
  /\ hasty' = (hasty \/ ~Working)
  /\ Ends
  /\ UNCHANGED <<late, waits, gui, opened, restore, search>>

(* Ctrl-C outside the orientation step, or a read that raises in any.      *)
Interrupted ==
  /\ program = "wizard"
  /\ \/ page \notin Axes /\ UNCHANGED fails
     \/ page \in Axes /\ fails < MaxFails /\ fails' = fails + 1
  /\ Ends
  /\ UNCHANGED <<ram, stored, lost, late, waits, config, others>>

NextWizard ==
  \/ LeaveOut \/ TryType \/ SampleType \/ StoreBasic \/ DiscardBasic
  \/ \E s \in BOOLEAN : BeginBasic(s)
  \/ WizardGyro \/ WizardAccel
  \/ BeginOrientation \/ RollOrientation \/ PitchOrientation \/ YawOrientation \/ LeaveOrientation
  \/ InterruptedStore \/ Interrupted
=============================================================================
