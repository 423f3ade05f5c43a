--------------------------- MODULE ConfigPrograms ---------------------------
(***************************************************************************)
(* The programs that change a controller's configuration, one of them on   *)
(* one controller: the window, the wizard or the editor.                   *)
(***************************************************************************)
EXTENDS ImuSetupWizard, ConfigTui

vars == <<device, session, config, search, gui, tui>>

(* The controller works with its stored configuration when the program is  *)
(* started.                                                                *)
Init == InitDevice /\ InitGui /\ InitTui

Next ==
  \/ (StartGui \/ NextGui \/ StartWizard \/ NextWizard) /\ UNCHANGED tui
  \/ NextTui /\ UNCHANGED gui

Spec == Init /\ [][Next]_vars

-----------------------------------------------------------------------------
Config == [app : {"user", "off"}, type : Types \cup {0}, profile : {"own"} \cup Profiles,
           rateOf : Types \cup {0}, rot : [Axes -> Int],
           frame : Seq([axis : Axes, angle : Int]), off : [Sensors -> Int]]

(* Every variable has its type; the search's memory is that of a search.   *)
TypeOK ==
  /\ \A c \in {ram.appconf, stored.appconf, config, opened} : c \in Config
  /\ fails \in 0..MaxFails
  /\ lost \in {"none", "open", "mended"} /\ waits \in BOOLEAN
  /\ late \subseteq SetCommands /\ (late # {} => fails > 0)
  /\ program \in {"none", "gui", "wizard", "tui", "over"}
  /\ search.active => search.candidate \in Types /\ search.app # "none"
  /\ timers.young + timers.due <= MaxTimers + 1
  /\ "mcconf" \in entries => {current.mcconf, original.mcconf} \subseteq InRange
  /\ "express" \in entries => {current.express, original.express} \subseteq BitFields

(* What flash holds is a calibration of one piece, whichever writes were   *)
(* lost without an error, as any may be when acknowledgements are not      *)
(* waited for: its offsets are in the frame of its rotation, and it is not *)
(* the one of a search.  If none was lost, each offset was measured once,  *)
(* and it is not the prepared one of an orientation step.  The exceptions: *)
(* a write that raised, which the next Save makes once more, and what was  *)
(* saved without being measured.                                           *)
CalibrationSound ==
  LET c == stored.appconf IN
  fails = 0 =>
    /\ c.frame = FrameOf(c.rot)
    /\ c.app = "user"
    /\ ~hasty /\ lost = "none" => /\ \A s \in Sensors : c.off[s] \in 0..Bias
                                  /\ c.rot # NoRotation

(* Temporary settings last as long as their step: between the steps, and   *)
(* in those that need none, the controller works with what it has stored,  *)
(* from the next store on also when a write was lost without an error.     *)
Resting == {"menu", "basic", "gyro", "x", "y", "z", "ready", "editor"}

RestingIsStored ==
  fails = 0 /\ lost # "open" /\ page \in Resting /\ program # "over" => ram = stored

(* Whatever failed in a step: Cancel puts the program's configuration back *)
(* as it was when the step was opened, and the controller's with it, unless*)
(* its own write raises or is lost without an error.  In the mode with     *)
(* acknowledgements the latter takes one that comes late, of another write *)
(* that stores nothing.                                                    *)
CancelUndoes ==
  [][ /\ program = "gui" /\ page \in Axes \cup {"configurator"} /\ page' = "menu"
      /\ Cancel /\ ~openFailed
      => /\ config' = opened
         /\ fails' = fails /\ (lost' # "open" \/ ~MayBeLost("appconf", FALSE))
              => ram'.appconf = opened ]_vars

(* A search that ends by looking at samples has the type of the IMU, if    *)
(* all polls and writes went through and no timer of a cancelled search    *)
(* was left; the rest of the configuration is the user's again, whatever   *)
(* failed or was lost.                                                     *)
SearchFindsFitted ==
  [][ search.active /\ ~search'.active /\ page' \in {"configurator", "profile"}
      => /\ config'.app = search.app
         /\ fails' = 0 /\ lost # "open" /\ timers.young + timers.due < 2
              => config'.type = Fitted ]_vars

(* What the editor shows and the controller does not have is marked as     *)
(* unsaved, also after a write of several configurations failed halfway;   *)
(* a number counts as what it is rounded to on the wire.  Only a revert    *)
(* can take the mark away, to values that are gone, or an Apply that takes *)
(* the late acknowledgement of a write that raised for that of another.    *)
Unmarked ==
  {k \in entries : Serialized(k, current[k]) # ram[k] /\ current[k] = original[k]}

OnlyRevertHides ==
  [][ program = "tui" /\ program' = "tui" /\ Unmarked = {} /\ Unmarked' # {}
      => fails > 0 /\ (RevertSelected \/ RevertAll \/ (late # {} /\ Apply)) ]_vars
=============================================================================
