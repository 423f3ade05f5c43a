------------------------------ MODULE ImuSetup ------------------------------
(***************************************************************************)
(* The helpers of vesc_py/imu_setup.py, and the controller they configure  *)
(* as the programs that use them see it: a configuration in its memory     *)
(* (what it works with, and what a read returns) and one in its flash.     *)
(*                                                                         *)
(* Rotations by matrices do not commute, and the helpers undo them in      *)
(* reverse order.  The frame the calibration offsets are in is therefore   *)
(* the sequence of rotations applied to them, in which a rotation meets    *)
(* its inverse only when it is the last one.                               *)
(***************************************************************************)
EXTENDS Integers, SequencesExt

CONSTANTS NTypes,     \* the IMU types a search tries, 1 .. NTypes (5 in the code)
          Fitted,     \* the type of the IMU in the controller
          MaxFails,   \* bound on writes and polls that fail
          MaxTimers,  \* bound on timers of cancelled searches
          MaxOpens    \* bound on steps opened in the window

Types == 1..NTypes

ASSUME TypesAssumption == /\ NTypes \in Nat
                          /\ Fitted \in Types
                          /\ MaxFails \in Nat /\ MaxTimers \in Nat /\ MaxOpens \in Nat

VARIABLES ram,        \* the configuration the controller works with, per kind
          stored,     \* the configuration in its flash, per kind
          fails,      \* writes and polls so far that raised
          lost,       \* writes lost without an error: "none", "open", or "mended"
          late,       \* the commands of which an acknowledgement may still come
          waits,      \* the program waits for acknowledgements
          program,    \* the program that is running
          page,       \* the page, or the step, it is at
          config,     \* its copy of APPCONF
          opened,     \* that copy when the current step was opened
          restore,    \* save_orientation_restore's record
          search,     \* the search for an IMU type
          hasty       \* something was saved that nothing had measured

device  == <<ram, stored, fails, lost, late, waits>>
session == <<program, page, opened, restore, hasty>>

Axes    == {"roll", "pitch", "yaw"}
Sensors == {"gyro", "x", "y", "z"}
Level   == 2          \* the angle that levels the IMU, per axis
Bias    == 1          \* what the sensors are off by
Unset   == -11        \* the peak acceleration before the first sample, less 1 g

(* rotate_euler_angles and apply_rotation_to_calibration_config            *)
Rotated(frame, axis, angle) ==
  LET last == IF frame # <<>> /\ Last(frame).axis = axis THEN Last(frame).angle ELSE 0
      rest == IF last # 0 THEN Front(frame) ELSE frame
  IN  IF last + angle = 0 THEN rest ELSE Append(rest, [axis |-> axis, angle |-> last + angle])

(* The frame of offsets that belong to the rotation rot.                   *)
FrameOf(rot) ==
  Rotated(Rotated(Rotated(<<>>, "roll", rot.roll), "pitch", rot.pitch), "yaw", rot.yaw)

NoRotation == [a \in Axes |-> 0]

(* apply_roll_offset, apply_pitch_offset, apply_yaw_offset                 *)
Turned(c, axis, angle) ==
  [c EXCEPT !.rot[axis] = angle, !.frame = Rotated(@, axis, angle)]

(* A mutant: the rotations are undone in the order they were applied.      *)
PreparedMutant(c) ==
  [c EXCEPT !.rot = NoRotation,
            !.frame = Rotated(Rotated(Rotated(@, "roll", -c.rot.roll),
                                      "pitch", -c.rot.pitch), "yaw", -c.rot.yaw)]

(* prepare_orientation_calibration *)
Prepared(c) ==
  [c EXCEPT !.rot = NoRotation,
            !.frame = Rotated(Rotated(Rotated(@, "yaw", -c.rot.yaw),
                                      "pitch", -c.rot.pitch), "roll", -c.rot.roll)]

(* A mutant: the offsets stay in the prepared frame.                       *)
RestoredMutant(c, r) == [c EXCEPT !.rot = r.rot]

RestoreOf(c)   == [rot |-> c.rot, frame |-> c.frame, off |-> c.off]
Restored(c, r) == [c EXCEPT !.rot = r.rot, !.frame = r.frame, !.off = r.off]

(* apply_basic_profile: the sample rate depends on the type it finds.      *)
Profiled(c, p) == [c EXCEPT !.profile = p, !.rateOf = c.type]

(* save_gyro_offsets and save_accel_offset add what was measured.          *)
Calibrated(c, s, measured) == [c EXCEPT !.off[s] = @ + measured]

Working == ram.appconf.type = Fitted

(* A filtered reading of the sensor s, as long as the filters need to      *)
(* settle after the last write; an acceleration is less 1 g.               *)
Reading(s) == IF Working THEN Bias - ram.appconf.off[s] ELSE IF s = "gyro" THEN 0 ELSE -1

Angle(axis) == IF Working THEN Level - ram.appconf.rot[axis] ELSE 0

(* Saving what is not measured: a peak is still the one it was reset to,   *)
(* or no IMU works.  Bounded to once for offsets, which such saves add up. *)
SaveMeasured(real) == IF real THEN UNCHANGED hasty ELSE ~hasty /\ hasty' = TRUE

(* What a store that takes effect makes of writes lost before it.          *)
Mended == IF lost = "open" THEN "mended" ELSE lost

(* What an acknowledgement is known by (set_appconf, set_mcconf): the      *)
(* express has an APPCONF as well.                                         *)
SetCommands == {"set_mcconf", "set_appconf", "set_appconf_no_store"}

Command(kind, store) ==
  IF kind = "mcconf" THEN "set_mcconf"
  ELSE IF store THEN "set_appconf" ELSE "set_appconf_no_store"

(* A write that takes effect.  An acknowledgement that came late may be    *)
(* read before its own, which is the late one then.                        *)
Written(kind, c, store) ==
  /\ ram' = [ram EXCEPT ![kind] = c]
  /\ stored' = IF store THEN [stored EXCEPT ![kind] = c] ELSE stored
  /\ lost' = IF store THEN Mended ELSE lost
  /\ late' \in {late, late \ {Command(kind, store)}}
  /\ UNCHANGED <<fails, waits>>

(* A write that is lost and raises nothing: the program does not wait, or  *)
(* takes a late acknowledgement of an earlier write for this one's.  The    *)
(* bound on failures bounds those that come after them, too.               *)
MayBeLost(kind, store) == ~waits \/ Command(kind, store) \in late

WriteLost(kind, store) ==
  /\ fails < MaxFails
  /\ MayBeLost(kind, store)
  /\ lost' = "open"
  /\ late' \in {late, late \ {Command(kind, store)}}
  /\ UNCHANGED <<ram, stored, fails, waits>>

(* A write after which the handler goes on.                                *)
Sent(kind, c, store) == Written(kind, c, store) \/ WriteLost(kind, store)

(* The acknowledgement of a write that raised, if it took effect, may come.*)
MayComeLate(kind, store) ==
  late' \in {late, IF waits THEN late \cup {Command(kind, store)} ELSE late}

(* A write that raises: the request was lost, or only its acknowledgement. *)
WriteRaises(kind, c, store) ==
  /\ fails < MaxFails
  /\ fails' = fails + 1
  /\ \/ UNCHANGED <<ram, stored, late>>
     \/ /\ ram' = [ram EXCEPT ![kind] = c]
        /\ stored' = IF store THEN [stored EXCEPT ![kind] = c] ELSE stored
        /\ MayComeLate(kind, store)
  /\ UNCHANGED <<lost, waits>>

(* Two writes of one handler that store nothing, the second because the    *)
(* first one raised: it takes effect, or is lost without an error (for the *)
(* late acknowledgement of the first, perhaps), or raises, too.            *)
WriteRaisesThen(kind, first, second) ==
  \E c \in {ram[kind], first} :
    /\ \/ /\ fails + 1 <= MaxFails /\ fails' = fails + 1
          /\ \/ ram' = [ram EXCEPT ![kind] = second] /\ UNCHANGED lost
             \/ /\ MayBeLost(kind, FALSE) \/ c = first
                /\ ram' = [ram EXCEPT ![kind] = c] /\ lost' = "open"
       \/ /\ fails + 2 <= MaxFails /\ fails' = fails + 2
          /\ \E d \in {c, second} : ram' = [ram EXCEPT ![kind] = d]
          /\ UNCHANGED lost
    /\ MayComeLate(kind, FALSE)
    /\ UNCHANGED <<stored, waits>>

(* What a controller that was set up before may hold; its type may be a    *)
(* wrong one.                                                              *)
UserConfig ==
  LET rot == [roll |-> 1, pitch |-> 0, yaw |-> 1]
  IN  [app |-> "user", type |-> 1, profile |-> "own", rateOf |-> 1,
       rot |-> rot, frame |-> FrameOf(rot), off |-> [s \in Sensors |-> 0]]

UserConfigs == {[UserConfig EXCEPT !.type = t, !.rateOf = t] : t \in Types}

NoSearch == [active |-> FALSE, candidate |-> 0, app |-> "none"]

InitDevice ==
  /\ ram \in [appconf : UserConfigs, mcconf : {0}, express : {129}]
  /\ stored = ram
  /\ fails = 0
  /\ lost = "none" /\ late = {} /\ waits = FALSE
  /\ program = "none"
  /\ page = "none"
  /\ config = UserConfig
  /\ opened = UserConfig
  /\ restore = RestoreOf(UserConfig)
  /\ search = NoSearch
  /\ hasty = FALSE
=============================================================================
