-------------------------- MODULE ConfigPrograms_proofs --------------------------
(***************************************************************************)
(* What the setup programs and the editor leave in a controller, for any   *)
(* number of types of IMU, of failures, of timers and of steps opened.     *)
(***************************************************************************)
EXTENDS ConfigPrograms, SequenceTheorems, TLAPS

-----------------------------------------------------------------------------
(* Rotations of the calibration offsets.                                   *)

Turn == [axis : Axes, angle : Int]

\* The rotation made last, if any, is about one of these axes.
EndsIn(frame, axes) == frame = <<>> \/ Last(frame).axis \in axes

\* A frame that is rotated is a frame.
LEMMA RotatedTypes ==
  ASSUME NEW f \in Seq(Turn), NEW a \in Axes, NEW x \in Int
  PROVE  Rotated(f, a, x) \in Seq(Turn)
<1> DEFINE last == IF f # <<>> /\ Last(f).axis = a THEN Last(f).angle ELSE 0
           rest == IF last # 0 THEN Front(f) ELSE f
<1>1. last \in Int
  <2>1. CASE f # <<>> /\ Last(f).axis = a
    <3>1. Len(f) \in 1..Len(f)
      BY <2>1, EmptySeq
    <3>2. Last(f) \in Turn
      BY <3>1, ElementOfSeq DEF Last
    <3>3. QED
      BY <2>1, <3>2 DEF Turn
  <2>2. CASE ~(f # <<>> /\ Last(f).axis = a)
    BY <2>2
  <2>3. QED
    BY <2>1, <2>2
<1>2. rest \in Seq(Turn)
  <2>1. Front(f) \in Seq(Turn)
    <3>1. Len(f) \in Nat /\ \A i \in 1..Len(f) - 1 : f[i] \in Turn
      BY ElementOfSeq, LenProperties
    <3>2. QED
      BY <3>1, SubSeqProperties DEF Front
  <2>2. QED
    BY <2>1
<1>3. Rotated(f, a, x) = IF last + x = 0 THEN rest
                         ELSE Append(rest, [axis |-> a, angle |-> last + x])
  BY DEF Rotated
<1> HIDE DEF last, rest
<1>4. [axis |-> a, angle |-> last + x] \in Turn
  BY <1>1 DEF Turn
<1>5. QED
  BY <1>2, <1>3, <1>4, AppendProperties

\* A rotation about another axis than the last one is added to the frame.
LEMMA RotatedAdds ==
  ASSUME NEW f \in Seq(Turn), NEW a \in Axes, NEW x \in Int, NEW axes, EndsIn(f, axes),
         a \notin axes
  PROVE  /\ Rotated(f, a, x) = IF x = 0 THEN f ELSE Append(f, [axis |-> a, angle |-> x])
         /\ EndsIn(Rotated(f, a, x), axes \union {a})
<1>1. ~(f # <<>> /\ Last(f).axis = a)
  BY DEF EndsIn
<1>2. Rotated(f, a, x) = IF x = 0 THEN f ELSE Append(f, [axis |-> a, angle |-> x])
  BY <1>1 DEF Rotated
<1>3. EndsIn(Rotated(f, a, x), axes \union {a})
  <2>1. CASE x = 0
    BY <1>2, <2>1 DEF EndsIn
  <2>2. CASE x # 0
    <3> DEFINE e == [axis |-> a, angle |-> x]
    <3>1. e \in Turn /\ e.axis = a
      BY DEF Turn
    <3>2. Rotated(f, a, x) = Append(f, e)
      BY <1>2, <2>2
    <3> HIDE DEF e
    <3>3. Last(Append(f, e)) = e
      <4>1. Len(Append(f, e)) = Len(f) + 1 /\ Append(f, e)[Len(f) + 1] = e
        BY <3>1, AppendProperties
      <4>2. QED
        BY <4>1 DEF Last
    <3>4. QED
      BY <3>1, <3>2, <3>3 DEF EndsIn
  <2>3. QED
    BY <2>1, <2>2
<1>4. QED
  BY <1>2, <1>3

\* Such a rotation is undone by its inverse.
LEMMA RotatedUndone ==
  ASSUME NEW f \in Seq(Turn), NEW a \in Axes, NEW x \in Int, NEW y \in Int, NEW axes,
         EndsIn(f, axes), a \notin axes, x + y = 0
  PROVE  Rotated(Rotated(f, a, x), a, y) = f
<1>1. CASE x = 0
  <2>1. y = 0
    BY <1>1
  <2>2. Rotated(f, a, x) = f /\ Rotated(f, a, y) = f
    BY <1>1, <2>1, RotatedAdds
  <2>3. QED
    BY <2>2
<1>2. CASE x # 0
  <2> DEFINE e == [axis |-> a, angle |-> x]
             g == Append(f, e)
  <2>1. e \in Turn /\ e.axis = a /\ e.angle = x
    BY DEF Turn
  <2>2. Rotated(f, a, x) = g
    BY <1>2, RotatedAdds
  <2> HIDE DEF e
  <2>3. g \in Seq(Turn) /\ g # <<>> /\ Last(g) = e /\ Front(g) = f
    <3>1. /\ g \in Seq(Turn) /\ g # <<>> /\ Len(g) = Len(f) + 1 /\ Len(f) \in Nat
          /\ \A i \in 1..Len(f) : g[i] = f[i]
          /\ g[Len(f) + 1] = e
      BY <2>1, AppendProperties
    <3>2. Last(g) = e
      BY <3>1 DEF Last
    <3>3. Front(g) = f
      <4>1. Len(g) - 1 = Len(f) /\ Front(g) = SubSeq(g, 1, Len(f))
        BY <3>1 DEF Front
      <4>2. SubSeq(f, 1, Len(f)) = f
        BY SubSeqFull
      <4>3. SubSeq(g, 1, Len(f)) = f
        <5>1. \A i \in 1..Len(f) : g[i] \in Turn
          BY <3>1, ElementOfSeq
        <5>2. /\ SubSeq(g, 1, Len(f)) \in Seq(Turn)
              /\ Len(SubSeq(g, 1, Len(f))) = IF 1 <= Len(f) THEN Len(f) - 1 + 1 ELSE 0
              /\ \A i \in 1..Len(f) - 1 + 1 : SubSeq(g, 1, Len(f))[i] = g[1 + i - 1]
          BY <3>1, <5>1, SubSeqProperties
        <5>3. /\ Len(SubSeq(g, 1, Len(f))) = Len(f)
              /\ \A i \in 1..Len(f) : SubSeq(g, 1, Len(f))[i] = f[i]
          BY <3>1, <5>2
        <5>4. QED
          BY <5>2, <5>3, SeqEqual
      <4>4. QED
        BY <4>1, <4>3
    <3>4. QED
      BY <3>1, <3>2, <3>3
  <2> HIDE DEF g
  <2>4. Rotated(g, a, y) = Front(g)
    BY <1>2, <2>1, <2>3 DEF Rotated
  <2>5. QED
    BY <2>2, <2>3, <2>4
<1>3. QED
  BY <1>1, <1>2

Rotations == [Axes -> Int]

\* The frame of a rotation, an axis at a time.
FrameOf1(rot) == Rotated(<<>>, "roll", rot.roll)
FrameOf2(rot) == Rotated(FrameOf1(rot), "pitch", rot.pitch)

\* The three stages of FrameOf are sequences of turns, each ending in the axes it has added.
LEMMA Frames ==
  ASSUME NEW rot \in Rotations
  PROVE  /\ rot.roll \in Int /\ rot.pitch \in Int /\ rot.yaw \in Int
         /\ <<>> \in Seq(Turn) /\ EndsIn(<<>>, {})
         /\ FrameOf1(rot) \in Seq(Turn) /\ EndsIn(FrameOf1(rot), {"roll"})
         /\ FrameOf2(rot) \in Seq(Turn) /\ EndsIn(FrameOf2(rot), {"roll", "pitch"})
         /\ FrameOf(rot) \in Seq(Turn) /\ FrameOf(rot) = Rotated(FrameOf2(rot), "yaw", rot.yaw)
<1>1. rot.roll \in Int /\ rot.pitch \in Int /\ rot.yaw \in Int
  BY DEF Rotations, Axes
<1>2. <<>> \in Seq(Turn) /\ EndsIn(<<>>, {})
  BY DEF EndsIn
<1>3. FrameOf1(rot) \in Seq(Turn) /\ EndsIn(FrameOf1(rot), {"roll"})
  <2>1. EndsIn(FrameOf1(rot), {} \union {"roll"})
    BY <1>1, <1>2, RotatedAdds DEF FrameOf1, Axes
  <2>2. {} \union {"roll"} = {"roll"}
    OBVIOUS
  <2>3. QED
    BY <1>1, <1>2, <2>1, <2>2, RotatedTypes DEF FrameOf1, Axes
<1>4. FrameOf2(rot) \in Seq(Turn) /\ EndsIn(FrameOf2(rot), {"roll", "pitch"})
  <2>1. EndsIn(FrameOf2(rot), {"roll"} \union {"pitch"})
    BY <1>1, <1>3, RotatedAdds DEF FrameOf2, Axes
  <2>2. {"roll"} \union {"pitch"} = {"roll", "pitch"}
    OBVIOUS
  <2>3. QED
    BY <1>1, <1>3, <2>1, <2>2, RotatedTypes DEF FrameOf2, Axes
<1>5. FrameOf(rot) = Rotated(FrameOf2(rot), "yaw", rot.yaw)
  BY DEF FrameOf, FrameOf1, FrameOf2
<1>6. FrameOf(rot) \in Seq(Turn)
  BY <1>1, <1>4, <1>5, RotatedTypes DEF Axes
<1>7. QED
  BY <1>1, <1>2, <1>3, <1>4, <1>5, <1>6

\* Undoing the three rotations in reverse order leads back to where they began.
LEMMA FrameUndone ==
  ASSUME NEW rot \in Rotations
  PROVE  Rotated(Rotated(Rotated(FrameOf(rot), "yaw", -rot.yaw), "pitch", -rot.pitch),
                 "roll", -rot.roll) = <<>>
<1>0. \A x \in Int : -x \in Int /\ x + (-x) = 0
  OBVIOUS
<1>1. Rotated(FrameOf(rot), "yaw", -rot.yaw) = FrameOf2(rot)
  BY <1>0, Frames, RotatedUndone DEF Axes
<1>2. Rotated(FrameOf2(rot), "pitch", -rot.pitch) = FrameOf1(rot)
  BY <1>0, Frames, RotatedUndone DEF FrameOf2, Axes
<1>3. Rotated(FrameOf1(rot), "roll", -rot.roll) = <<>>
  BY <1>0, Frames, RotatedUndone DEF FrameOf1, Axes
<1>4. QED
  BY <1>1, <1>2, <1>3

\* Doing them one after the other leads, after each, to the frame of the rotations so far.
LEMMA FrameGrows ==
  ASSUME NEW rot \in Rotations, NEW x \in Int, rot.yaw = 0
  PROVE  /\ rot.pitch = 0 /\ rot.roll = 0 =>
              Rotated(FrameOf(rot), "roll", x) = FrameOf([rot EXCEPT !["roll"] = x])
         /\ rot.pitch = 0 =>
              Rotated(FrameOf(rot), "pitch", x) = FrameOf([rot EXCEPT !["pitch"] = x])
         /\ Rotated(FrameOf(rot), "yaw", x) = FrameOf([rot EXCEPT !["yaw"] = x])
<1> DEFINE with(a) == [rot EXCEPT ![a] = x]
<1>1. /\ with("roll") \in Rotations /\ with("pitch") \in Rotations /\ with("yaw") \in Rotations
      /\ with("roll").roll = x /\ with("roll").pitch = rot.pitch /\ with("roll").yaw = rot.yaw
      /\ with("pitch").roll = rot.roll /\ with("pitch").pitch = x /\ with("pitch").yaw = rot.yaw
      /\ with("yaw").roll = rot.roll /\ with("yaw").pitch = rot.pitch /\ with("yaw").yaw = x
  BY DEF Rotations, Axes
<1> HIDE DEF with
<1>2. \A r \in Rotations : r.yaw = 0 => FrameOf(r) = FrameOf2(r)
  BY Frames, RotatedAdds DEF Axes
<1>3. \A r \in Rotations : r.pitch = 0 => FrameOf2(r) = FrameOf1(r)
  BY Frames, RotatedAdds DEF FrameOf2, Axes
<1>4. \A r \in Rotations : r.roll = 0 => FrameOf1(r) = <<>>
  BY Frames, RotatedAdds DEF FrameOf1, Axes
<1>5. rot.pitch = 0 /\ rot.roll = 0 => Rotated(FrameOf(rot), "roll", x) = FrameOf(with("roll"))
  BY <1>1, <1>2, <1>3, <1>4 DEF FrameOf1
<1>6. rot.pitch = 0 => Rotated(FrameOf(rot), "pitch", x) = FrameOf(with("pitch"))
  <2>1. FrameOf1(with("pitch")) = FrameOf1(rot)
    BY <1>1 DEF FrameOf1
  <2>2. QED
    BY <1>1, <1>2, <1>3, <2>1 DEF FrameOf2
<1>7. Rotated(FrameOf(rot), "yaw", x) = FrameOf(with("yaw"))
  <2>1. FrameOf2(with("yaw")) = FrameOf2(rot)
    BY <1>1 DEF FrameOf1, FrameOf2
  <2>2. QED
    BY <1>1, <1>2, <2>1, Frames
<1>8. QED
  BY <1>5, <1>6, <1>7 DEF with

\* Without a rotation no turn is left in the frame.
LEMMA NoRotationFrame == NoRotation \in Rotations /\ FrameOf(NoRotation) = <<>>
<1>1. /\ NoRotation \in Rotations
      /\ NoRotation.roll = 0 /\ NoRotation.pitch = 0 /\ NoRotation.yaw = 0
  BY DEF NoRotation, Rotations, Axes
<1>2. FrameOf1(NoRotation) = <<>>
  BY <1>1, Frames, RotatedAdds DEF FrameOf1, Axes
<1>3. FrameOf2(NoRotation) = <<>>
  BY <1>1, <1>2, Frames, RotatedAdds DEF FrameOf2, Axes
<1>4. QED
  BY <1>1, <1>3, Frames, RotatedAdds DEF Axes

-----------------------------------------------------------------------------
(* Configurations, and what the helpers make of them.                      *)

Calibration == [rot : Rotations, frame : Seq(Turn), off : [Sensors -> Int]]

Configurations == [appconf : Config, mcconf : Int, express : Int]

\* But for rotation, frame and offsets the two are the same.
Alike(c, d) == c.app = d.app /\ c.type = d.type /\ c.profile = d.profile /\ c.rateOf = d.rateOf

\* The offsets of a configuration are in the frame of its rotation.
Framed(c) == c.frame = FrameOf(c.rot)

\* What the fields of an application configuration may hold.
LEMMA Fields ==
  ASSUME NEW c \in Config
  PROVE  /\ c.app \in {"user", "off"} /\ c.type \in Types \cup {0}
         /\ c.profile \in {"own"} \cup Profiles /\ c.rateOf \in Types \cup {0}
         /\ c.rot \in Rotations /\ c.frame \in Seq(Turn) /\ c.off \in [Sensors -> Int]
         /\ c.rot.roll \in Int /\ c.rot.pitch \in Int /\ c.rot.yaw \in Int
<1>1. /\ c.app \in {"user", "off"} /\ c.type \in Types \cup {0}
      /\ c.profile \in {"own"} \cup Profiles /\ c.rateOf \in Types \cup {0}
      /\ c.rot \in Rotations /\ c.frame \in Seq(Turn) /\ c.off \in [Sensors -> Int]
  BY DEF Config, Rotations, Turn
<1>2. QED
  BY <1>1, Frames

\* Configurations with the same fields are the same.
LEMMA SameFields ==
  ASSUME NEW c \in Config, NEW d \in Config,
         Alike(c, d), c.rot = d.rot, c.frame = d.frame, c.off = d.off
  PROVE  c = d
<1>1. c = [app |-> c.app, type |-> c.type, profile |-> c.profile, rateOf |-> c.rateOf,
           rot |-> c.rot, frame |-> c.frame, off |-> c.off]
  BY DEF Config
<1>2. d = [app |-> d.app, type |-> d.type, profile |-> d.profile, rateOf |-> d.rateOf,
           rot |-> d.rot, frame |-> d.frame, off |-> d.off]
  BY DEF Config
<1>3. QED
  BY <1>1, <1>2 DEF Alike

\* RestoreOf takes the calibration of a configuration, its three fields and no other.
LEMMA RestoreFields ==
  ASSUME NEW c \in Config
  PROVE  /\ RestoreOf(c) \in Calibration
         /\ RestoreOf(c).rot = c.rot /\ RestoreOf(c).frame = c.frame /\ RestoreOf(c).off = c.off
BY Fields DEF RestoreOf, Calibration

\* _with_axis changes one axis of the rotation, and turns the frame with it.
LEMMA TurnedFields ==
  ASSUME NEW c \in Config, NEW a \in Axes, NEW x \in Int
  PROVE  /\ Turned(c, a, x) \in Config /\ Alike(Turned(c, a, x), c)
         /\ Turned(c, a, x).off = c.off
         /\ Turned(c, a, x).rot = [c.rot EXCEPT ![a] = x]
         /\ Turned(c, a, x).frame = Rotated(c.frame, a, x)
<1>1. /\ Rotated(c.frame, a, x) \in Seq(Turn)
      /\ [c.rot EXCEPT ![a] = x] \in Rotations
  BY Fields, RotatedTypes DEF Rotations
<1>2. QED
  BY <1>1 DEF Turned, Config, Alike, Turn, Rotations

\* _prepare_for_orientation sets the rotation to zero and keeps the offsets and all else.
LEMMA PreparedFields ==
  ASSUME NEW c \in Config
  PROVE  /\ Prepared(c) \in Config /\ Alike(Prepared(c), c)
         /\ Prepared(c).off = c.off /\ Prepared(c).rot = NoRotation
         /\ Framed(c) => Prepared(c).frame = <<>>
<1> DEFINE f1 == Rotated(c.frame, "yaw", -c.rot.yaw)
           f2 == Rotated(f1, "pitch", -c.rot.pitch)
           f3 == Rotated(f2, "roll", -c.rot.roll)
<1>0. \A x \in Int : -x \in Int
  OBVIOUS
<1>1. f1 \in Seq(Turn)
  BY <1>0, Fields, RotatedTypes DEF Axes
<1>2. f2 \in Seq(Turn)
  BY <1>0, <1>1, Fields, RotatedTypes DEF Axes
<1>3. f3 \in Seq(Turn)
  BY <1>0, <1>2, Fields, RotatedTypes DEF Axes
<1>4. Framed(c) => f3 = <<>>
  BY Fields, FrameUndone DEF Framed
<1>5. Prepared(c) = [c EXCEPT !.rot = NoRotation, !.frame = f3]
  BY DEF Prepared
<1> HIDE DEF f3
<1>6. NoRotation \in Rotations
  BY NoRotationFrame
<1>7. QED
  BY <1>3, <1>4, <1>5, <1>6 DEF Config, Alike, Turn, Rotations

\* _restore_orientation puts the kept calibration back and leaves everything else.
LEMMA RestoredFields ==
  ASSUME NEW c \in Config, NEW r \in Calibration
  PROVE  /\ Restored(c, r) \in Config /\ Alike(Restored(c, r), c)
         /\ Restored(c, r).rot = r.rot /\ Restored(c, r).frame = r.frame
         /\ Restored(c, r).off = r.off
BY DEF Restored, Config, Calibration, Alike, Turn, Rotations

\* What is restored is what was there, when nothing else has changed.
LEMMA RestoredUndoes ==
  ASSUME NEW c \in Config, NEW d \in Config, Alike(c, d)
  PROVE  Restored(c, RestoreOf(d)) = d
<1> DEFINE e == Restored(c, RestoreOf(d))
<1>1. e \in Config /\ Alike(e, c) /\ e.rot = d.rot /\ e.frame = d.frame /\ e.off = d.off
  BY RestoreFields, RestoredFields
<1> HIDE DEF e
<1>2. Alike(e, d)
  BY <1>1 DEF Alike
<1>3. e = d
  BY <1>1, <1>2, SameFields
<1>4. QED
  BY <1>3 DEF e

\* A profile leaves the application, the type and the calibration alone.
LEMMA ProfiledFields ==
  ASSUME NEW c \in Config, NEW p \in Profiles \cup {"own"}
  PROVE  /\ Profiled(c, p) \in Config
         /\ Profiled(c, p).app = c.app /\ Profiled(c, p).type = c.type
         /\ RestoreOf(Profiled(c, p)) = RestoreOf(c)
BY DEF Profiled, Config, RestoreOf

\* A measured offset is added to that sensor's, and nothing else changes.
LEMMA CalibratedFields ==
  ASSUME NEW c \in Config, NEW s \in Sensors, NEW x \in Int
  PROVE  /\ Calibrated(c, s, x) \in Config /\ Alike(Calibrated(c, s, x), c)
         /\ Calibrated(c, s, x).rot = c.rot /\ Calibrated(c, s, x).frame = c.frame
         /\ Calibrated(c, s, x).off = [c.off EXCEPT ![s] = c.off[s] + x]
<1>1. c.off[s] + x \in Int
  BY Fields
<1> DEFINE y == c.off[s] + x
<1> HIDE DEF y
<1>2. [c.off EXCEPT ![s] = y] \in [Sensors -> Int]
  BY <1>1, Fields DEF y
<1>3. Calibrated(c, s, x) = [c EXCEPT !.off = [c.off EXCEPT ![s] = y]]
  BY DEF Calibrated, Config, y
<1>4. QED
  BY <1>2, <1>3 DEF Config, Alike, y

-----------------------------------------------------------------------------
(* The invariant.                                                          *)

TypesInv ==
  /\ ram \in Configurations /\ stored \in Configurations
  /\ config \in Config /\ opened \in Config /\ restore \in Calibration
  /\ fails \in 0..MaxFails
  /\ program \in {"none", "gui", "wizard", "tui", "over"}
  /\ search \in [active : BOOLEAN, candidate : Nat, app : {"user", "off", "none"}]
  /\ search.active => search.candidate \in Types /\ search.app # "none"
  /\ profile \in Profiles
  /\ timers \in [young : Nat, due : Nat] /\ timers.young + timers.due <= MaxTimers
  /\ peak \in [Accel -> Int]
  /\ noise \in BOOLEAN /\ hasty \in BOOLEAN

\* Where a program may be, and what it has not begun.
PageInv ==
  /\ program = "none" => /\ page = "none"
                         /\ timers.young = 0 /\ timers.due = 0
                         /\ ram = stored /\ ram.appconf \in UserConfigs /\ ram.mcconf = 0
                         /\ ram.express = 129
                         /\ ~hasty
  /\ program = "gui" => page \in {"menu", "configurator", "gyro"} \cup Accel \cup Axes
  /\ program = "wizard" => /\ page \in {"basic", "try", "sample", "profile", "gyro", "ready"}
                                       \cup Accel \cup Axes
                           /\ page \in {"try", "sample"} <=> search.active
                           /\ timers.young = 0 /\ timers.due = 0
  /\ search.active => \/ program = "gui" /\ page = "configurator"
                      \/ program \in {"wizard", "over"}
  /\ program = "tui" => page = "editor"

\* In a step of the orientation nothing but rotation, frame and offsets differs from what
\* there was when it was opened, and those are kept.
StepInv ==
  program \in {"gui", "wizard"} /\ page \in Axes =>
    restore = RestoreOf(opened) /\ Alike(config, opened)

\* What is known of writes that were lost without an error.
LossInv ==
  /\ lost \in {"none", "open", "mended"} /\ waits \in BOOLEAN
  /\ late \subseteq SetCommands /\ (late # {} => fails > 0)

\* Something may have been stored that was not measured, or was stored twice.
Guessed == hasty \/ lost # "none"

\* A configuration that may be stored, and one that may be when nothing is guessed.
Owned(c)    == Framed(c) /\ c.app = "user"
Measured(c) == (\A s \in Sensors : c.off[s] \in 0..Bias) /\ c.rot # NoRotation
Sound(c)    == Owned(c) /\ (~Guessed => Measured(c))

SameCalibration(c, d) == RestoreOf(c) = RestoreOf(d)

\* Between the steps, and in those that set nothing for the time being.
AtRest == {"menu", "basic", "gyro", "x", "y", "z", "ready"}

\* In the step that sets type and profile the calibration stays.
SettingUp ==
  /\ opened = stored.appconf
  /\ SameCalibration(config, opened) /\ SameCalibration(ram.appconf, opened)
  /\ ~search.active => config.app = "user"
  /\ search.active => search.app = "user"

\* An angle that was set is one that levels the IMU, or the one of before.
Set(axis) == ~Guessed => config.rot[axis] \in {Level, opened.rot[axis]}

\* In the orientation step the offsets follow the rotation, an axis at a time.
Orienting ==
  /\ opened = stored.appconf
  /\ config = ram.appconf /\ Framed(config) /\ config.off = opened.off
  /\ IF page = "roll" THEN config.rot.roll = 0 ELSE Set("roll")
  /\ IF page \in {"roll", "pitch"} THEN config.rot.pitch = 0 ELSE Set("pitch")
  /\ config.rot.yaw = 0

\* The peak on an axis that is still to be stored is a reading of its sensor.
Peaks(axis) == peak[axis] \in {Unset, Reading(axis)}

PeakInv ==
  program = "gui" => /\ page = "x" => Peaks("x")
                     /\ page \in {"x", "y"} => Peaks("y")
                     /\ page \in Accel => Peaks("z")

\* A search has not gone past the type it looks for.
SearchInv ==
  search.active =>
    /\ page # "try" => ram.appconf.type = search.candidate
    /\ timers.young + timers.due < 2 =>
         /\ search.candidate <= Fitted
         /\ timers.due > 0 => (noise <=> Working)

\* In the step that sets type and profile the calibration is that of what was opened, and the
\* user's application can be put back.
SettingOwn ==
  /\ Owned(opened) /\ SameCalibration(config, opened)
  /\ ~search.active => config.app = "user"
  /\ search.active => search.app = "user"

\* In the orientation step the offsets are in the frame of the rotation, an axis at a time.
TurningOwn ==
  /\ Owned(opened) /\ Framed(config) /\ config.rot.yaw = 0
  /\ page = "roll" => config.rot.roll = 0
  /\ page \in {"roll", "pitch"} => config.rot.pitch = 0

\* In the flash and, but for what a step sets for the time being, in the program's copy is a
\* calibration of one piece, whichever writes were lost.
Own ==
  /\ Owned(stored.appconf)
  /\ program \in {"gui", "wizard"} =>
       /\ ram.mcconf = stored.mcconf /\ ram.express = stored.express
       /\ page \in AtRest => Owned(config)
       /\ page \in {"configurator", "try", "sample", "profile"} => SettingOwn
       /\ page \in Axes => TurningOwn

\* What holds as long as nothing raised, and what was lost has been made up for.
Faultless ==
  /\ Sound(stored.appconf)
  /\ program \in {"gui", "wizard"} =>
       /\ ram.mcconf = stored.mcconf /\ ram.express = stored.express
       /\ page \in AtRest => config = ram.appconf /\ ram.appconf = stored.appconf
       /\ page \in {"configurator", "try", "sample", "profile"} => SettingUp
       /\ page \in Axes => Orienting
       /\ (lost = "none" => PeakInv) /\ SearchInv

OwnInv       == fails = 0 => Own
FaultlessInv == fails = 0 /\ lost # "open" => Faultless

\* What the editor shows: numbers in their range, and a configuration that may be stored.
Shown(conf) ==
  /\ DOMAIN conf = entries
  /\ "mcconf" \in entries => conf["mcconf"] \in InRange
  /\ "express" \in entries => conf["express"] \in BitFields
  /\ "appconf" \in entries => conf["appconf"] \in Config /\ Sound(conf["appconf"])

\* As long as no write failed the controller has what the editor takes for stored.
EditorInv ==
  /\ entries \subseteq Kinds
  /\ program # "tui" /\ entries # {} => program = "over"
  /\ entries # {} =>
       /\ ram = stored /\ Sound(stored.appconf)
       /\ Shown(original) /\ Shown(current)
       /\ fails = 0 => \A k \in entries : ram[k] = Serialized(k, original[k])
  /\ program = "tui" => entries # {}

ConfigInv == /\ TypesInv /\ LossInv /\ PageInv /\ StepInv /\ OwnInv /\ FaultlessInv
             /\ EditorInv

-----------------------------------------------------------------------------
(* Writes and readings.                                                    *)

\* A configuration of the controller with another APPCONF.
LEMMA WithAppconf ==
  ASSUME NEW m \in Configurations, NEW c \in Config
  PROVE  /\ [m EXCEPT !["appconf"] = c] \in Configurations
         /\ [m EXCEPT !["appconf"] = c].appconf = c
         /\ [m EXCEPT !["appconf"] = c].mcconf = m.mcconf
         /\ [m EXCEPT !["appconf"] = c].express = m.express
BY DEF Configurations

DeviceTypes == ram \in Configurations /\ stored \in Configurations /\ fails \in 0..MaxFails

\* Nothing but APPCONF changes, which becomes what is written or stays.
Changed(m, n, c) ==
  n \in Configurations /\ n.appconf \in {m.appconf, c} /\ n.mcconf = m.mcconf
  /\ n.express = m.express

\* A write that is answered leaves the RAM, and the flash if it stores, with what was written.
LEMMA WrittenChanges ==
  ASSUME NEW c \in Config, NEW store, DeviceTypes, Written("appconf", c, store)
  PROVE  /\ DeviceTypes' /\ fails' = fails
         /\ Changed(ram, ram', c) /\ ram'.appconf = c
         /\ Changed(stored, stored', c)
         /\ store => stored'.appconf = c
         /\ ~store => stored' = stored
<1>1. CASE store
  BY <1>1, WithAppconf DEF DeviceTypes, Written, Changed
<1>2. CASE ~store
  BY <1>2, WithAppconf DEF DeviceTypes, Written, Changed
<1>3. QED
  BY <1>1, <1>2

\* So does a write after which the handler goes on, which may have been lost.
LEMMA SentChanges ==
  ASSUME NEW c \in Config, NEW store, DeviceTypes, Sent("appconf", c, store)
  PROVE  /\ DeviceTypes' /\ fails' = fails
         /\ Changed(ram, ram', c) /\ Changed(stored, stored', c)
         /\ ~store => stored' = stored
<1>1. CASE Written("appconf", c, store)
  BY <1>1, WrittenChanges
<1>2. CASE WriteLost("appconf", store)
  BY <1>2 DEF WriteLost, DeviceTypes, Changed
<1>3. QED
  BY <1>1, <1>2 DEF Sent

\* A write that raises counts as a failure, and touches the application configuration only.
LEMMA RaisedChanges ==
  ASSUME NEW c \in Config, NEW store, DeviceTypes, WriteRaises("appconf", c, store)
  PROVE  /\ DeviceTypes' /\ fails' > 0
         /\ Changed(ram, ram', c) /\ Changed(stored, stored', c)
<1>0. fails' \in 0..MaxFails /\ fails' > 0
  BY TypesAssumption DEF DeviceTypes, WriteRaises
<1>1. CASE UNCHANGED <<ram, stored, late>>
  BY <1>0, <1>1 DEF DeviceTypes, Changed
<1>2. CASE /\ ram' = [ram EXCEPT !["appconf"] = c]
           /\ stored' = IF store THEN [stored EXCEPT !["appconf"] = c] ELSE stored
  <2>1. CASE store
    BY <1>0, <1>2, <2>1, WithAppconf DEF DeviceTypes, Changed
  <2>2. CASE ~store
    BY <1>0, <1>2, <2>2, WithAppconf DEF DeviceTypes, Changed
  <2>3. QED
    BY <2>1, <2>2
<1>3. QED
  BY <1>1, <1>2 DEF WriteRaises

\* So do a write that raises and the one tried after it; neither of them stores.
LEMMA RaisedTwiceChanges ==
  ASSUME NEW c \in Config, NEW d \in Config, DeviceTypes, WriteRaisesThen("appconf", c, d)
  PROVE  /\ DeviceTypes' /\ fails' > 0 /\ stored' = stored
         /\ ram'.mcconf = ram.mcconf /\ ram'.express = ram.express
<1>0. fails' \in 0..MaxFails /\ fails' > 0 /\ stored' = stored
  BY TypesAssumption DEF DeviceTypes, WriteRaisesThen, MayBeLost, MayComeLate, Command
<1>1. PICK e \in Config : ram' = [ram EXCEPT !["appconf"] = e]
  <2>1. ram.appconf \in Config /\ ram["appconf"] = ram.appconf
    BY DEF DeviceTypes, Configurations
  <2>2. QED
    BY <2>1 DEF WriteRaisesThen
<1>2. QED
  BY <1>0, <1>1, WithAppconf DEF DeviceTypes

\* What a write does to what is known of losses: that there was one is not forgotten.
Hears ==
  /\ waits' \in BOOLEAN
  /\ lost' \in {"none", "open", "mended"} /\ (lost # "none" => lost' # "none")
  /\ late' \subseteq SetCommands /\ (late' # {} => fails' > 0)

\* A write that is not one of the editor's leaves it so, whatever becomes of it.
LEMMA WritesHear ==
  ASSUME LossInv, DeviceTypes, NEW c, NEW d, NEW store,
         \/ Sent("appconf", c, store) \/ WriteRaises("appconf", c, store)
         \/ WriteRaisesThen("appconf", c, d)
  PROVE  Hears
<1>0. fails \in Nat /\ \A st : Command("appconf", st) \in SetCommands
  BY DEF DeviceTypes, Command, SetCommands
<1>1. CASE Written("appconf", c, store)
  BY <1>0, <1>1 DEF Written, Mended, LossInv, Hears
<1>2. CASE WriteLost("appconf", store)
  BY <1>0, <1>2 DEF WriteLost, LossInv, Hears
<1>3. CASE WriteRaises("appconf", c, store)
  <2>1. fails' > 0 /\ late' \subseteq SetCommands /\ UNCHANGED <<lost, waits>>
    BY <1>0, <1>3 DEF WriteRaises, MayComeLate, LossInv
  <2>2. QED
    BY <2>1 DEF LossInv, Hears
<1>4. CASE WriteRaisesThen("appconf", c, d)
  <2>1. fails' > 0 /\ lost' \in {lost, "open"} /\ UNCHANGED waits
    BY <1>0, <1>4 DEF WriteRaisesThen, MayBeLost, MayComeLate, Command
  <2>2. MayComeLate("appconf", FALSE)
    BY Zenon, <1>4 DEF WriteRaisesThen
  <2>3. late' \subseteq SetCommands
    BY <2>2 DEF MayComeLate, Command, SetCommands, LossInv
  <2>4. QED
    BY <2>1, <2>3 DEF LossInv, Hears
<1>5. QED
  BY <1>1, <1>2, <1>3, <1>4 DEF Sent

\* What the IMU answers is an integer, and undone by what the RAM already subtracts from it.
LEMMA Readings ==
  ASSUME ram \in Configurations
  PROVE  /\ Working \in BOOLEAN
         /\ \A s \in Sensors : Reading(s) \in Int
         /\ \A a \in Axes : Angle(a) \in Int
         /\ \A s \in Sensors : Working => Reading(s) = 1 - ram.appconf.off[s]
         /\ \A a \in Axes : Working => Angle(a) = 2 - ram.appconf.rot[a]
<1>1. ram.appconf \in Config
  BY DEF Configurations
<1>2. /\ \A s \in Sensors : ram.appconf.off[s] \in Int
      /\ \A a \in Axes : ram.appconf.rot[a] \in Int
  BY <1>1, Fields DEF Rotations
<1>3. QED
  BY <1>2 DEF Working, Reading, Angle, Bias, Level

\* The order in which the pages of a calibration follow each other.
LEMMA NextPages ==
  /\ NextPage["x"] = "y" /\ NextPage["y"] = "z" /\ NextPage["z"] = "menu"
  /\ NextPage["roll"] = "pitch" /\ NextPage["pitch"] = "yaw" /\ NextPage["yaw"] = "menu"
BY DEF NextPage

\* The configurations the user may start from are sound.
LEMMA UserConfigTypes ==
  /\ UserConfig \in Config /\ RestoreOf(UserConfig) \in Calibration
  /\ \A c \in UserConfigs : c \in Config /\ Framed(c) /\ Measured(c) /\ c.app = "user"
<1> DEFINE rot == [roll |-> 1, pitch |-> 0, yaw |-> 1]
           frame == FrameOf(rot)
           off == [s \in Sensors |-> 0]
<1>1. rot \in Rotations /\ rot.roll = 1
  BY DEF Rotations, Axes
<1>2. frame \in Seq(Turn)
  BY <1>1, Frames
<1>3. UserConfig = [app |-> "user", type |-> 1, profile |-> "own", rateOf |-> 1,
                    rot |-> rot, frame |-> frame, off |-> off]
  BY DEF UserConfig
<1>4. 1 \in Types
  BY TypesAssumption DEF Types
<1>5. off \in [Sensors -> Int] /\ \A s \in Sensors : off[s] \in 0..Bias
  BY DEF Bias
<1>6. rot # NoRotation
  BY <1>1 DEF NoRotation, Axes
<1> HIDE DEF rot, frame, off
<1>7. UserConfig \in Config
  BY <1>1, <1>2, <1>3, <1>4, <1>5 DEF Config, Turn, Rotations
<1>8. ASSUME NEW c \in UserConfigs
      PROVE  c \in Config /\ Framed(c) /\ Measured(c) /\ c.app = "user"
  <2>1. PICK t \in Types : c = [UserConfig EXCEPT !.type = t, !.rateOf = t]
    BY DEF UserConfigs
  <2>2. c = [app |-> "user", type |-> t, profile |-> "own", rateOf |-> t,
             rot |-> rot, frame |-> frame, off |-> off]
    BY <1>3, <2>1
  <2>3. c \in Config /\ c.app = "user"
    BY <1>1, <1>2, <1>5, <2>2 DEF Config, Turn, Rotations
  <2>4. Framed(c)
    BY <2>2 DEF Framed, frame
  <2>5. Measured(c)
    BY <1>5, <1>6, <2>2 DEF Measured
  <2>6. QED
    BY <2>3, <2>4, <2>5
<1>9. QED
  BY <1>7, <1>8, RestoreFields

-----------------------------------------------------------------------------
(* Types and pages.                                                        *)

GuiPages == {"menu", "configurator", "gyro"} \cup Accel \cup Axes

\* The invariant of types covers the device.
LEMMA DeviceTyped == TypesInv => DeviceTypes
BY DEF TypesInv, DeviceTypes

\* Nothing runs yet, nothing was written, and all copies are the user's.
LEMMA ConfigInitially == Init => ConfigInv
<1> SUFFICES ASSUME Init PROVE ConfigInv
  OBVIOUS
<1>1. /\ program = "none" /\ page = "none" /\ fails = 0 /\ hasty = FALSE /\ search = NoSearch
      /\ config = UserConfig /\ opened = UserConfig /\ restore = RestoreOf(UserConfig)
      /\ stored = ram /\ profile = "default" /\ timers = [young |-> 0, due |-> 0]
      /\ noise = FALSE /\ peak = NoPeak /\ entries = {}
  BY DEF Init, InitDevice, InitGui, InitTui
<1>2. /\ ram \in Configurations
      /\ ram.appconf \in UserConfigs /\ ram.mcconf = 0 /\ ram.express = 129
  <2>1. ram \in [appconf : UserConfigs, mcconf : {0}, express : {129}]
    BY DEF Init, InitDevice
  <2>2. QED
    BY <2>1, UserConfigTypes DEF Configurations
<1>3. ~hasty /\ ~search.active
      /\ search \in [active : BOOLEAN, candidate : Nat, app : {"user", "off", "none"}]
  BY <1>1 DEF NoSearch
<1>4. noise \in BOOLEAN /\ hasty \in BOOLEAN
  BY <1>1
<1>5. /\ peak \in [Accel -> Int] /\ profile \in Profiles
      /\ timers \in [young : Nat, due : Nat] /\ timers.young = 0 /\ timers.due = 0
  BY <1>1 DEF NoPeak, Unset, Profiles
<1>6. TypesInv
  BY <1>1, <1>2, <1>3, <1>4, <1>5, TypesAssumption, UserConfigTypes DEF TypesInv
<1>7. PageInv
  BY <1>1, <1>2, <1>3, <1>5 DEF PageInv
<1>8. StepInv /\ OwnInv /\ FaultlessInv /\ EditorInv
  BY <1>1, <1>2, UserConfigTypes
     DEF StepInv, OwnInv, Own, FaultlessInv, Faultless, Sound, Owned, EditorInv
<1>9. LossInv
  BY DEF Init, InitDevice, LossInv
<1>10. QED
  BY <1>6, <1>7, <1>8, <1>9 DEF ConfigInv

\* A handler that goes from page to page keeps types and pages.
LEMMA PageTypes ==
  ASSUME TypesInv, program = "gui", program' = "gui",
         DeviceTypes', config' \in Config, opened' \in Config, restore' \in Calibration,
         profile' \in Profiles, peak' \in [Accel -> Int], noise' \in BOOLEAN, hasty' \in BOOLEAN,
         page' \in GuiPages,
         \/ UNCHANGED <<search, timers>> /\ (search.active => page' = "configurator")
         \/ UNCHANGED timers /\ search' = NoSearch
  PROVE  TypesInv' /\ PageInv'
<1>1. /\ search' \in [active : BOOLEAN, candidate : Nat, app : {"user", "off", "none"}]
      /\ search'.active => /\ search'.candidate \in Types /\ search'.app # "none"
                           /\ page' = "configurator"
      /\ timers' \in [young : Nat, due : Nat] /\ timers'.young + timers'.due <= MaxTimers
  <2>1. CASE search' = NoSearch
    <3>1. /\ NoSearch \in [active : BOOLEAN, candidate : Nat, app : {"user", "off", "none"}]
          /\ ~NoSearch.active
      BY DEF NoSearch
    <3>2. timers' = timers
      OBVIOUS
    <3>3. QED
      BY <2>1, <3>1, <3>2 DEF TypesInv
  <2>2. CASE UNCHANGED <<search, timers>> /\ (search.active => page' = "configurator")
    BY <2>2 DEF TypesInv
  <2>3. QED
    BY <2>1, <2>2
<1>2. TypesInv'
  BY <1>1 DEF TypesInv, DeviceTypes
<1>3. PageInv'
  BY <1>1 DEF PageInv, GuiPages
<1>4. QED
  BY <1>2, <1>3

\* A poll keeps the types and the pages.
LEMMA PollTypes ==
  ASSUME TypesInv, PageInv, program = "gui", Poll
  PROVE  TypesInv' /\ PageInv'
<1>1. UNCHANGED <<device, session, config, search, profile, opens, openFailed>>
  BY DEF Poll
<1>2. timers' \in [young : Nat, due : Nat] /\ timers'.young + timers'.due <= MaxTimers
  BY DEF Poll, TypesInv
<1>3. noise' \in BOOLEAN
  BY Readings DEF Poll, TypesInv
<1>4. peak' \in [Accel -> Int]
  <2>1. \A s \in Accel : Reading(s) \in Int /\ peak[s] \in Int
    BY Readings DEF TypesInv, Accel, Sensors
  <2>2. CASE page \in Accel
    BY <2>1, <2>2 DEF Poll
  <2>3. CASE page \notin Accel
    BY <2>3 DEF Poll, TypesInv
  <2>4. QED
    BY <2>2, <2>3
<1>5. TypesInv'
  BY <1>1, <1>2, <1>3, <1>4 DEF TypesInv, device, session
<1>6. PageInv'
  BY <1>1 DEF PageInv, device, session
<1>7. QED
  BY <1>5, <1>6

\* So does every choice in the menu of the window.
LEMMA MenuTypes ==
  ASSUME TypesInv, PageInv, program = "gui", MenuPage
  PROVE  TypesInv' /\ PageInv'
<1>1. page = "menu" /\ ~search.active
  BY DEF MenuPage, PageInv
<1>2. /\ "configurator" \in GuiPages /\ "gyro" \in GuiPages /\ "x" \in GuiPages
      /\ "roll" \in GuiPages /\ "menu" \in GuiPages
      /\ "default" \in Profiles /\ NoPeak \in [Accel -> Int]
      /\ Profiled(config, "default") \in Config /\ Prepared(config) \in Config
      /\ RestoreOf(config) \in Calibration
  BY ProfiledFields, PreparedFields, RestoreFields
     DEF GuiPages, Accel, Axes, Profiles, NoPeak, Unset, TypesInv
<1>3. CASE OpenConfigurator
  BY <1>1, <1>2, <1>3, DeviceTyped, PageTypes
     DEF OpenConfigurator, TypesInv, DeviceTypes, device
<1>4. CASE OpenGyro
  BY <1>1, <1>2, <1>4, DeviceTyped, PageTypes DEF OpenGyro, TypesInv, DeviceTypes, device
<1>5. CASE OpenAccel
  BY <1>1, <1>2, <1>5, DeviceTyped, PageTypes DEF OpenAccel, TypesInv, DeviceTypes, device
<1>6. CASE OpenOrientation
  <2>1. DeviceTypes' /\ page' \in GuiPages
    BY <1>1, <1>2, <1>6, DeviceTyped, SentChanges, RaisedChanges DEF OpenOrientation
  <2>2. QED
    BY <1>1, <1>2, <1>6, <2>1, PageTypes DEF OpenOrientation, TypesInv
<1>7. QED
  BY <1>3, <1>4, <1>5, <1>6 DEF MenuPage

\* What _set_page makes of the kept configuration, the profile and the peaks is well typed.
LEMMA SetPageTypes ==
  ASSUME TypesInv, NEW next, SetPage(next)
  PROVE  /\ page' = next
         /\ opened' \in Config /\ restore' \in Calibration
         /\ profile' \in Profiles /\ peak' \in [Accel -> Int]
<1>1. NoPeak \in [Accel -> Int] /\ "default" \in Profiles
  BY DEF NoPeak, Profiles, Unset
<1>2. QED
  BY <1>1, UserConfigTypes DEF SetPage, TypesInv

\* What Save and Skip write, and where they lead.
LEMMA CommitTypes ==
  ASSUME TypesInv, PageInv, program = "gui", ~search.active,
         NEW c \in Config, NEW store, NEW next \in GuiPages, Commit(c, store, next),
         hasty' \in BOOLEAN
  PROVE  TypesInv' /\ PageInv'
<1>1. page \in GuiPages
  BY DEF PageInv, GuiPages
<1>2. DeviceTypes' /\ \E n \in GuiPages : SetPage(n)
  BY <1>1, DeviceTyped, SentChanges, RaisedChanges DEF Commit
<1>3. /\ page' \in GuiPages
      /\ opened' \in Config /\ restore' \in Calibration
      /\ profile' \in Profiles /\ peak' \in [Accel -> Int]
  BY <1>2, SetPageTypes
<1>4. QED
  BY <1>2, <1>3, PageTypes DEF Commit, TypesInv

\* A candidate of the search changes the type and the application, and no calibration.
LEMMA Searches ==
  ASSUME TypesInv, NEW c \in Config, NEW n \in Types \cup {0}, NEW app \in {"user", "off"}
  PROVE  /\ Searched(c, n, app) \in Config
         /\ Searched(c, n, app).app = app /\ Searched(c, n, app).type = n
         /\ SameCalibration(Searched(c, n, app), c)
<1> DEFINE d == [c EXCEPT !.type = n, !.app = app]
<1>1. d \in Config /\ d.app = app /\ d.type = n /\ RestoreOf(d) = RestoreOf(c)
  BY DEF Config, RestoreOf
<1>2. Searched(c, n, app) = Profiled(d, profile)
  BY DEF Searched
<1> HIDE DEF d
<1>3. profile \in Profiles \cup {"own"}
  BY DEF TypesInv
<1>4. QED
  BY <1>1, <1>2, <1>3, ProfiledFields DEF SameCalibration

\* The timers of a page that does not change.
LEMMA TimerTypes ==
  ASSUME TypesInv, PageInv, program = "gui", page = "configurator",
         UNCHANGED <<session, profile, noise, peak>>, DeviceTypes', config' \in Config,
         NEW young \in Nat, NEW due \in Nat, young + due <= MaxTimers,
         timers' = [young |-> young, due |-> due],
         \/ search' \in {search, NoSearch}
         \/ \E n \in Types, app \in {"user", "off"} :
              search' = [active |-> TRUE, candidate |-> n, app |-> app]
  PROVE  TypesInv' /\ PageInv'
<1>1. timers' \in [young : Nat, due : Nat] /\ timers'.young + timers'.due <= MaxTimers
  OBVIOUS
<1>2. /\ search' \in [active : BOOLEAN, candidate : Nat, app : {"user", "off", "none"}]
      /\ search'.active => search'.candidate \in Types /\ search'.app # "none"
  <2>1. CASE search' = NoSearch
    <3>1. /\ NoSearch \in [active : BOOLEAN, candidate : Nat, app : {"user", "off", "none"}]
          /\ ~NoSearch.active
      BY DEF NoSearch
    <3>2. QED
      BY <2>1, <3>1
  <2>2. CASE search' = search
    BY <2>2 DEF TypesInv
  <2>3. CASE \E n \in Types, app \in {"user", "off"} :
               search' = [active |-> TRUE, candidate |-> n, app |-> app]
    <3>1. \A n \in Types : n \in Nat
      BY DEF Types
    <3>2. QED
      BY <2>3, <3>1
  <2>4. QED
    BY <2>1, <2>2, <2>3
<1>3. TypesInv'
  BY <1>1, <1>2 DEF TypesInv, DeviceTypes, session
<1>4. PageInv'
  BY DEF PageInv, session
<1>5. QED
  BY <1>3, <1>4

\* The end of a search, with its write, keeps the types and the pages.
LEMMA FinishTypes ==
  ASSUME TypesInv, PageInv, program = "gui", page = "configurator",
         UNCHANGED <<session, profile, noise, peak>>,
         NEW c \in Config, NEW n \in Types \cup {0}, NEW app \in {"user", "off"},
         NEW due \in Nat, timers.young + due <= MaxTimers, FinishSearch(c, n, app, due)
  PROVE  TypesInv' /\ PageInv'
<1>1. config' \in Config /\ DeviceTypes' /\ search' = NoSearch
  BY Searches, DeviceTyped, SentChanges, RaisedChanges DEF FinishSearch
<1>2. timers' = [young |-> timers.young, due |-> due] /\ timers.young \in Nat
  BY DEF FinishSearch, TypesInv
<1>3. QED
  BY <1>1, <1>2, TimerTypes

\* So does the next candidate, which schedules one more timer.
LEMMA TryTypes ==
  ASSUME TypesInv, PageInv, program = "gui", page = "configurator",
         UNCHANGED <<session, profile, noise, peak>>,
         NEW c \in Config, NEW n \in Nat, NEW app \in {"user", "off"},
         NEW due \in Nat, timers.young + 1 + due <= MaxTimers, TryCandidate(c, n, app, due)
  PROVE  TypesInv' /\ PageInv'
<1> DEFINE tried == [c EXCEPT !.type = n]
<1>0. /\ timers.young \in Nat /\ timers.young + 1 \in Nat /\ timers.young + due <= MaxTimers
      /\ [timers EXCEPT !.due = due] = [young |-> timers.young, due |-> due]
      /\ n \in Types => tried \in Config
  <2>1. timers.young \in Nat /\ timers.young + 1 \in Nat /\ timers.young + due <= MaxTimers
    BY TypesAssumption DEF TypesInv
  <2>2. [timers EXCEPT !.due = due] = [young |-> timers.young, due |-> due]
    BY DEF TypesInv
  <2>3. n \in Types => tried \in Config
    BY DEF Config
  <2>4. QED
    BY <2>1, <2>2, <2>3
<1>1. CASE n \notin Types /\ FinishSearch(c, 0, app, due)
  BY <1>0, <1>1, FinishTypes
<1>2. CASE /\ n \in Types
           /\ config' = tried
           /\ Sent("appconf", tried, FALSE)
           /\ search' = [active |-> TRUE, candidate |-> n, app |-> app]
           /\ timers' = [young |-> timers.young + 1, due |-> due]
  <2>1. config' \in Config /\ DeviceTypes'
    BY <1>0, <1>2, DeviceTyped, SentChanges
  <2>2. QED
    BY <1>0, <1>2, <2>1, TimerTypes
<1>3. CASE /\ n \in Types
           /\ config' = Searched(c, n, app)
           /\ WriteRaisesThen("appconf", tried, config')
           /\ search' = NoSearch
           /\ timers' = [timers EXCEPT !.due = due]
  <2>1. config' \in Config
    BY <1>3, Searches
  <2>2. DeviceTypes'
    BY <1>0, <1>3, <2>1, DeviceTyped, RaisedTwiceChanges
  <2>3. QED
    BY <1>0, <1>3, <2>1, <2>2, TimerTypes
<1>4. QED
  BY <1>1, <1>2, <1>3 DEF TryCandidate

\* So do the start of a search and the timer that looks at its candidate.
LEMMA SearchTypes ==
  ASSUME TypesInv, PageInv, program = "gui",
         (page = "configurator" /\ StartSearch) \/ CheckCandidate
  PROVE  TypesInv' /\ PageInv'
<1>1. timers.young \in Nat /\ timers.due \in Nat /\ timers.young + timers.due <= MaxTimers
  BY DEF TypesInv
<1>2. CASE page = "configurator" /\ StartSearch
  <2>1. UNCHANGED <<session, profile, noise, peak>>
    BY <1>2 DEF StartSearch
  <2>2. config.app \in {"user", "off"} /\ [config EXCEPT !.app = "off"] \in Config
    <3>1. config.app \in {"user", "off"} /\ 0 \in Types \cup {0} /\ config \in Config
      BY Fields DEF TypesInv
    <3>2. QED
      BY <3>1 DEF Config
  <2>3. timers.young + 1 + timers.due <= MaxTimers
    BY <1>1, <1>2, TypesAssumption DEF StartSearch
  <2>4. TryCandidate([config EXCEPT !.app = "off"], 1, config.app, timers.due)
    BY <1>2 DEF StartSearch
  <2>5. QED
    BY <1>1, <1>2, <2>1, <2>2, <2>3, <2>4, TryTypes
<1>3. CASE CheckCandidate
  <2>1. UNCHANGED <<session, profile, noise, peak>>
    BY <1>3 DEF CheckCandidate
  <2>2. timers.due - 1 \in Nat
    BY <1>1, <1>3 DEF CheckCandidate
  <2>3. CASE search.active
    <3>1. /\ page = "configurator" /\ search.candidate \in Types /\ search.candidate + 1 \in Nat
          /\ search.app \in {"user", "off"} /\ config \in Config
      BY <2>3 DEF TypesInv, PageInv, Types
    <3>2. CASE FinishSearch(config, search.candidate, search.app, timers.due - 1)
      <4>1. timers.young + (timers.due - 1) <= MaxTimers
        BY <1>1, TypesAssumption
      <4>2. QED
        BY <2>1, <2>2, <3>1, <3>2, <4>1, FinishTypes
    <3>3. CASE TryCandidate(config, search.candidate + 1, search.app, timers.due - 1)
      <4>1. timers.young + 1 + (timers.due - 1) <= MaxTimers
        BY <1>1, TypesAssumption
      <4>2. QED
        BY <2>1, <2>2, <3>1, <3>3, <4>1, TryTypes
    <3>4. QED
      BY <1>3, <2>3, <3>2, <3>3 DEF CheckCandidate
  <2>4. CASE ~search.active
    <3>1. UNCHANGED <<device, config, search>> /\ timers' = [timers EXCEPT !.due = @ - 1]
      BY <1>3, <2>4 DEF CheckCandidate
    <3>2. timers' \in [young : Nat, due : Nat] /\ timers'.young + timers'.due <= MaxTimers
      BY <1>1, <2>2, <3>1, TypesAssumption DEF TypesInv
    <3>3. TypesInv'
      BY <2>1, <3>1, <3>2 DEF TypesInv, device, session
    <3>4. PageInv'
      BY <2>1, <3>1 DEF PageInv, device, session
    <3>5. QED
      BY <3>3, <3>4
  <2>5. QED
    BY <2>3, <2>4
<1>4. QED
  BY <1>2, <1>3

\* The orientation pages keep the types and the pages.
LEMMA OrientationTypes ==
  ASSUME TypesInv, PageInv, program = "gui", OrientationPage
  PROVE  TypesInv' /\ PageInv'
<1>1. page \in Axes /\ ~search.active /\ NextPage[page] \in GuiPages /\ config \in Config
  BY NextPages DEF OrientationPage, PageInv, TypesInv, GuiPages, Axes, Accel
<1>2. Angle(page) \in Int /\ restore.rot[page] \in Int
  BY <1>1, Readings DEF TypesInv, Calibration, Rotations
<1>3. CASE SaveOrientation
  <2>1. hasty' \in BOOLEAN
    BY <1>3 DEF SaveOrientation
  <2>2. Turned(config, page, Angle(page)) \in Config
    BY <1>1, <1>2, TurnedFields
  <2>3. PICK store : Commit(Turned(config, page, Angle(page)), store, NextPage[page])
    BY <1>3 DEF SaveOrientation
  <2>4. QED
    BY <1>1, <2>1, <2>2, <2>3, CommitTypes
<1>4. CASE SkipOrientation
  <2>1. hasty' \in BOOLEAN
    BY <1>4 DEF SkipOrientation, TypesInv
  <2>2. Turned(config, page, restore.rot[page]) \in Config
    BY <1>1, <1>2, TurnedFields
  <2>3. PICK store : Commit(Turned(config, page, restore.rot[page]), store, NextPage[page])
    BY <1>4 DEF SkipOrientation
  <2>4. QED
    BY <1>1, <2>1, <2>2, <2>3, CommitTypes
<1>5. QED
  BY <1>3, <1>4 DEF OrientationPage

\* The accelerometer pages keep the types and the pages.
LEMMA AccelTypes ==
  ASSUME TypesInv, PageInv, program = "gui", AccelPage
  PROVE  TypesInv' /\ PageInv'
<1>1. page \in Accel /\ ~search.active /\ NextPage[page] \in GuiPages /\ page \in Sensors
  BY NextPages DEF AccelPage, PageInv, GuiPages, Axes, Accel, Sensors
<1>2. page \in GuiPages /\ NoPeak \in [Accel -> Int]
  BY <1>1 DEF GuiPages, NoPeak, Unset
<1>3. CASE SaveAccel
  <2>1. hasty' \in BOOLEAN
    BY <1>3 DEF SaveAccel, SaveMeasured, TypesInv
  <2>2. Calibrated(config, page, peak[page]) \in Config
    <3>1. peak[page] \in Int /\ config \in Config
      BY <1>1 DEF TypesInv
    <3>2. QED
      BY <1>1, <3>1, CalibratedFields
  <2>3. Commit(Calibrated(config, page, peak[page]), TRUE, NextPage[page])
    BY <1>3 DEF SaveAccel
  <2>4. QED
    BY <1>1, <2>1, <2>2, <2>3, CommitTypes
<1>4. CASE SkipAccel
  <2>1. UNCHANGED <<device, program, config, hasty, search, timers, noise>>
        /\ SetPage(NextPage[page])
    BY <1>4 DEF SkipAccel
  <2>2. QED
    BY <1>1, <2>1, SetPageTypes, PageTypes DEF TypesInv, DeviceTypes, device
<1>5. CASE ClearMax
  <2>1. UNCHANGED <<device, session, config, search, profile, timers, noise>> /\ peak' = NoPeak
    BY <1>5 DEF ClearMax
  <2>2. QED
    BY <1>1, <1>2, <2>1, PageTypes DEF TypesInv, DeviceTypes, device, session
<1>6. QED
  BY <1>3, <1>4, <1>5 DEF AccelPage

\* Cancel keeps the types and the pages.
LEMMA CancelTypes ==
  ASSUME TypesInv, PageInv, program = "gui", Cancel
  PROVE  TypesInv' /\ PageInv'
<1>1. /\ SetPage("menu") /\ UNCHANGED <<program, hasty, timers, noise>> /\ "menu" \in GuiPages
  BY DEF Cancel, GuiPages
<1>2. config' \in Config
  BY RestoredFields DEF Cancel, TypesInv
<1>3. DeviceTypes'
  <2>1. CASE page \in Axes \cup {"configurator"}
    BY <1>2, <2>1, DeviceTyped, SentChanges, RaisedChanges DEF Cancel
  <2>2. CASE page \notin Axes \cup {"configurator"}
    BY <2>2, DeviceTyped DEF Cancel, DeviceTypes, device
  <2>3. QED
    BY <2>1, <2>2
<1>4. search' = NoSearch \/ (search' = search /\ ~search.active)
  BY DEF Cancel, PageInv
<1>5. QED
  BY <1>1, <1>2, <1>3, <1>4, SetPageTypes, PageTypes DEF TypesInv

\* Every handler of the window keeps types and pages.
LEMMA GuiTypes ==
  ASSUME TypesInv, PageInv, StartGui \/ NextGui
  PROVE  TypesInv' /\ PageInv'
<1>0. config \in Config /\ config.profile \in {"own"} \cup Profiles
  BY Fields DEF TypesInv
<1>1. CASE StartGui
  <2>1. /\ program = "none" /\ program' = "gui" /\ page' = "menu" /\ config' = ram.appconf
        /\ noise' = Working
        /\ UNCHANGED <<ram, stored, fails, opened, restore, hasty, search, profile, timers, peak>>
    BY <1>1 DEF StartGui
  <2>2. config' \in Config /\ noise' \in BOOLEAN
    BY <2>1, Readings DEF TypesInv, Configurations
  <2>3. ~search.active /\ page' \in GuiPages
    BY <2>1 DEF PageInv, GuiPages
  <2>4. TypesInv'
    BY <2>1, <2>2 DEF TypesInv, device
  <2>5. PageInv'
    BY <2>1, <2>3 DEF PageInv, GuiPages
  <2>6. QED
    BY <2>4, <2>5
<1>2. CASE program = "gui" /\ Poll
  BY <1>2, PollTypes
<1>3. CASE program = "gui" /\ PollFails
  <2>1. /\ UNCHANGED <<ram, stored, session, config, search, profile, noise, peak>>
        /\ timers' = [young |-> 0, due |-> timers.young + timers.due]
        /\ fails' = fails + 1 /\ fails < MaxFails
    BY <1>3 DEF PollFails
  <2>2. timers' \in [young : Nat, due : Nat] /\ timers'.young + timers'.due <= MaxTimers
    BY <2>1 DEF TypesInv
  <2>3. fails' \in 0..MaxFails
    BY <2>1, TypesAssumption DEF TypesInv
  <2>4. TypesInv'
    BY <2>1, <2>2, <2>3 DEF TypesInv, session
  <2>5. PageInv'
    BY <1>3, <2>1 DEF PageInv, session
  <2>6. QED
    BY <2>4, <2>5
<1>4. CASE program = "gui" /\ CheckCandidate
  BY <1>4, SearchTypes
<1>5. CASE program = "gui" /\ MenuPage
  BY <1>5, MenuTypes
<1>6. CASE program = "gui" /\ ConfiguratorPage
  <2>1. CASE StartSearch
    BY <1>6, <2>1, SearchTypes DEF ConfiguratorPage
  <2>2. ASSUME NEW p \in Profiles, ChooseProfile(p) PROVE TypesInv' /\ PageInv'
    <3>1. /\ profile' = p /\ config' = Profiled(config, p)
          /\ UNCHANGED <<device, session, search, timers, noise, peak>>
      BY <2>2 DEF ChooseProfile
    <3>2. config' \in Config
      BY <1>0, <3>1, ProfiledFields
    <3>3. page' = "configurator" /\ page' \in GuiPages /\ program' = "gui"
      BY <1>6, <3>1 DEF ConfiguratorPage, session, GuiPages
    <3>4. QED
      BY <1>6, <3>1, <3>2, <3>3, PageTypes DEF TypesInv, DeviceTypes, device, session
  <2>3. CASE SaveConfigurator
    <3>1. hasty' \in BOOLEAN /\ "menu" \in GuiPages /\ ~search.active
          /\ Commit(config, TRUE, "menu")
      BY <2>3 DEF SaveConfigurator, TypesInv, GuiPages
    <3>2. QED
      BY <1>0, <1>6, <3>1, CommitTypes
  <2>4. QED
    BY <1>6, <2>1, <2>2, <2>3 DEF ConfiguratorPage
<1>7. CASE program = "gui" /\ SaveGyro
  <2>1. /\ hasty' \in BOOLEAN /\ "menu" \in GuiPages /\ ~search.active
        /\ Commit(Calibrated(config, "gyro", Reading("gyro")), TRUE, "menu")
    BY <1>7 DEF SaveGyro, TypesInv, PageInv, GuiPages
  <2>2. Calibrated(config, "gyro", Reading("gyro")) \in Config
    BY <1>0, Readings, CalibratedFields DEF TypesInv, Sensors
  <2>3. QED
    BY <1>7, <2>1, <2>2, CommitTypes
<1>8. CASE program = "gui" /\ AccelPage
  BY <1>8, AccelTypes
<1>9. CASE program = "gui" /\ OrientationPage
  BY <1>9, OrientationTypes
<1>10. CASE program = "gui" /\ Cancel
  BY <1>10, CancelTypes
<1>11. CASE program = "gui" /\ CloseWindow
  <2>1. /\ program' = "over" /\ SetPage("menu") /\ search' = NoSearch
        /\ timers' = [young |-> 0, due |-> 0]
        /\ UNCHANGED <<device, config, hasty, noise>>
    BY <1>11 DEF CloseWindow
  <2>2. /\ opened' \in Config /\ restore' \in Calibration
        /\ profile' \in Profiles /\ peak' \in [Accel -> Int]
    BY <2>1, SetPageTypes
  <2>3. /\ search' \in [active : BOOLEAN, candidate : Nat, app : {"user", "off", "none"}]
        /\ ~search'.active
    BY <2>1 DEF NoSearch
  <2>4. timers' \in [young : Nat, due : Nat] /\ timers'.young + timers'.due <= MaxTimers
    BY <2>1, TypesAssumption
  <2>5. TypesInv'
    BY <2>1, <2>2, <2>3, <2>4 DEF TypesInv, device
  <2>6. PageInv'
    BY <2>1, <2>3 DEF PageInv
  <2>7. QED
    BY <2>5, <2>6
<1>12. QED
  BY <1>1, <1>2, <1>3, <1>4, <1>5, <1>6, <1>7, <1>8, <1>9, <1>10, <1>11 DEF NextGui

WizardPages == {"basic", "try", "sample", "profile", "gyro", "ready"} \cup Accel \cup Axes

SearchTyped ==
  /\ search \in [active : BOOLEAN, candidate : Nat, app : {"user", "off", "none"}]
  /\ search.active => search.candidate \in Types /\ search.app # "none"

\* The wizard goes on to a page, or is over.
GoesTo(step) == (program' = "wizard" /\ page' = step /\ step # "over") \/ program' = "over"

\* _continue leads to the step it names, and to the end only when it names it.
LEMMA ContinueGoes ==
  ASSUME program = "wizard", NEW step, Continue(step)
  PROVE  GoesTo(step) /\ (program' = "over" <=> step = "over")
BY DEF Continue, Ends, GoesTo

\* A write that leads to the next step leaves the types and names where the wizard goes.
LEMMA ThenTypes ==
  ASSUME TypesInv, program = "wizard", NEW c \in Config, NEW store, NEW step,
         WriteThen(c, store, step)
  PROVE  config' = c /\ config' \in Config /\ DeviceTypes' /\ GoesTo(step)
<1>1. config' = c /\ config' \in Config
  BY DEF WriteThen
<1>2. CASE Sent("appconf", c, store) /\ Continue(step)
  BY <1>1, <1>2, DeviceTyped, SentChanges, ContinueGoes
<1>3. CASE WriteRaises("appconf", c, store) /\ Ends
  BY <1>1, <1>3, DeviceTyped, RaisedChanges DEF Ends, GoesTo
<1>4. QED
  BY <1>2, <1>3 DEF WriteThen

\* A step that leaves the device and the records typed keeps the invariant of types and pages.
LEMMA StepTypes ==
  ASSUME TypesInv, PageInv, program = "wizard",
         DeviceTypes', config' \in Config, opened' \in Config, restore' \in Calibration,
         hasty' \in BOOLEAN, UNCHANGED gui, SearchTyped',
         NEW step \in WizardPages \cup {"over"}, GoesTo(step),
         step \in {"try", "sample"} <=> search'.active
  PROVE  TypesInv' /\ PageInv'
<1>1. UNCHANGED <<profile, timers, peak, noise>>
  BY DEF gui
<1>2. program' \in {"wizard", "over"} /\ (program' = "wizard" => page' = step)
  BY DEF GoesTo
<1>3. TypesInv'
  BY <1>1, <1>2 DEF TypesInv, DeviceTypes, SearchTyped
<1>4. PageInv'
  <2>1. program' = "wizard" => page' \in WizardPages
    BY <1>2 DEF GoesTo
  <2>2. QED
    BY <1>1, <1>2, <2>1 DEF PageInv, WizardPages
<1>5. QED
  BY <1>3, <1>4

\* A choice in the wizard, a wrong one included, leads on or stays where it was.
LEMMA WizardChoices ==
  ASSUME TypesInv, PageInv, program = "wizard", NEW next \in WizardPages, NEW choice,
         Choose(choice, next), page \notin {"try", "sample"}
  PROVE  \E step \in {page, next} : GoesTo(step)
<1>1. CASE choice = "retry"
  BY <1>1 DEF Choose, Stay, GoesTo, PageInv, Accel, Axes
<1>2. CASE choice # "retry"
  BY <1>2, ContinueGoes DEF Choose
<1>3. QED
  BY <1>1, <1>2

\* The steps that set type and profile.
LEMMA BasicTypes ==
  ASSUME TypesInv, PageInv,
         \/ TryType \/ SampleType \/ StoreBasic \/ DiscardBasic
         \/ \E s \in BOOLEAN : BeginBasic(s)
  PROVE  TypesInv' /\ PageInv'
<1>0. /\ config \in Config /\ opened \in Config /\ restore \in Calibration /\ hasty \in BOOLEAN
      /\ config.app \in {"user", "off"}
      /\ SearchTyped /\ DeviceTypes
  BY Fields DEF TypesInv, SearchTyped, DeviceTypes
<1>1. CASE TryType
  <2>1. program = "wizard" /\ page = "try" /\ search.active /\ UNCHANGED others
    BY <1>1 DEF TryType, WizardAt, PageInv
  <2>2. [config EXCEPT !.type = search.candidate] \in Config
    BY <1>0, <2>1 DEF SearchTyped, Config
  <2>3. config' \in Config /\ DeviceTypes' /\ GoesTo("sample")
    BY <1>1, <2>1, <2>2, ThenTypes DEF TryType
  <2>4. "sample" \in WizardPages /\ UNCHANGED <<gui, opened, restore, hasty>> /\ search' = search
    BY <2>1 DEF WizardPages, others
  <2>5. QED
    BY <1>0, <2>1, <2>3, <2>4, StepTypes DEF SearchTyped
<1>2. CASE SampleType
  <2>1. program = "wizard" /\ page = "sample" /\ search.active
        /\ UNCHANGED <<opened, restore, hasty, gui>>
    BY <1>2 DEF SampleType, WizardAt, PageInv
  <2>2. search.candidate \in Types /\ search.app \in {"user", "off"}
    BY <1>0, <2>1 DEF SearchTyped
  <2>3. CASE ~Working /\ search.candidate + 1 \in Types
    <3>1. /\ search' = [search EXCEPT !.candidate = search.candidate + 1]
          /\ page' = "try" /\ UNCHANGED <<device, program, config>>
      BY <1>2, <2>3 DEF SampleType
    <3>2. SearchTyped' /\ search'.active
      <4>1. search.candidate + 1 \in Nat
        BY <2>2 DEF Types
      <4>2. QED
        BY <1>0, <2>1, <2>3, <3>1, <4>1 DEF SearchTyped
    <3>3. GoesTo("try") /\ "try" \in WizardPages /\ DeviceTypes'
      BY <1>0, <2>1, <3>1 DEF GoesTo, WizardPages, DeviceTypes, device
    <3>4. QED
      BY <1>0, <2>1, <3>1, <3>2, <3>3, StepTypes
  <2>4. CASE ~(~Working /\ search.candidate + 1 \in Types)
    <3> DEFINE n == IF Working THEN search.candidate ELSE 0
               c == [config EXCEPT !.type = n, !.app = search.app]
    <3>1. search' = NoSearch /\ WriteThen(c, FALSE, "profile")
      BY <1>2, <2>4 DEF SampleType
    <3>2. c \in Config
      BY <1>0, <2>2 DEF Config
    <3> HIDE DEF c
    <3>3. config' \in Config /\ DeviceTypes' /\ GoesTo("profile")
      BY <2>1, <3>1, <3>2, ThenTypes
    <3>4. SearchTyped' /\ ~search'.active
      BY <3>1 DEF SearchTyped, NoSearch
    <3>5. "profile" \in WizardPages
      BY DEF WizardPages
    <3>6. QED
      BY <1>0, <2>1, <3>3, <3>4, <3>5, StepTypes
  <2>5. QED
    BY <2>3, <2>4
<1>3. CASE StoreBasic
  <2>1. /\ program = "wizard" /\ page = "profile" /\ ~search.active
        /\ UNCHANGED <<gui, opened, restore, search, hasty>>
    BY <1>3 DEF StoreBasic, WizardAt, PageInv, others
  <2>2. PICK c \in Config : WriteThen(c, TRUE, "gyro")
    BY <1>0, <1>3, ProfiledFields DEF StoreBasic
  <2>3. config' \in Config /\ DeviceTypes' /\ GoesTo("gyro")
    BY <2>1, <2>2, ThenTypes
  <2>4. "gyro" \in WizardPages
    BY DEF WizardPages
  <2>5. QED
    BY <1>0, <2>1, <2>3, <2>4, StepTypes DEF SearchTyped
<1>4. CASE DiscardBasic
  <2>1. /\ program = "wizard" /\ page = "profile" /\ ~search.active
        /\ UNCHANGED <<gui, opened, restore, search, hasty>>
    BY <1>4 DEF DiscardBasic, WizardAt, PageInv, others
  <2>2. config' \in Config /\ DeviceTypes' /\ GoesTo("gyro")
    BY <1>0, <1>4, <2>1, ThenTypes DEF DiscardBasic
  <2>3. "gyro" \in WizardPages
    BY DEF WizardPages
  <2>4. QED
    BY <1>0, <2>1, <2>2, <2>3, StepTypes DEF SearchTyped
<1>5. ASSUME NEW s \in BOOLEAN, BeginBasic(s) PROVE TypesInv' /\ PageInv'
  <2>1. /\ program = "wizard" /\ page = "basic" /\ ~search.active /\ opened' = config
        /\ UNCHANGED <<device, program, restore, hasty, gui>>
    BY <1>5 DEF BeginBasic, WizardAt, PageInv
  <2>2. DeviceTypes' /\ opened' \in Config
    BY <1>0, <2>1 DEF DeviceTypes, device
  <2>3. CASE s
    <3>1. /\ page' = "try" /\ search' = [active |-> TRUE, candidate |-> 1, app |-> config.app]
          /\ config' = [config EXCEPT !.app = "off"]
      BY <1>5, <2>3 DEF BeginBasic
    <3>2. SearchTyped' /\ search'.active
      BY <1>0, <3>1, TypesAssumption DEF SearchTyped, Types
    <3>3. config' \in Config
      BY <1>0, <3>1 DEF Config
    <3>4. GoesTo("try") /\ "try" \in WizardPages
      BY <2>1, <3>1 DEF GoesTo, WizardPages
    <3>5. QED
      BY <1>0, <2>1, <2>2, <3>2, <3>3, <3>4, StepTypes
  <2>4. CASE ~s
    <3>1. page' = "profile" /\ UNCHANGED <<search, config>>
      BY <1>5, <2>4 DEF BeginBasic
    <3>2. GoesTo("profile") /\ "profile" \in WizardPages /\ SearchTyped' /\ ~search'.active
      BY <1>0, <2>1, <3>1 DEF GoesTo, WizardPages, SearchTyped
    <3>3. QED
      BY <1>0, <2>1, <2>2, <3>1, <3>2, StepTypes
  <2>5. QED
    BY <2>3, <2>4
<1>6. QED
  BY <1>1, <1>2, <1>3, <1>4, <1>5

\* The calibration steps.
LEMMA CalibrationTypes ==
  ASSUME TypesInv, PageInv, WizardGyro \/ WizardAccel
  PROVE  TypesInv' /\ PageInv'
<1>0. /\ config \in Config /\ opened \in Config /\ restore \in Calibration /\ hasty \in BOOLEAN
      /\ program = "wizard" /\ page \in {"gyro"} \cup Accel /\ ~search.active
      /\ UNCHANGED <<gui, opened, restore, search>>
      /\ SearchTyped /\ DeviceTypes
  BY DEF TypesInv, SearchTyped, DeviceTypes, WizardGyro, WizardAccel, WizardAt, PageInv,
     Accel
<1>1. /\ page \in Sensors /\ page \in WizardPages /\ page \notin {"try", "sample"}
      /\ Calibrated(config, page, Sampled(page)) \in Config
  <2>1. page \in Sensors /\ page \in WizardPages /\ page \notin {"try", "sample"}
    BY <1>0 DEF Sensors, WizardPages, Accel
  <2>2. Sampled(page) \in Int
    BY <2>1, Readings DEF Sampled, TypesInv
  <2>3. QED
    BY <1>0, <2>1, <2>2, CalibratedFields
<1>2. ASSUME NEW next \in WizardPages, NEW choice, Choose(choice, next),
             next \notin {"try", "sample"}
      PROVE  TypesInv' /\ PageInv'
  <2>1. PICK step \in {page, next} : GoesTo(step)
    BY <1>0, <1>1, <1>2, WizardChoices
  <2>2. UNCHANGED <<device, config, hasty>>
    BY <1>2 DEF Choose
  <2>3. DeviceTypes' /\ SearchTyped'
    BY <1>0, <2>2 DEF DeviceTypes, device, SearchTyped
  <2>4. QED
    BY <1>0, <1>1, <1>2, <2>1, <2>2, <2>3, StepTypes
<1>3. ASSUME NEW next \in WizardPages, next \notin {"try", "sample"}, hasty' \in BOOLEAN,
             WriteThen(Calibrated(config, page, Sampled(page)), TRUE, next)
      PROVE  TypesInv' /\ PageInv'
  <2>1. config' \in Config /\ DeviceTypes' /\ GoesTo(next)
    BY <1>0, <1>1, <1>3, ThenTypes
  <2>2. SearchTyped'
    BY <1>0 DEF SearchTyped
  <2>3. QED
    BY <1>0, <1>3, <2>1, <2>2, StepTypes
<1>4. CASE WizardGyro
  <2>1. page = "gyro" /\ "x" \in WizardPages
    BY <1>4 DEF WizardGyro, WizardAt, WizardPages, Accel
  <2>2. PICK choice \in StepChoice :
          \/ Choose(choice, "x")
          \/ choice = "save" /\ WriteThen(Calibrated(config, "gyro", Sampled("gyro")), TRUE, "x")
                             /\ UNCHANGED hasty
    BY <1>4 DEF WizardGyro
  <2>3. QED
    BY <1>0, <1>2, <1>3, <2>1, <2>2
<1>5. CASE WizardAccel
  <2> DEFINE next == IF page = "z" THEN "ready" ELSE NextPage[page]
  <2>1. /\ next \in WizardPages /\ next \notin {"try", "sample"}
        /\ "ready" \in WizardPages /\ page \in Accel
    BY <1>5, NextPages DEF WizardAccel, WizardPages, Accel
  <2>2. PICK choice \in StepChoice :
          \/ Choose(choice, IF choice = "cancel" THEN "ready" ELSE next)
          \/ choice = "save" /\ WriteThen(Calibrated(config, page, Sampled(page)), TRUE, next)
                             /\ SaveMeasured(Working)
    BY <1>5 DEF WizardAccel
  <2> HIDE DEF next
  <2>3. SaveMeasured(Working) => hasty' \in BOOLEAN
    BY <1>0 DEF SaveMeasured
  <2>4. QED
    BY <1>2, <1>3, <2>1, <2>2, <2>3
<1>6. QED
  BY <1>4, <1>5

\* The steps of the orientation.
LEMMA OrientTypes ==
  ASSUME TypesInv, PageInv,
         \/ BeginOrientation \/ RollOrientation \/ PitchOrientation \/ YawOrientation
         \/ LeaveOrientation \/ InterruptedStore
  PROVE  TypesInv' /\ PageInv'
<1>0. /\ config \in Config /\ opened \in Config /\ restore \in Calibration /\ hasty \in BOOLEAN
      /\ SearchTyped /\ DeviceTypes
  BY DEF TypesInv, SearchTyped, DeviceTypes
<1>1. /\ program = "wizard" /\ page \in {"ready"} \cup Axes /\ ~search.active
      /\ UNCHANGED <<gui, search>>
      /\ SearchTyped' /\ ~search'.active
  <2>1. program = "wizard" /\ page \in {"ready"} \cup Axes /\ UNCHANGED <<gui, search>>
    BY DEF BeginOrientation, RollOrientation, PitchOrientation, YawOrientation, Orient,
       LeaveOrientation, InterruptedStore, WizardAt, Axes, others
  <2>2. QED
    BY <1>0, <2>1 DEF PageInv, Axes, SearchTyped
<1>2. /\ "roll" \in WizardPages /\ "pitch" \in WizardPages /\ "yaw" \in WizardPages
      /\ \A a \in Axes : Angle(a) \in Int /\ restore.rot[a] \in Int
  BY Readings DEF WizardPages, Axes, TypesInv, Calibration, Rotations
<1>3. CASE BeginOrientation
  <2>1. restore' = RestoreOf(config) /\ opened' = config /\ UNCHANGED hasty
    BY <1>3 DEF BeginOrientation
  <2>2. restore' \in Calibration
    BY <1>0, <2>1, RestoreFields
  <2>3. CASE WriteThen(Prepared(config), FALSE, "roll")
    <3>1. config' \in Config /\ DeviceTypes' /\ GoesTo("roll")
      BY <1>0, <1>1, <2>3, ThenTypes, PreparedFields
    <3>2. QED
      BY <1>0, <1>1, <1>2, <2>1, <2>2, <3>1, StepTypes
  <2>4. CASE Ends /\ UNCHANGED <<device, config>>
    <3>1. config' \in Config /\ DeviceTypes' /\ GoesTo("over")
      BY <1>0, <2>4 DEF Ends, GoesTo, DeviceTypes, device
    <3>2. QED
      BY <1>0, <1>1, <2>1, <2>2, <3>1, StepTypes
  <2>5. QED
    BY <1>3, <2>3, <2>4 DEF BeginOrientation
<1>4. ASSUME NEW axis \in Axes, NEW store, NEW next \in WizardPages \cup {"over"},
             next \notin {"try", "sample"}, Orient(axis, store, next)
      PROVE  TypesInv' /\ PageInv'
  <2>1. PICK angle \in Int : WriteThen(Turned(config, axis, angle), store, next)
        /\ hasty' \in BOOLEAN
    BY <1>0, <1>2, <1>4 DEF Orient
  <2>2. config' \in Config /\ DeviceTypes' /\ GoesTo(next)
    BY <1>0, <1>1, <2>1, TurnedFields, ThenTypes
  <2>3. UNCHANGED <<opened, restore>>
    BY <1>4 DEF Orient
  <2>4. QED
    BY <1>0, <1>1, <1>4, <2>1, <2>2, <2>3, StepTypes
<1>5. CASE RollOrientation
  BY <1>2, <1>4, <1>5 DEF RollOrientation, Axes
<1>6. CASE PitchOrientation
  BY <1>2, <1>4, <1>6 DEF PitchOrientation, Axes
<1>7. CASE YawOrientation
  BY <1>4, <1>7 DEF YawOrientation, Axes
<1>8. CASE LeaveOrientation
  <2>1. WriteThen(Restored(config, restore), FALSE, "over")
        /\ UNCHANGED <<opened, restore, hasty>>
    BY <1>8 DEF LeaveOrientation, others
  <2>2. config' \in Config /\ DeviceTypes' /\ GoesTo("over")
    BY <1>0, <1>1, <2>1, ThenTypes, RestoredFields
  <2>3. QED
    BY <1>0, <1>1, <2>1, <2>2, StepTypes
<1>9. CASE InterruptedStore
  <2>1. PICK angle \in Int :
             /\ stored' = [stored EXCEPT !["appconf"] = Turned(config, "yaw", angle)]
             /\ \E c \in {config', Turned(config, "yaw", angle)} :
                  ram' = [ram EXCEPT !["appconf"] = c]
    BY <1>2, <1>9 DEF InterruptedStore, Axes
  <2>2. /\ config' = Restored(config, restore)
        /\ hasty' \in BOOLEAN /\ GoesTo("over") /\ UNCHANGED <<opened, restore>>
    BY <1>9 DEF InterruptedStore, Ends, GoesTo
  <2>3. config' \in Config
    BY <1>0, <2>2, RestoredFields
  <2>4. DeviceTypes'
    <3>1. Turned(config, "yaw", angle) \in Config
      BY <1>0, TurnedFields DEF Axes
    <3>2. PICK c \in Config : ram' = [ram EXCEPT !["appconf"] = c]
      BY <2>1, <2>3, <3>1
    <3>3. fails' \in 0..MaxFails
      BY <1>0, <1>9, TypesAssumption DEF InterruptedStore, MayBeLost, Command, DeviceTypes
    <3>4. QED
      BY <1>0, <2>1, <3>1, <3>2, <3>3, WithAppconf DEF DeviceTypes
  <2>5. QED
    BY <1>0, <1>1, <2>2, <2>3, <2>4, StepTypes
<1>10. QED
  BY <1>3, <1>5, <1>6, <1>7, <1>8, <1>9

\* Every step of the wizard keeps types and pages.
LEMMA WizardTypes ==
  ASSUME TypesInv, PageInv, StartWizard \/ NextWizard
  PROVE  TypesInv' /\ PageInv'
<1>0. /\ config \in Config /\ opened \in Config /\ restore \in Calibration /\ hasty \in BOOLEAN
      /\ SearchTyped /\ DeviceTypes
  BY DEF TypesInv, SearchTyped, DeviceTypes
<1>1. CASE StartWizard
  <2>1. /\ program = "none" /\ program' = "wizard" /\ page' = "basic" /\ config' = ram.appconf
        /\ UNCHANGED <<ram, stored, fails, gui, opened, restore, search, hasty>>
    BY <1>1 DEF StartWizard, others
  <2>2. config' \in Config
    BY <2>1 DEF TypesInv, Configurations
  <2>3. TypesInv'
    BY <2>1, <2>2 DEF TypesInv, device, gui
  <2>4. PageInv'
    BY <2>1 DEF PageInv, gui
  <2>5. QED
    BY <2>3, <2>4
<1>2. CASE LeaveOut
  <2>1. /\ program = "wizard" /\ page \in {"basic", "gyro", "x"} /\ ~search.active
        /\ UNCHANGED <<device, config, gui, opened, restore, search, hasty>>
    BY <1>2 DEF LeaveOut, PageInv, others
  <2>2. PICK step \in {"gyro", "x", "ready"} : Continue(step)
    BY <1>2, <2>1 DEF LeaveOut
  <2>3. GoesTo(step) /\ step \in WizardPages /\ step \notin {"try", "sample"}
    BY <2>1, <2>2, ContinueGoes DEF WizardPages, Accel
  <2>4. DeviceTypes' /\ SearchTyped'
    BY <1>0, <2>1 DEF DeviceTypes, device, SearchTyped
  <2>5. QED
    BY <1>0, <2>1, <2>3, <2>4, StepTypes
<1>3. CASE Interrupted
  <2>1. /\ program = "wizard" /\ program' = "over" /\ page' = "none"
        /\ UNCHANGED <<ram, stored, config, gui, opened, restore, search, hasty>>
        /\ fails' \in {fails, fails + 1}
        /\ (fails' = fails + 1 => fails < MaxFails \/ fails' = fails)
    BY <1>3 DEF Interrupted, Ends, others
  <2>2. fails' \in 0..MaxFails
    BY <2>1, TypesAssumption DEF TypesInv
  <2>3. TypesInv'
    BY <2>1, <2>2 DEF TypesInv, gui
  <2>4. PageInv'
    BY <2>1 DEF PageInv, gui
  <2>5. QED
    BY <2>3, <2>4
<1>4. QED
  BY <1>1, <1>2, <1>3, BasicTypes, CalibrationTypes, OrientTypes DEF NextWizard

\* Nor does the editor change anything it does not load.
LEMMA TuiTypes ==
  ASSUME TypesInv, PageInv, DeviceTypes', UNCHANGED <<editor, gui>>, program \in {"none", "tui"},
         \/ program' = "tui" /\ page' = "editor"
         \/ program' = "over"
  PROVE  TypesInv' /\ PageInv'
<1>1. TypesInv'
  BY DEF TypesInv, DeviceTypes, editor, gui
<1>2. PageInv'
  BY DEF PageInv, editor, gui
<1>3. QED
  BY <1>1, <1>2

-----------------------------------------------------------------------------
(* Losses.                                                                 *)

\* Where nothing is written, what is known of losses stays.
LEMMA NothingHeard ==
  ASSUME LossInv, DeviceTypes, UNCHANGED <<lost, late>>, waits' \in BOOLEAN,
         fails' \in {fails, fails + 1}
  PROVE  Hears
<1>1. fails \in Nat
  BY DEF DeviceTypes
<1>2. QED
  BY <1>1 DEF LossInv, Hears

\* So it is in a handler that leaves the device alone.
LEMMA DeviceKeeps ==
  ASSUME LossInv, DeviceTypes, UNCHANGED device
  PROVE  Hears
BY NothingHeard DEF device, LossInv

\* The end of a search, and its next candidate.
LEMMA SearchHears ==
  ASSUME LossInv, DeviceTypes, NEW c, NEW n, NEW app, NEW due,
         FinishSearch(c, n, app, due) \/ TryCandidate(c, n, app, due)
  PROVE  Hears
<1>1. ASSUME NEW m, FinishSearch(c, m, app, due) PROVE Hears
  BY <1>1, WritesHear DEF FinishSearch
<1>2. CASE TryCandidate(c, n, app, due)
  BY <1>1, <1>2, WritesHear DEF TryCandidate
<1>3. QED
  BY <1>1, <1>2

\* In the window nothing that was lost, or guessed, is forgotten.
LEMMA GuiHears ==
  ASSUME LossInv, TypesInv, StartGui \/ NextGui
  PROVE  Hears /\ (hasty => hasty')
<1>0. DeviceTypes /\ waits \in BOOLEAN
  BY DeviceTyped DEF LossInv
<1>1. CASE StartGui
  BY <1>0, <1>1, NothingHeard DEF StartGui
<1>2. CASE Poll
  BY <1>0, <1>2, DeviceKeeps DEF Poll, session
<1>3. CASE PollFails
  BY <1>0, <1>3, NothingHeard DEF PollFails, session
<1>4. CASE CheckCandidate \/ StartSearch
  <2>1. UNCHANGED hasty
    BY <1>4 DEF CheckCandidate, StartSearch, session
  <2>2. \/ UNCHANGED device
        \/ \E c, n, app, due : FinishSearch(c, n, app, due) \/ TryCandidate(c, n, app, due)
    BY <1>4 DEF CheckCandidate, StartSearch
  <2>3. QED
    BY <1>0, <2>1, <2>2, DeviceKeeps, SearchHears
<1>5. CASE MenuPage
  <2>1. CASE OpenOrientation
    BY <1>0, <2>1, WritesHear DEF OpenOrientation
  <2>2. CASE OpenConfigurator \/ OpenGyro \/ OpenAccel
    BY <1>0, <2>2, DeviceKeeps DEF OpenConfigurator, OpenGyro, OpenAccel
  <2>3. QED
    BY <1>5, <2>1, <2>2 DEF MenuPage
<1>6. ASSUME NEW c, NEW store, NEW next, Commit(c, store, next) PROVE Hears
  BY <1>0, <1>6, WritesHear DEF Commit
<1>7. CASE ConfiguratorPage
  <2>1. ASSUME NEW p \in Profiles, ChooseProfile(p) PROVE Hears /\ UNCHANGED hasty
    BY <1>0, <2>1, DeviceKeeps DEF ChooseProfile, session
  <2>2. CASE SaveConfigurator
    BY <1>6, <2>2 DEF SaveConfigurator
  <2>3. QED
    BY <1>4, <1>7, <2>1, <2>2 DEF ConfiguratorPage
<1>8. CASE SaveGyro
  BY <1>6, <1>8 DEF SaveGyro
<1>9. CASE AccelPage
  <2>1. CASE SaveAccel
    BY <1>6, <2>1 DEF SaveAccel, SaveMeasured
  <2>2. CASE SkipAccel \/ ClearMax
    BY <1>0, <2>2, DeviceKeeps DEF SkipAccel, ClearMax, session
  <2>3. QED
    BY <1>9, <2>1, <2>2 DEF AccelPage
<1>10. CASE OrientationPage
  <2>1. CASE SaveOrientation
    BY <1>6, <2>1 DEF SaveOrientation
  <2>2. CASE SkipOrientation
    BY <1>6, <2>2 DEF SkipOrientation
  <2>3. QED
    BY <1>10, <2>1, <2>2 DEF OrientationPage
<1>11. CASE Cancel
  <2>1. \/ UNCHANGED device
        \/ Sent("appconf", config', FALSE) \/ WriteRaises("appconf", config', FALSE)
    BY <1>11 DEF Cancel
  <2>2. UNCHANGED hasty
    BY <1>11 DEF Cancel
  <2>3. QED
    BY <1>0, <2>1, <2>2, DeviceKeeps, WritesHear
<1>12. CASE CloseWindow
  BY <1>0, <1>12, DeviceKeeps DEF CloseWindow
<1>13. QED
  BY <1>1, <1>2, <1>3, <1>4, <1>5, <1>7, <1>8, <1>9, <1>10, <1>11, <1>12 DEF NextGui

\* Nor in the wizard.
LEMMA WizardHears ==
  ASSUME LossInv, TypesInv, StartWizard \/ NextWizard
  PROVE  Hears /\ (hasty => hasty')
<1>0. DeviceTypes /\ waits \in BOOLEAN
  BY DeviceTyped DEF LossInv
<1>1. ASSUME NEW c, NEW store, NEW step, WriteThen(c, store, step) PROVE Hears
  BY <1>0, <1>1, WritesHear DEF WriteThen
<1>2. CASE StartWizard
  BY <1>0, <1>2, NothingHeard DEF StartWizard, others
<1>3. CASE LeaveOut \/ \E s \in BOOLEAN : BeginBasic(s)
  BY <1>0, <1>3, DeviceKeeps DEF LeaveOut, BeginBasic, others
<1>4. CASE TryType \/ StoreBasic \/ DiscardBasic \/ LeaveOrientation
  <2>1. \E c, store, step : WriteThen(c, store, step)
    BY <1>4 DEF TryType, StoreBasic, DiscardBasic, LeaveOrientation
  <2>2. UNCHANGED hasty
    BY <1>4 DEF TryType, StoreBasic, DiscardBasic, LeaveOrientation, others
  <2>3. QED
    BY <1>1, <2>1, <2>2
<1>5. CASE SampleType
  <2>1. UNCHANGED device \/ \E c : WriteThen(c, FALSE, "profile")
    BY <1>5 DEF SampleType
  <2>2. UNCHANGED hasty
    BY <1>5 DEF SampleType
  <2>3. QED
    BY <1>0, <1>1, <2>1, <2>2, DeviceKeeps
<1>6. CASE WizardGyro \/ WizardAccel
  <2>1. UNCHANGED device \/ \E c, step : WriteThen(c, TRUE, step)
    BY <1>6 DEF WizardGyro, WizardAccel, Choose
  <2>2. hasty => hasty'
    BY <1>6 DEF WizardGyro, WizardAccel, Choose, SaveMeasured
  <2>3. QED
    BY <1>0, <1>1, <2>1, <2>2, DeviceKeeps
<1>7. CASE BeginOrientation
  BY <1>0, <1>1, <1>7, DeviceKeeps DEF BeginOrientation
<1>8. ASSUME NEW axis, NEW store, NEW next, Orient(axis, store, next)
      PROVE  Hears /\ (hasty => hasty')
  <2>1. \E c : WriteThen(c, store, next)
    BY <1>8 DEF Orient
  <2>2. hasty => hasty'
    BY <1>8 DEF Orient
  <2>3. QED
    BY <1>1, <2>1, <2>2
<1>9. CASE InterruptedStore
  <2>1. /\ lost' \in {"open", Mended} /\ UNCHANGED <<late, waits>>
        /\ fails' \in {fails, fails + 1}
        /\ hasty' = (hasty \/ ~Working)
    BY <1>9 DEF InterruptedStore
  <2>2. fails \in Nat
    BY <1>0 DEF DeviceTypes
  <2>3. Hears
    BY <2>1, <2>2 DEF Hears, LossInv, Mended
  <2>4. QED
    BY <2>1, <2>3
<1>10. CASE Interrupted
  <2>1. UNCHANGED <<lost, late, waits, hasty>> /\ fails' \in {fails, fails + 1}
    BY <1>10 DEF Interrupted, others
  <2>2. QED
    BY <1>0, <2>1, NothingHeard
<1>11. QED
  BY <1>2, <1>3, <1>4, <1>5, <1>6, <1>7, <1>8, <1>9, <1>10
     DEF NextWizard, RollOrientation, PitchOrientation, YawOrientation

\* Nor in the editor, whose Apply may hear a late acknowledgement.
LEMMA TuiHears ==
  ASSUME LossInv, TypesInv, entries \subseteq Kinds, NextTui
  PROVE  Hears /\ (hasty => hasty')
<1>0. DeviceTypes /\ waits \in BOOLEAN /\ fails \in Nat
  BY DeviceTyped DEF LossInv, DeviceTypes
<1>1. ASSUME NEW kinds \in Loadable, Load(kinds) PROVE Hears /\ UNCHANGED hasty
  BY <1>0, <1>1, NothingHeard DEF Load, editor
<1>2. CASE UNCHANGED <<device, editor>>
  BY <1>0, <1>2, DeviceKeeps DEF editor
<1>3. ASSUME NEW kind, NEW value, CommitValue(kind, value) PROVE UNCHANGED <<device, editor>>
  BY <1>3 DEF CommitValue
<1>4. \A kind : Command(kind, TRUE) \in SetCommands
  BY DEF Command, SetCommands
<1>5. ASSUME NEW kinds, NEW answered, Stores(kinds, answered) PROVE lost' \in {lost, "open"}
  BY <1>5 DEF Stores
<1>6. CASE Apply \/ ApplyRefused
  <2>1. UNCHANGED <<fails, waits, hasty>> /\ late' \subseteq late /\ lost' \in {lost, "open"}
    BY <1>5, <1>6 DEF Apply, ApplyRefused, editor
  <2>2. QED
    BY <1>0, <2>1 DEF Hears, LossInv
<1>7. CASE ApplyRaises
  <2>1. UNCHANGED <<waits, hasty>> /\ lost' \in {lost, "open"} /\ fails' = fails + 1
    BY <1>5, <1>7 DEF ApplyRaises, editor
  <2>2. PICK kind \in Dirty : \E unread \in {late, late \ Heard(Before(kind))} :
             late' \in {unread, unread \cup {Command(kind, TRUE)}}
    BY Zenon, <1>7 DEF ApplyRaises
  <2>3. late' \subseteq late \cup {Command(kind, TRUE)}
    BY <2>2
  <2>4. late' \subseteq SetCommands
    BY Zenon, <1>4, <2>3 DEF LossInv
  <2>5. QED
    BY <1>0, <2>1, <2>4 DEF Hears, LossInv
<1>8. CASE \/ \E text \in InRange : SubmitText(text)
           \/ \E d \in {-1, 1}, m \in {1, 10} : StepSelected(d, m)
           \/ \E bit \in Labelled : CheckBit(bit)
           \/ \E p \in {"own", "logs"} : ChangeEditor(p)
           \/ RevertSelected
  BY <1>2, <1>3, <1>8 DEF SubmitText, StepSelected, CheckBit, ChangeEditor, RevertSelected
<1>9. CASE LoadFails \/ AskRevert \/ AskApply \/ AskQuit \/ Decline \/ RevertAll \/ Quit
  BY <1>2, <1>9 DEF LoadFails, AskRevert, AskApply, AskQuit, Ask, Decline, RevertAll, Quit
<1>10. QED
  BY <1>1, <1>6, <1>7, <1>8, <1>9 DEF NextTui

\* No step forgets a loss, or that something was guessed.
LEMMA LossesKept ==
  ASSUME LossInv, TypesInv, entries \subseteq Kinds, Next
  PROVE  LossInv' /\ (Guessed => Guessed') /\ (hasty => hasty')
         /\ (lost # "none" => lost' # "none")
<1>1. Hears /\ (hasty => hasty')
  BY GuiHears, WizardHears, TuiHears DEF Next
<1>2. QED
  BY <1>1 DEF Hears, LossInv, Guessed

-----------------------------------------------------------------------------
(* The editor.                                                             *)

\* A value the editor may show for a kind.
Showable(kind, value) ==
  /\ kind = "mcconf"  => value \in InRange
  /\ kind = "express" => value \in BitFields
  /\ kind = "appconf" => value \in Config /\ Sound(value)

\* Shown, entry by entry.
LEMMA ShownValues ==
  ASSUME entries \subseteq Kinds, NEW conf
  PROVE  Shown(conf) <=> (DOMAIN conf = entries /\ \A k \in entries : Showable(k, conf[k]))
BY DEF Shown, Showable, Kinds

\* What goes over the wire, and what comes back.
LEMMA Wire ==
  /\ \A v \in InRange : Serialized("mcconf", v) \in Int /\ Serializable("mcconf", v)
  /\ \A v \in BitFields : Serialized("express", v) = v /\ v \in Int
  /\ \A v : Serialized("appconf", v) = v /\ Serializable("appconf", v)
  /\ Deserialized("mcconf", 0) = 0 /\ Serialized("mcconf", 0) = 0
  /\ \A v : Deserialized("express", v) = v /\ Deserialized("appconf", v) = v
<1>1. \A v \in InRange : RoundDouble(v) \in Int /\ RoundDouble(v) \in Int16
  <2> SUFFICES ASSUME NEW v \in InRange PROVE RoundDouble(v) \in {-1, 0, 1}
    <3>1. -1 \in Int16 /\ 0 \in Int16 /\ 1 \in Int16
      BY SMTT(30) DEF Int16
    <3>2. QED
      BY <3>1
  <2>1. v = -1 \/ v = 0 \/ v = 1 \/ v = 2
    BY DEF InRange, Lowest, Highest
  <2>2. RoundDouble(-1) = -1 /\ RoundDouble(0) = 0 /\ RoundDouble(1) = 1 /\ RoundDouble(2) = 1
    BY DEF RoundDouble
  <2>3. QED
    BY <2>1, <2>2
<1>2. RoundDouble(0) = 0
  BY DEF RoundDouble
<1>3. \A v \in BitFields : v % 256 = v /\ v \in Int
  BY DEF BitFields
<1>4. QED
  BY <1>1, <1>2, <1>3 DEF Serialized, Serializable, Deserialized, Packs

\* A record of the three kinds read as a function of them.
LEMMA Kinded ==
  ASSUME NEW m \in Configurations
  PROVE  /\ DOMAIN m = Kinds
         /\ m["appconf"] = m.appconf /\ m["mcconf"] = m.mcconf /\ m["express"] = m.express
BY DEF Configurations, Kinds

\* A write of some kinds changes those.
LEMMA PutKinds ==
  ASSUME NEW m \in Configurations, NEW kinds \in SUBSET entries, entries \subseteq Kinds,
         Shown(current)
  PROVE  /\ Put(m, kinds) \in Configurations
         /\ \A k \in Kinds : Put(m, kinds)[k] = IF k \in kinds THEN Serialized(k, current[k])
                                                               ELSE m[k]
         /\ Sound(m.appconf) => Sound(Put(m, kinds).appconf)
<1> DEFINE p == Put(m, kinds)
<1>1. /\ DOMAIN p = Kinds
      /\ \A k \in Kinds : p[k] = IF k \in kinds THEN Serialized(k, current[k]) ELSE m[k]
  BY Kinded DEF Put
<1> HIDE DEF p
<1>2. "appconf" \in Kinds /\ "mcconf" \in Kinds /\ "express" \in Kinds
  BY DEF Kinds
<1>3. \A k \in kinds : Showable(k, current[k])
  BY ShownValues
<1>4. p["appconf"] \in Config /\ (Sound(m.appconf) => Sound(p["appconf"]))
  <2>1. CASE "appconf" \in kinds
    <3>1. p["appconf"] = current["appconf"]
      BY <1>1, <1>2, <2>1, Wire
    <3>2. QED
      BY <1>3, <2>1, <3>1 DEF Showable
  <2>2. CASE "appconf" \notin kinds
    <3>1. p["appconf"] = m.appconf
      BY <1>1, <1>2, <2>2, Kinded
    <3>2. QED
      BY <3>1 DEF Configurations
  <2>3. QED
    BY <2>1, <2>2
<1>5. p["mcconf"] \in Int
  BY <1>1, <1>2, <1>3, Wire, Kinded DEF Showable, Configurations
<1>6. p["express"] \in Int
  BY <1>1, <1>2, <1>3, Wire, Kinded DEF Showable, Configurations
<1>7. p = [appconf |-> p["appconf"], mcconf |-> p["mcconf"], express |-> p["express"]]
  <2>1. p = [k \in Kinds |-> p[k]]
    BY <1>1 DEF p, Put
  <2>2. QED
    BY <2>1 DEF Kinds
<1>8. p \in Configurations /\ p.appconf = p["appconf"]
  BY <1>4, <1>5, <1>6, <1>7 DEF Configurations
<1>9. QED
  BY <1>1, <1>4, <1>8 DEF p

\* A write of nothing changes nothing.
LEMMA PutNothing ==
  ASSUME NEW m \in Configurations
  PROVE  Put(m, {}) = m
BY DEF Put, Configurations

\* What the editor is about to keep.
Edited ==
  /\ entries # {} /\ entries \subseteq Kinds /\ program \in {"tui", "over"}
  /\ ram = stored /\ Sound(stored.appconf) /\ Shown(original) /\ Shown(current)
  /\ fails = 0 => \A k \in entries : ram[k] = Serialized(k, original[k])

\* While the editor runs, all of its part of the invariant holds.
LEMMA WhileEditing ==
  ASSUME EditorInv, program = "tui"
  PROVE  Edited
BY DEF Edited, EditorInv

\* Loading shows what the device answers, and what is shown writes back what was read.
LEMMA LoadEdits ==
  ASSUME TypesInv, PageInv, EditorInv, Guessed => Guessed', NEW kinds \in Loadable,
         Load(kinds)
  PROVE  EditorInv' /\ DeviceTypes'
<1>1. /\ program = "none" /\ program' = "tui" /\ entries' = kinds /\ kinds # {}
      /\ kinds \subseteq Kinds
      /\ original' = [k \in kinds |-> ReadConfigEntry(k)] /\ current' = original'
      /\ UNCHANGED <<ram, stored, fails>>
  <2>1. kinds # {} /\ kinds \subseteq Kinds
    BY DEF Loadable
  <2>2. QED
    BY <2>1 DEF Load, device, editor
<1>2. /\ ram = stored /\ ram.appconf \in UserConfigs /\ ram.mcconf = 0 /\ ram.express = 129
      /\ ram \in Configurations
  BY <1>1 DEF PageInv, TypesInv
<1>3. Sound(ram.appconf) /\ ram.appconf \in Config
  BY <1>2, UserConfigTypes DEF Sound, Owned
<1>4. \A k \in kinds : /\ Showable(k, original'[k]) /\ ram[k] = Serialized(k, original'[k])
  <2>1. ASSUME "mcconf" \in kinds
        PROVE  original'["mcconf"] \in InRange
               /\ ram["mcconf"] = Serialized("mcconf", original'["mcconf"])
    <3>1. original'["mcconf"] = 0 /\ ram["mcconf"] = 0
      BY <1>1, <1>2, <2>1, Wire, Kinded DEF ReadConfigEntry
    <3>2. 0 \in InRange
      BY DEF InRange, Lowest, Highest
    <3>3. QED
      BY <3>1, <3>2, Wire
  <2>2. ASSUME "express" \in kinds
        PROVE  original'["express"] \in BitFields
               /\ ram["express"] = Serialized("express", original'["express"])
    <3>1. original'["express"] = ram["express"] /\ ram["express"] = 129
      BY <1>1, <1>2, <2>2, Wire, Kinded DEF ReadConfigEntry
    <3>2. ram["express"] \in BitFields
      BY <3>1 DEF BitFields
    <3>3. QED
      BY <3>1, <3>2, Wire
  <2>3. ASSUME "appconf" \in kinds
        PROVE  original'["appconf"] = ram.appconf
               /\ ram["appconf"] = Serialized("appconf", original'["appconf"])
    BY <1>1, <1>2, <2>3, Wire, Kinded DEF ReadConfigEntry
  <2>4. \A k \in kinds : k = "mcconf" \/ k = "express" \/ k = "appconf"
    BY <1>1 DEF Kinds
  <2>5. QED
    BY <1>3, <2>1, <2>2, <2>3, <2>4, UserConfigTypes DEF Showable
<1>5. DOMAIN original' = entries'
  BY <1>1
<1>6. Shown(original)' /\ Shown(current)'
  BY <1>1, <1>2, <1>4, <1>5 DEF Shown, Showable, Sound
<1>7. Sound(stored.appconf)'
  BY <1>1, <1>2, <1>3 DEF Sound
<1>8. EditorInv'
  BY <1>1, <1>2, <1>4, <1>6, <1>7 DEF EditorInv
<1>9. DeviceTypes'
  BY <1>1 DEF TypesInv, DeviceTypes
<1>10. QED
  BY <1>8, <1>9

\* A value that may be shown is committed.
LEMMA CommitEdits ==
  ASSUME TypesInv, EditorInv, program = "tui", NEW kind \in entries, NEW value,
         Showable(kind, value), CommitValue(kind, value), Guessed => Guessed'
  PROVE  EditorInv' /\ DeviceTypes'
<1>1. /\ current' = [current EXCEPT ![kind] = value]
      /\ UNCHANGED <<ram, stored, fails, program, entries, original>>
  BY DEF CommitValue, device, editor
<1>2. Edited
  BY WhileEditing
<1>3. /\ DOMAIN current' = entries
      /\ \A k \in entries : current'[k] = IF k = kind THEN value ELSE current[k]
  BY <1>1, <1>2 DEF Edited, Shown
<1>4. \A k \in entries : Showable(k, current'[k])
  BY <1>2, <1>3, ShownValues DEF Edited
<1>5. Shown(current)' /\ Shown(original)' /\ Sound(stored.appconf)'
  BY <1>1, <1>2, <1>3, <1>4 DEF Shown, Showable, Sound, Edited
<1>6. Edited'
  BY <1>1, <1>2, <1>5 DEF Edited
<1>7. EditorInv'
  BY <1>6 DEF Edited, EditorInv
<1>8. QED
  BY <1>1, <1>7 DEF TypesInv, DeviceTypes

\* Toggling one bit of a bit field leaves a bit field.
LEMMA BitsStay ==
  ASSUME NEW v \in BitFields, NEW bit \in Labelled
  PROVE  (IF HasBit(v, bit) THEN v - bit ELSE v + bit) \in BitFields
<1>1. v = 0 \/ v = 1 \/ v = 128 \/ v = 129
  BY DEF BitFields
<1>2. bit = 1 \/ bit = 128
  BY DEF Labelled
<1>3. /\ ~HasBit(0, 1) /\ HasBit(1, 1) /\ ~HasBit(128, 1) /\ HasBit(129, 1)
      /\ ~HasBit(0, 128) /\ ~HasBit(1, 128) /\ HasBit(128, 128) /\ HasBit(129, 128)
  BY DEF HasBit
<1>4. CASE bit = 1
  BY <1>1, <1>3, <1>4 DEF BitFields
<1>5. CASE bit = 128
  BY <1>1, <1>3, <1>5 DEF BitFields
<1>6. QED
  BY <1>2, <1>4, <1>5

\* The editor's handlers but for Apply.
LEMMA EditsKeep ==
  ASSUME TypesInv, EditorInv, Guessed => Guessed',
         \/ \E text \in InRange : SubmitText(text)
         \/ \E d \in {-1, 1}, m \in {1, 10} : StepSelected(d, m)
         \/ \E bit \in Labelled : CheckBit(bit)
         \/ \E p \in {"own", "logs"} : ChangeEditor(p)
         \/ RevertSelected
  PROVE  EditorInv' /\ DeviceTypes' /\ program = "tui" /\ program' = "tui"
<1>0. program = "tui" /\ program' = "tui"
  BY DEF SubmitText, StepSelected, CheckBit, ChangeEditor, RevertSelected, CommitValue, Idle
<1>1. Edited
  BY <1>0, WhileEditing
<1>2. \A k \in entries : Showable(k, current[k]) /\ Showable(k, original[k])
  BY <1>1, ShownValues DEF Edited
<1>3. ASSUME NEW text \in InRange, SubmitText(text) PROVE EditorInv' /\ DeviceTypes'
  BY <1>0, <1>3, CommitEdits DEF SubmitText, Showable
<1>4. ASSUME NEW d \in {-1, 1}, NEW m \in {1, 10}, StepSelected(d, m)
      PROVE  EditorInv' /\ DeviceTypes'
  <2>1. "mcconf" \in entries /\ CommitValue("mcconf", Clamped(current.mcconf + d * m))
    BY <1>4 DEF StepSelected
  <2>2. current.mcconf \in Int
    BY <1>2, <2>1 DEF Showable, InRange, Lowest, Highest
  <2>3. current.mcconf + d * m \in Int
    <3>1. d * m \in Int
      OBVIOUS
    <3>2. QED
      BY <2>2, <3>1
  <2>4. \A x \in Int : Clamped(x) \in InRange
    BY DEF Clamped, InRange, Lowest, Highest
  <2>5. QED
    BY <1>0, <2>1, <2>3, <2>4, CommitEdits DEF Showable
<1>5. ASSUME NEW bit \in Labelled, CheckBit(bit) PROVE EditorInv' /\ DeviceTypes'
  <2>1. "express" \in entries /\ current["express"] \in BitFields
    BY <1>2, <1>5 DEF CheckBit, Showable
  <2> DEFINE v == IF HasBit(current.express, bit) THEN current.express - bit
                                                 ELSE current.express + bit
  <2>2. v \in BitFields
    BY <2>1, BitsStay
  <2>3. CommitValue("express", v)
    BY <1>5 DEF CheckBit
  <2> HIDE DEF v
  <2>4. QED
    BY <1>0, <2>1, <2>2, <2>3, CommitEdits DEF Showable
<1>6. ASSUME NEW p \in {"own", "logs"}, ChangeEditor(p) PROVE EditorInv' /\ DeviceTypes'
  <2> DEFINE c == [current.appconf EXCEPT !.profile = p]
  <2>1. "appconf" \in entries /\ CommitValue("appconf", c)
    BY <1>6 DEF ChangeEditor
  <2>2. current.appconf \in Config /\ Sound(current.appconf)
    BY <1>2, <2>1 DEF Showable
  <2>3. c \in Config /\ c.rot = current.appconf.rot /\ c.frame = current.appconf.frame
        /\ c.off = current.appconf.off /\ c.app = current.appconf.app
    BY <2>2 DEF Config, Profiles
  <2> HIDE DEF c
  <2>4. Sound(c)
    BY <2>2, <2>3 DEF Sound, Owned, Framed, Measured
  <2>5. QED
    BY <1>0, <2>1, <2>3, <2>4, CommitEdits DEF Showable
<1>7. CASE RevertSelected
  BY <1>0, <1>2, <1>7, CommitEdits DEF RevertSelected
<1>8. QED
  BY <1>0, <1>3, <1>4, <1>5, <1>6, <1>7

\* A write of what the editor shows, if everything of it goes out.
LEMMA ApplyEdits ==
  ASSUME TypesInv, EditorInv, LossInv, Guessed => Guessed', Apply \/ ApplyRaises \/ ApplyRefused
  PROVE  EditorInv' /\ DeviceTypes' /\ program = "tui" /\ program' = "tui"
<1>0. /\ program = "tui" /\ program' = "tui" /\ Edited
      /\ UNCHANGED <<entries, current>>
  BY WhileEditing DEF Apply, ApplyRaises, ApplyRefused, Confirming, editor
<1>1. /\ ram \in Configurations /\ ram = stored /\ Sound(ram.appconf) /\ entries \subseteq Kinds
      /\ Shown(original) /\ Shown(current) /\ fails \in 0..MaxFails
      /\ Dirty \in SUBSET entries
  BY <1>0 DEF Edited, TypesInv, Dirty
<1>2. ASSUME NEW kinds \in SUBSET entries, ram' = Put(ram, kinds), stored' = Put(stored, kinds),
             original' \in {original, current}, fails' \in 0..MaxFails,
             fails' = 0 => \A k \in entries : ram'[k] = Serialized(k, original'[k])
      PROVE  EditorInv' /\ DeviceTypes'
  <2>1. ram' \in Configurations /\ Sound(ram'.appconf) /\ ram' = stored'
    BY <1>1, <1>2, PutKinds
  <2>2. Shown(original)' /\ Shown(current)' /\ Sound(stored.appconf)'
    BY <1>0, <1>1, <1>2, <2>1 DEF Shown, Sound
  <2>3. Edited'
    BY <1>0, <1>2, <2>1, <2>2 DEF Edited
  <2>4. EditorInv'
    BY <2>3 DEF Edited, EditorInv
  <2>5. QED
    BY <1>2, <2>1, <2>4 DEF DeviceTypes
<1>3. CASE Apply
  <2>1. PICK skipped \in SUBSET Mistakable(Dirty) :
             ram' = Put(ram, Dirty \ skipped) /\ stored' = Put(stored, Dirty \ skipped)
    BY <1>3 DEF Apply, Stores
  <2>2. original' = current /\ fails' = fails /\ Dirty \ skipped \in SUBSET entries
    BY <1>1, <1>3 DEF Apply
  <2>3. ASSUME fails' = 0 PROVE \A k \in entries : ram'[k] = Serialized(k, original'[k])
    <3>1. skipped = {} /\ ~(fails > 0)
      <4>1. late = {} /\ ~(fails > 0)
        BY <1>1, <2>2, <2>3 DEF LossInv
      <4>2. QED
        BY <2>1, <4>1 DEF Mistakable
    <3>2. ram' = Put(ram, Dirty)
      BY <2>1, <3>1
    <3>3. \A k \in entries : k \notin Dirty => current[k] = original[k]
      BY DEF Dirty
    <3>4. \A k \in Kinds : ram'[k] = IF k \in Dirty THEN Serialized(k, current[k]) ELSE ram[k]
      BY <1>1, <3>2, PutKinds
    <3>5. \A k \in entries : ram[k] = Serialized(k, original[k])
      BY <1>0, <2>2, <2>3 DEF Edited
    <3>6. QED
      BY <1>1, <2>2, <3>3, <3>4, <3>5
  <2>4. QED
    BY <1>0, <1>1, <1>2, <2>1, <2>2, <2>3
<1>4. CASE ApplyRaises
  <2>1. fails' \in 0..MaxFails /\ fails' > 0 /\ original' = original
    BY <1>1, <1>4, TypesAssumption DEF ApplyRaises
  <2>2. \A kind \in Dirty : Before(kind) \in SUBSET entries
        /\ Before(kind) \cup {kind} \in SUBSET entries
    BY <1>1 DEF Before
  <2>3. PICK kinds \in SUBSET entries : ram' = Put(ram, kinds) /\ stored' = Put(stored, kinds)
    <3>1. PICK kinds \in SUBSET entries : \E answered : Stores(kinds, answered)
      BY <1>4, <2>2 DEF ApplyRaises
    <3>2. PICK skipped : /\ ram' = Put(ram, kinds \ skipped)
                         /\ stored' = Put(stored, kinds \ skipped)
      BY <3>1 DEF Stores
    <3>3. QED
      BY <3>2
  <2>4. QED
    BY <1>0, <1>2, <2>1, <2>3
<1>5. CASE ApplyRefused
  <2>1. PICK kind \in Dirty : /\ ~Serializable(kind, current[kind])
                              /\ Stores(Before(kind), Before(kind))
    BY <1>5 DEF ApplyRefused
  <2>2. kind = "express"
    <3>1. kind \in entries /\ Showable(kind, current[kind])
      BY <1>1, <2>1, ShownValues
    <3>2. kind # "mcconf" /\ kind # "appconf"
      BY <2>1, <3>1, Wire DEF Showable
    <3>3. QED
      BY <1>1, <3>1, <3>2 DEF Kinds
  <2>3. Before("express") = {}
    <3>1. Order[1] = "express"
      BY DEF Order
    <3>2. \A j \in 1..3 : 1 \in 1..j
      OBVIOUS
    <3>3. QED
      BY <3>1, <3>2 DEF Before
  <2>4. ram' = ram /\ stored' = stored
    <3>1. ram' = Put(ram, {}) /\ stored' = Put(stored, {})
      <4>1. Stores({}, {})
        BY <2>1, <2>2, <2>3
      <4>2. PICK skipped \in SUBSET Mistakable({}) :
                 ram' = Put(ram, {} \ skipped) /\ stored' = Put(stored, {} \ skipped)
        BY <4>1 DEF Stores
      <4>3. {} \ skipped = {}
        OBVIOUS
      <4>4. QED
        BY <4>2, <4>3
    <3>2. QED
      BY <1>1, <3>1, PutNothing
  <2>5. UNCHANGED <<original, fails>>
    BY <1>5 DEF ApplyRefused
  <2>6. Shown(original)' /\ Shown(current)' /\ Sound(stored.appconf)'
    BY <1>0, <1>1, <2>4, <2>5 DEF Shown, Sound
  <2>7. Edited'
    BY <1>0, <2>4, <2>5, <2>6 DEF Edited
  <2>8. EditorInv'
    BY <2>7 DEF Edited, EditorInv
  <2>9. DeviceTypes'
    BY <2>4, <2>5 DEF TypesInv, DeviceTypes
  <2>10. QED
    BY <1>0, <2>8, <2>9
<1>6. QED
  BY <1>0, <1>3, <1>4, <1>5

\* Dialogs, and the end of the editor.
LEMMA AskingKeeps ==
  ASSUME TypesInv, EditorInv, Guessed => Guessed',
         LoadFails \/ AskRevert \/ AskApply \/ AskQuit \/ Decline \/ RevertAll \/ Quit
  PROVE  /\ EditorInv' /\ DeviceTypes' /\ UNCHANGED <<device, editor>>
         /\ \/ program = "none" /\ program' = "over"
            \/ program = "tui" /\ program' \in {"tui", "over"}
<1>1. /\ UNCHANGED <<device, editor, entries, original>> /\ current' \in {current, original}
      /\ \/ program = "none" /\ program' = "over"
         \/ program = "tui" /\ program' \in {"tui", "over"}
  BY DEF LoadFails, AskRevert, AskApply, AskQuit, Ask, Decline, RevertAll, Quit, Confirming,
     Idle, tui
<1>2. UNCHANGED <<ram, stored, fails>>
  BY <1>1 DEF device
<1>3. DeviceTypes'
  BY <1>2 DEF TypesInv, DeviceTypes
<1>4. EditorInv'
  <2>1. CASE entries = {}
    BY <1>1, <2>1 DEF EditorInv
  <2>2. CASE entries # {}
    <3>1. /\ ram = stored /\ Sound(stored.appconf) /\ Shown(original) /\ Shown(current)
          /\ fails = 0 => \A k \in entries : ram[k] = Serialized(k, original[k])
          /\ entries \subseteq Kinds
      BY <2>2 DEF EditorInv
    <3>2. Shown(original)' /\ Shown(current)' /\ Sound(stored.appconf)'
      BY <1>1, <1>2, <3>1 DEF Shown, Sound
    <3>3. program' \in {"tui", "over"}
      BY <1>1
    <3>4. Edited'
      BY <1>1, <1>2, <2>2, <3>1, <3>2, <3>3 DEF Edited
    <3>5. QED
      BY <3>4 DEF Edited, EditorInv
  <2>3. QED
    BY <2>1, <2>2
<1>5. QED
  BY <1>1, <1>3, <1>4

\* Every step of the editor keeps types and pages, and what it takes for stored.
LEMMA EditorSteps ==
  ASSUME TypesInv, PageInv, EditorInv, LossInv, Guessed => Guessed', NextTui, UNCHANGED gui
  PROVE  /\ TypesInv' /\ PageInv' /\ EditorInv'
         /\ program' = "tui" \/ (program' = "over" /\ UNCHANGED <<device, editor>>)
<1>1. ASSUME NEW kinds \in Loadable, Load(kinds)
      PROVE  TypesInv' /\ PageInv' /\ EditorInv' /\ program' = "tui"
  BY <1>1, LoadEdits, TuiTypes DEF Load
<1>2. CASE \/ \E text \in InRange : SubmitText(text)
           \/ \E d \in {-1, 1}, m \in {1, 10} : StepSelected(d, m)
           \/ \E bit \in Labelled : CheckBit(bit)
           \/ \E p \in {"own", "logs"} : ChangeEditor(p)
           \/ RevertSelected
  <2>1. EditorInv' /\ DeviceTypes' /\ program = "tui" /\ program' = "tui"
    BY <1>2, EditsKeep
  <2>2. UNCHANGED <<page, editor>>
    BY <1>2 DEF SubmitText, StepSelected, CheckBit, ChangeEditor, RevertSelected,
       CommitValue
  <2>3. page' = "editor"
    BY <2>1, <2>2 DEF PageInv
  <2>4. QED
    BY <2>1, <2>2, <2>3, TuiTypes
<1>3. CASE Apply \/ ApplyRaises \/ ApplyRefused
  <2>1. EditorInv' /\ DeviceTypes' /\ program = "tui" /\ program' = "tui"
    BY <1>3, ApplyEdits
  <2>2. UNCHANGED <<page, editor>>
    BY <1>3 DEF Apply, ApplyRaises, ApplyRefused
  <2>3. page' = "editor"
    BY <2>1, <2>2 DEF PageInv
  <2>4. QED
    BY <2>1, <2>2, <2>3, TuiTypes
<1>4. CASE LoadFails \/ AskRevert \/ AskApply \/ AskQuit \/ Decline \/ RevertAll \/ Quit
  <2>1. /\ EditorInv' /\ DeviceTypes' /\ UNCHANGED <<device, editor>>
        /\ \/ program = "none" /\ program' = "over"
           \/ program = "tui" /\ program' \in {"tui", "over"}
    BY <1>4, AskingKeeps
  <2>2. program' = "tui" => page' = "editor"
    BY <1>4, <2>1 DEF PageInv, LoadFails, AskRevert, AskApply, AskQuit, Ask, Decline,
       RevertAll, Quit
  <2>3. QED
    BY <2>1, <2>2, TuiTypes
<1>5. QED
  BY <1>1, <1>2, <1>3, <1>4 DEF NextTui

-----------------------------------------------------------------------------
(* A step of the orientation.                                              *)

StepKept == restore = RestoreOf(opened) /\ Alike(config, opened)

\* Save and Skip change nothing but rotation and frame.
LEMMA TurnsKeep ==
  ASSUME TypesInv, StepKept, NEW axis \in Axes, NEW angle \in Int,
         config' = Turned(config, axis, angle), UNCHANGED <<opened, restore>>
  PROVE  StepKept'
<1>1. Alike(config', config)
  BY TurnedFields DEF TypesInv
<1>2. QED
  BY <1>1 DEF StepKept, Alike

\* An orientation step that begins with Prepared differs from what was opened in nothing else.
LEMMA PreparingKeeps ==
  ASSUME TypesInv, config' = Prepared(config), opened' = config, restore' = RestoreOf(config)
  PROVE  StepKept'
<1>1. Alike(config', config)
  BY PreparedFields DEF TypesInv
<1>2. QED
  BY <1>1 DEF StepKept

\* The pages of the three axes are pages of their own.
LEMMA NoAxes ==
  ASSUME NEW p \in Axes
  PROVE  /\ p \notin {"menu", "configurator", "gyro", "x", "y", "z", "none"}
         /\ p \notin {"basic", "try", "sample", "profile", "ready", "over"}
BY DEF Axes

\* In the window, on an orientation page, only rotation, frame and offsets differ from the opened.
LEMMA GuiKeepsStep ==
  ASSUME TypesInv, PageInv, StepInv, program = "gui", NextGui, page' \in Axes, program' = "gui"
  PROVE  StepKept'
<1>0. page \in Axes => StepKept
  BY DEF StepInv, StepKept
<1>1. CASE Poll \/ PollFails
  <2>1. UNCHANGED <<page, config, opened, restore>>
    BY <1>1 DEF Poll, PollFails, session
  <2>2. QED
    BY <1>0, <2>1 DEF StepKept
<1>2. CASE CheckCandidate
  <2>1. UNCHANGED <<page, opened, restore>>
    BY <1>2 DEF CheckCandidate, session
  <2>2. ~search.active
    BY <2>1, NoAxes DEF PageInv
  <2>3. UNCHANGED config
    BY <1>2, <2>2 DEF CheckCandidate
  <2>4. QED
    BY <1>0, <2>1, <2>3 DEF StepKept
<1>3. CASE MenuPage
  <2>1. page' # "menu" /\ page' # "configurator" /\ page' # "gyro" /\ page' # "x"
    BY NoAxes
  <2>2. OpenOrientation
    BY <1>3, <2>1 DEF MenuPage, OpenConfigurator, OpenGyro, OpenAccel
  <2>3. QED
    BY <2>2, PreparingKeeps DEF OpenOrientation
<1>4. CASE ConfiguratorPage \/ SaveGyro \/ AccelPage \/ Cancel
  <2>1. page' \in {"menu", "configurator", "gyro", "x", "y", "z"}
    <3>1. CASE ConfiguratorPage
      BY <3>1 DEF ConfiguratorPage, StartSearch, ChooseProfile, SaveConfigurator, Commit,
         SetPage, session
    <3>2. CASE SaveGyro
      BY <3>2 DEF SaveGyro, Commit, SetPage
    <3>3. CASE AccelPage
      BY <3>3, NextPages DEF AccelPage, SaveAccel, SkipAccel, ClearMax, Commit, SetPage,
         session, Accel
    <3>4. CASE Cancel
      BY <3>4 DEF Cancel, SetPage
    <3>5. QED
      BY <1>4, <3>1, <3>2, <3>3, <3>4
  <2>2. QED
    BY <2>1, NoAxes
<1>5. CASE OrientationPage
  <2>1. page \in Axes /\ StepKept
    BY <1>0, <1>5 DEF OrientationPage
  <2>2. Angle(page) \in Int /\ restore.rot[page] \in Int
    BY <2>1, Readings DEF TypesInv, Calibration, Rotations
  <2>3. \E angle \in Int : config' = Turned(config, page, angle)
    BY <1>5, <2>2 DEF OrientationPage, SaveOrientation, SkipOrientation, Commit
  <2>4. \E n : SetPage(n)
    BY <1>5 DEF OrientationPage, SaveOrientation, SkipOrientation, Commit
  <2>5. UNCHANGED <<opened, restore>>
    BY <2>4, NoAxes DEF SetPage
  <2>6. QED
    BY <2>1, <2>3, <2>5, TurnsKeep
<1>6. CASE CloseWindow
  BY <1>6 DEF CloseWindow
<1>7. QED
  BY <1>1, <1>2, <1>3, <1>4, <1>5, <1>6 DEF NextGui

\* In the wizard too.
LEMMA WizardKeepsStep ==
  ASSUME TypesInv, PageInv, StepInv, program = "wizard", NextWizard, page' \in Axes,
         program' = "wizard"
  PROVE  StepKept'
<1>0. page \in Axes => StepKept
  BY DEF StepInv, StepKept
<1>1. CASE LeaveOut \/ TryType \/ SampleType \/ StoreBasic \/ DiscardBasic
           \/ \E s \in BOOLEAN : BeginBasic(s)
  <2>1. page' \in {"gyro", "x", "ready", "sample", "try", "profile", "none"}
    BY <1>1 DEF LeaveOut, TryType, SampleType, StoreBasic, DiscardBasic, BeginBasic,
       WriteThen, Continue, Ends
  <2>2. QED
    BY <2>1, NoAxes
<1>2. CASE WizardGyro \/ WizardAccel
  <2>1. page' \in {"gyro", "x", "y", "z", "ready", "none"}
    <3>1. CASE WizardGyro
      BY <3>1 DEF WizardGyro, WizardAt, Choose, WriteThen, Continue, Ends, Stay
    <3>2. CASE WizardAccel
      <4> DEFINE next == IF page = "z" THEN "ready" ELSE NextPage[page]
      <4>1. next \in {"y", "z", "ready"} /\ page \in {"x", "y", "z"}
        BY <3>2, NextPages DEF WizardAccel, Accel
      <4>2. PICK choice \in StepChoice :
              \/ Choose(choice, IF choice = "cancel" THEN "ready" ELSE next)
              \/ WriteThen(Calibrated(config, page, Sampled(page)), TRUE, next)
        BY <3>2 DEF WizardAccel
      <4> HIDE DEF next
      <4>3. QED
        BY <4>1, <4>2 DEF Choose, WriteThen, Continue, Ends, Stay
    <3>3. QED
      BY <1>2, <3>1, <3>2
  <2>2. QED
    BY <2>1, NoAxes
<1>3. CASE BeginOrientation
  <2>1. page' # "none"
    BY NoAxes
  <2>2. config' = Prepared(config)
    BY <1>3, <2>1 DEF BeginOrientation, WriteThen, Ends
  <2>3. QED
    BY <1>3, <2>2, PreparingKeeps DEF BeginOrientation
<1>4. ASSUME NEW axis \in Axes, NEW store, NEW next, Orient(axis, store, next)
      PROVE  StepKept'
  <2>1. page = axis /\ StepKept /\ UNCHANGED <<opened, restore>>
    BY <1>0, <1>4 DEF Orient, WizardAt
  <2>2. Angle(axis) \in Int /\ restore.rot[axis] \in Int
    BY Readings DEF TypesInv, Calibration, Rotations
  <2>3. \E angle \in Int : config' = Turned(config, axis, angle)
    BY <1>4, <2>2 DEF Orient, WriteThen
  <2>4. QED
    BY <2>1, <2>3, TurnsKeep
<1>5. CASE RollOrientation \/ PitchOrientation \/ YawOrientation
  BY <1>4, <1>5 DEF RollOrientation, PitchOrientation, YawOrientation, Axes
<1>6. CASE LeaveOrientation \/ InterruptedStore \/ Interrupted
  BY <1>6 DEF LeaveOrientation, InterruptedStore, Interrupted, WriteThen, Continue, Ends
<1>7. QED
  BY <1>1, <1>2, <1>3, <1>5, <1>6 DEF NextWizard

-----------------------------------------------------------------------------
(* What holds as long as nothing failed.                                   *)

\* A configuration is as sound as it was when less has been measured.
LEMMA SoundStored ==
  ASSUME NEW c, Framed(c), c.app = "user", ~Guessed' => Measured(c), stored'.appconf = c
  PROVE  Sound(stored.appconf)'
BY DEF Sound, Owned, Framed, Measured

\* What was stored stays sound while the flash is not written, however hasty the user gets.
LEMMA StoredStays ==
  ASSUME Sound(stored.appconf), Guessed => Guessed', stored'.appconf = stored.appconf
  PROVE  Sound(stored.appconf)'
BY DEF Sound, Owned, Framed, Measured

OthersStored == ram.mcconf = stored.mcconf /\ ram.express = stored.express

\* At rest, in a step that sets up, in the orientation, and when all is over.
LEMMA Rests ==
  ASSUME program' \in {"gui", "wizard"}, page' \in AtRest, OthersStored', Sound(stored.appconf)',
         config' = ram'.appconf, ram'.appconf = stored'.appconf,
         lost' = "none" => PeakInv', ~search'.active
  PROVE  Faultless'
<1>1. page' \notin Axes /\ page' \notin {"configurator", "try", "sample", "profile"}
  BY DEF AtRest, Axes
<1>2. QED
  BY <1>1 DEF Faultless, OthersStored, SearchInv

\* On a page that sets up the IMU, this much suffices.
LEMMA SetsUp ==
  ASSUME page' \in {"configurator", "try", "sample", "profile"}, OthersStored',
         Sound(stored.appconf)', SettingUp', SearchInv'
  PROVE  Faultless'
<1>1. page' \notin Axes /\ page' \notin AtRest /\ page' \notin Accel /\ page' \notin {"x", "y"}
  BY DEF AtRest, Axes, Accel
<1>2. QED
  BY <1>1 DEF Faultless, OthersStored, PeakInv

\* On an orientation page, this much suffices.
LEMMA Orients ==
  ASSUME page' \in Axes, OthersStored', Sound(stored.appconf)', Orienting', ~search'.active
  PROVE  Faultless'
<1>1. /\ page' \notin {"configurator", "try", "sample", "profile"} /\ page' \notin AtRest
      /\ page' \notin Accel /\ page' \notin {"x", "y"}
  BY DEF AtRest, Axes, Accel
<1>2. QED
  BY <1>1 DEF Faultless, OthersStored, PeakInv, SearchInv

\* Without a program only the flash matters.
LEMMA IsOver ==
  ASSUME program' \notin {"gui", "wizard"}, Sound(stored.appconf)'
  PROVE  Faultless'
BY DEF Faultless

\* A handler that leaves configurations, search and page alone.
LEMMA FaultlessStays ==
  ASSUME Faultless, UNCHANGED <<ram, stored, config, opened, search, page, program>>,
         Guessed => Guessed', lost' = "none" => PeakInv', SearchInv'
  PROVE  Faultless'
<1>1. Sound(stored.appconf)'
  BY StoredStays DEF Faultless
<1>2. /\ SettingUp => SettingUp'
      /\ Orienting => Orienting'
  BY DEF SettingUp, Orienting, SameCalibration, RestoreOf, Framed, Set
<1>3. QED
  BY <1>1, <1>2 DEF Faultless

\* A write that raises counts as a failure.
LEMMA NoRaise ==
  ASSUME TypesInv, fails' = 0, NEW c, NEW store
  PROVE  ~WriteRaises("appconf", c, store)
<1>1. fails \in Nat
  BY TypesAssumption DEF TypesInv
<1>2. QED
  BY <1>1 DEF WriteRaises

\* A write that is lost without an error leaves its mark.
LEMMA NoLoss ==
  ASSUME lost' # "open", NEW kind, NEW c, NEW store, Sent(kind, c, store)
  PROVE  Written(kind, c, store)
BY DEF Sent, WriteLost

\* A step in which nothing raises; what was guessed or lost before stays so.
Unfailing == fails' = 0 /\ (Guessed => Guessed') /\ (lost # "none" => lost' # "none")

\* A write for the time being, and one to flash, of APPCONF.
LEMMA WritesKeepOthers ==
  ASSUME DeviceTypes, OthersStored, NEW c \in Config, NEW store, Written("appconf", c, store)
  PROVE  /\ OthersStored' /\ ram'.appconf = c
         /\ store => stored'.appconf = c
         /\ ~store => stored' = stored
BY WrittenChanges DEF OthersStored, Changed

\* Readings are those of before where type and calibration are.
LEMMA SameReadings ==
  ASSUME NEW s, ram'.appconf.type = ram.appconf.type, ram'.appconf.off[s] = ram.appconf.off[s]
  PROVE  Reading(s)' = Reading(s)
BY DEF Reading, Working

\* A measurement, or none, leaves offsets that were measured.
LEMMA CalibratedSound ==
  ASSUME TypesInv, NEW s \in Sensors, NEW x \in Int, config = ram.appconf, Sound(config),
         Guessed => Guessed',
         ~Guessed' => (Working /\ x = Reading(s)) \/ x = 0
  PROVE  LET c == Calibrated(config, s, x)
         IN  Framed(c) /\ c.app = "user" /\ (~Guessed' => Measured(c))
<1> DEFINE c == Calibrated(config, s, x)
<1>1. /\ c \in Config /\ Alike(c, config) /\ c.rot = config.rot /\ c.frame = config.frame
      /\ c.off = [config.off EXCEPT ![s] = config.off[s] + x]
      /\ config.off \in [Sensors -> Int]
  <2>1. config \in Config
    BY DEF TypesInv
  <2>2. config.off \in [Sensors -> Int]
    BY <2>1, Fields
  <2>3. QED
    BY <2>1, <2>2, CalibratedFields
<1> HIDE DEF c
<1>2. Framed(c) /\ c.app = "user"
  BY <1>1 DEF Sound, Owned, Framed, Alike
<1>3. ASSUME ~Guessed' PROVE Measured(c)
  <2>1. Measured(config)
    BY <1>3 DEF Sound
  <2>2. config.off[s] \in Int /\ (x = 0 \/ x = 1 - config.off[s])
    BY <1>1, <1>3, Readings DEF TypesInv
  <2>3. config.off[s] + x \in 0..Bias
    <3>1. CASE x = 0
      BY <2>1, <2>2, <3>1 DEF Measured
    <3>2. CASE x = 1 - config.off[s]
      BY <2>2, <3>2 DEF Bias
    <3>3. QED
      BY <2>2, <3>1, <3>2
  <2>4. \A r \in Sensors : c.off[r] \in 0..Bias
    BY <1>1, <2>1, <2>3 DEF Measured
  <2>5. QED
    BY <1>1, <2>1, <2>4 DEF Measured
<1>4. QED
  BY <1>2, <1>3 DEF c

\* The angles of a step: what levels the IMU, or what there was.
AngleAllowed(axis, x) == ~Guessed' => x \in {Level, opened.rot[axis]}

\* The angle read with no rotation in the RAM is one the page may save.
LEMMA MeasuredAngle ==
  ASSUME ram \in Configurations, NEW axis \in Axes, ram.appconf.rot[axis] = 0,
         hasty' = (hasty \/ ~Working)
  PROVE  AngleAllowed(axis, Angle(axis))
<1>1. Working => Angle(axis) = Level
  BY Readings DEF Level
<1>2. ~Guessed' => Working
  BY DEF Guessed
<1>3. QED
  BY <1>1, <1>2 DEF AngleAllowed

\* What Save and Skip make of the configuration.
LEMMA TurnedOrientation ==
  ASSUME TypesInv, StepKept, Orienting, Sound(stored.appconf), page \in Axes, Guessed => Guessed',
         NEW x \in Int, AngleAllowed(page, x)
  PROVE  LET c == Turned(config, page, x)
         IN  /\ Framed(c) /\ c.off = opened.off /\ c.app = "user"
             /\ page = "roll" => c.rot.roll = x /\ c.rot.pitch = 0 /\ c.rot.yaw = 0
             /\ page = "pitch" => c.rot.roll = config.rot.roll /\ c.rot.pitch = x /\ c.rot.yaw = 0
             /\ page = "yaw" => (~Guessed' => Measured(c))
<1> DEFINE c == Turned(config, page, x)
<1>1. /\ c \in Config /\ Alike(c, config) /\ c.off = config.off
      /\ c.rot = [config.rot EXCEPT ![page] = x] /\ c.frame = Rotated(config.frame, page, x)
      /\ config.rot \in Rotations
  <2>1. config \in Config
    BY DEF TypesInv
  <2>2. config.rot \in Rotations
    BY <2>1, Fields
  <2>3. QED
    BY <2>1, <2>2, TurnedFields
<1> HIDE DEF c
<1>2. config.frame = FrameOf(config.rot) /\ config.rot.yaw = 0 /\ config.off = opened.off
  BY DEF Orienting, Framed
<1>3. page = "roll" \/ page = "pitch" \/ page = "yaw"
  BY DEF Axes
<1>4. Framed(c)
  <2> DEFINE rot == config.rot
  <2>1. /\ rot.pitch = 0 /\ rot.roll = 0 =>
             Rotated(config.frame, "roll", x) = FrameOf([rot EXCEPT !["roll"] = x])
        /\ rot.pitch = 0 =>
             Rotated(config.frame, "pitch", x) = FrameOf([rot EXCEPT !["pitch"] = x])
        /\ Rotated(config.frame, "yaw", x) = FrameOf([rot EXCEPT !["yaw"] = x])
    <3>1. rot \in Rotations /\ rot.yaw = 0 /\ config.frame = FrameOf(rot)
      BY <1>1, <1>2
    <3> HIDE DEF rot
    <3>2. QED
      BY <3>1, FrameGrows
  <2>2. c.rot = [rot EXCEPT ![page] = x] /\ c.frame = Rotated(config.frame, page, x)
    BY <1>1
  <2>3. /\ page = "roll" => rot.roll = 0 /\ rot.pitch = 0
        /\ page = "pitch" => rot.pitch = 0
    BY DEF Orienting
  <2> HIDE DEF rot
  <2>4. CASE page = "roll"
    BY <2>1, <2>2, <2>3, <2>4 DEF Framed
  <2>5. CASE page = "pitch"
    BY <2>1, <2>2, <2>3, <2>5 DEF Framed
  <2>6. CASE page = "yaw"
    BY <2>1, <2>2, <2>6 DEF Framed
  <2>7. QED
    BY <1>3, <2>4, <2>5, <2>6
<1>5. c.app = "user"
  BY <1>1 DEF StepKept, Alike, Orienting, Sound, Owned
<1>6. page = "roll" => c.rot.roll = x /\ c.rot.pitch = 0 /\ c.rot.yaw = 0
  BY <1>1, <1>2 DEF Orienting, Rotations, Axes
<1>7. page = "pitch" => c.rot.roll = config.rot.roll /\ c.rot.pitch = x /\ c.rot.yaw = 0
  BY <1>1, <1>2 DEF Rotations, Axes
<1>8. ASSUME page = "yaw", ~Guessed' PROVE Measured(c)
  <2>1. ~Guessed /\ Measured(opened) /\ opened.rot \in Rotations
    BY <1>8, Fields DEF Orienting, Sound, TypesInv
  <2>2. /\ c.rot.roll \in {Level, opened.rot["roll"]}
        /\ c.rot.pitch \in {Level, opened.rot["pitch"]}
        /\ c.rot.yaw \in {Level, opened.rot["yaw"]}
    <3>1. c.rot.roll = config.rot["roll"] /\ c.rot.pitch = config.rot["pitch"] /\ c.rot.yaw = x
      BY <1>1, <1>8 DEF Rotations, Axes
    <3>2. /\ config.rot["roll"] \in {Level, opened.rot["roll"]}
          /\ config.rot["pitch"] \in {Level, opened.rot["pitch"]}
      BY <1>8, <2>1 DEF Orienting, Set
    <3>3. x \in {Level, opened.rot["yaw"]}
      BY <1>8 DEF AngleAllowed
    <3>4. QED
      BY <3>1, <3>2, <3>3
  <2>3. c.rot # NoRotation
    <3>1. SUFFICES ASSUME c.rot = NoRotation PROVE FALSE
      OBVIOUS
    <3>2. c.rot.roll = 0 /\ c.rot.pitch = 0 /\ c.rot.yaw = 0
      BY <3>1 DEF NoRotation, Axes
    <3>3. opened.rot["roll"] = 0 /\ opened.rot["pitch"] = 0 /\ opened.rot["yaw"] = 0
      BY <2>2, <3>2 DEF Level
    <3>4. opened.rot = NoRotation
      BY <2>1, <3>3 DEF Rotations, Axes, NoRotation
    <3>5. QED
      BY <2>1, <3>4 DEF Measured
  <2>4. QED
    BY <1>1, <1>2, <2>1, <2>3 DEF Measured
<1>9. QED
  BY <1>4, <1>1, <1>2, <1>5, <1>6, <1>7, <1>8 DEF c

\* A sub-step that is saved or skipped, and written, leads to the next one.
LEMMA OrientationGoesOn ==
  ASSUME TypesInv, StepKept, Orienting, OthersStored, Sound(stored.appconf), page \in Axes,
         Guessed => Guessed',
         NEW x \in Int, AngleAllowed(page, x),
         NEW store, store <=> page = "yaw", config' = Turned(config, page, x),
         Written("appconf", Turned(config, page, x), store)
  PROVE  /\ OthersStored' /\ Sound(stored.appconf)' /\ config' = ram'.appconf
         /\ page = "roll" /\ page' = "pitch" /\ opened' = opened => Orienting'
         /\ page = "pitch" /\ page' = "yaw" /\ opened' = opened => Orienting'
         /\ page = "yaw" => ram'.appconf = stored'.appconf
<1> DEFINE c == Turned(config, page, x)
<1>1. c \in Config
  BY TurnedFields DEF TypesInv
<1>2. /\ Framed(c) /\ c.off = opened.off /\ c.app = "user"
      /\ page = "roll" => c.rot.roll = x /\ c.rot.pitch = 0 /\ c.rot.yaw = 0
      /\ page = "pitch" => c.rot.roll = config.rot.roll /\ c.rot.pitch = x /\ c.rot.yaw = 0
      /\ page = "yaw" => (~Guessed' => Measured(c))
  BY TurnedOrientation
<1> HIDE DEF c
<1>3. /\ OthersStored' /\ ram'.appconf = c
      /\ page = "yaw" => stored'.appconf = c
      /\ page # "yaw" => stored' = stored
  BY <1>1, DeviceTyped, WritesKeepOthers DEF c
<1>4. config' = c
  BY DEF c
<1>5. Sound(stored.appconf)'
  BY <1>2, <1>3, SoundStored, StoredStays
<1>6. opened = stored.appconf
  BY DEF Orienting
<1>7. ASSUME page = "roll", page' = "pitch", opened' = opened PROVE Orienting'
  <2>1. ~Guessed' => c.rot["roll"] \in {Level, opened.rot["roll"]}
    BY <1>2, <1>7 DEF AngleAllowed
  <2>2. c.rot.pitch = 0 /\ c.rot.yaw = 0
    BY <1>2, <1>7
  <2>3. QED
    BY <1>2, <1>3, <1>4, <1>6, <1>7, <2>1, <2>2 DEF Orienting, Framed, Set
<1>8. ASSUME page = "pitch", page' = "yaw", opened' = opened PROVE Orienting'
  <2>1. ~Guessed' => c.rot["pitch"] \in {Level, opened.rot["pitch"]}
    BY <1>2, <1>8 DEF AngleAllowed
  <2>2. ~Guessed' => c.rot["roll"] \in {Level, opened.rot["roll"]}
    <3>1. Set("roll") /\ c.rot["roll"] = config.rot["roll"]
      BY <1>2, <1>8 DEF Orienting
    <3>2. QED
      BY <3>1 DEF Set
  <2>3. c.rot.yaw = 0
    BY <1>2, <1>8
  <2>4. QED
    BY <1>2, <1>3, <1>4, <1>6, <1>8, <2>1, <2>2, <2>3 DEF Orienting, Framed, Set
<1>9. QED
  BY <1>3, <1>4, <1>5, <1>7, <1>8

\* Opening the orientation pages from rest leaves them with a frame of no rotation.
LEMMA OrientationBegins ==
  ASSUME TypesInv, Sound(stored.appconf), OthersStored, Guessed => Guessed',
         config = ram.appconf, ram.appconf = stored.appconf,
         config' = Prepared(config), opened' = config, page' = "roll",
         Written("appconf", Prepared(config), FALSE), ~search'.active
  PROVE  Faultless'
<1> DEFINE c == Prepared(config)
<1>1. c \in Config /\ c.off = config.off /\ c.rot = NoRotation /\ c.frame = <<>>
  BY PreparedFields DEF TypesInv, Sound, Owned
<1> HIDE DEF c
<1>2. OthersStored' /\ ram'.appconf = c /\ stored' = stored
  BY <1>1, DeviceTyped, WritesKeepOthers DEF c
<1>3. c.rot.roll = 0 /\ c.rot.pitch = 0 /\ c.rot.yaw = 0 /\ c.frame = FrameOf(c.rot)
  BY <1>1, NoRotationFrame DEF NoRotation, Axes
<1>4. Orienting'
  BY <1>1, <1>2, <1>3 DEF Orienting, Framed, c
<1>5. Sound(stored.appconf)'
  BY <1>2, StoredStays
<1>6. QED
  BY <1>2, <1>4, <1>5, Orients DEF Axes

-----------------------------------------------------------------------------
(* The window, as long as nothing failed.                                  *)

\* A poll loses nothing of what holds without a failed write.
LEMMA PollFaultless ==
  ASSUME TypesInv, PageInv, Faultless, Unfailing, program = "gui", Poll
  PROVE  Faultless'
<1>1. UNCHANGED <<ram, stored, lost, config, opened, search, page, program>>
  BY DEF Poll, device, session
<1>2. ASSUME lost' = "none" PROVE PeakInv'
  <2>1. \A s \in {"x", "y", "z"} : Reading(s)' = Reading(s)
    BY <1>1, SameReadings
  <2>2. page \in Accel => \A s \in {"x", "y", "z"} :
          peak'[s] = IF Reading(s) > peak[s] THEN Reading(s) ELSE peak[s]
    BY DEF Poll, Accel
  <2>3. PeakInv
    BY <1>1, <1>2 DEF Faultless
  <2>4. page \in {"x", "y"} \cup Accel => page \in Accel
    BY DEF Accel
  <2>5. \A s \in {"x", "y", "z"} : page \in Accel /\ Peaks(s) => Peaks(s)'
    BY <2>1, <2>2 DEF Peaks
  <2>6. QED
    BY <1>1, <2>3, <2>5 DEF PeakInv, Accel
<1>3. SearchInv'
  <2>1. /\ timers' = [young |-> 0, due |-> timers.young + timers.due] /\ noise' = Working
        /\ timers.young \in Nat /\ timers.due \in Nat
    BY DEF Poll, TypesInv
  <2>2. timers'.young + timers'.due = timers.young + timers.due
    BY <2>1
  <2>3. Working' <=> Working
    BY <1>1 DEF Working
  <2>4. noise' <=> Working'
    BY <2>1, <2>3
  <2>5. SearchInv
    BY DEF Faultless
  <2>6. QED
    BY <1>1, <2>2, <2>4, <2>5 DEF SearchInv
<1>4. QED
  BY <1>1, <1>2, <1>3, FaultlessStays DEF Unfailing

\* A search that ends.
LEMMA FinishFaultless ==
  ASSUME TypesInv, Faultless, Unfailing, program = "gui", page = "configurator",
         UNCHANGED session,
         NEW c \in Config, NEW n \in Types \cup {0}, NEW due,
         SameCalibration(c, opened), FinishSearch(c, n, "user", due)
  PROVE  /\ lost' # "open" => Faultless'
         /\ config'.app = "user" /\ config'.type = n /\ ~search'.active
<1>1. SettingUp /\ OthersStored /\ Sound(stored.appconf)
  BY DEF Faultless, OthersStored
<1>2. /\ config' \in Config /\ config'.app = "user" /\ config'.type = n
      /\ SameCalibration(config', c)
  BY Searches DEF FinishSearch
<1>3. ~search'.active
  BY DEF FinishSearch, NoSearch
<1>4. ASSUME lost' # "open" PROVE Faultless'
  <2>1. Written("appconf", config', FALSE)
    BY <1>4, NoRaise, NoLoss DEF FinishSearch, Unfailing
  <2>2. OthersStored' /\ ram'.appconf = config' /\ stored' = stored
    BY <1>1, <1>2, <2>1, DeviceTyped, WritesKeepOthers
  <2>3. UNCHANGED <<page, program, opened>>
    BY DEF session
  <2>4. SettingUp'
    BY <1>1, <1>2, <1>3, <2>2, <2>3 DEF SettingUp, SameCalibration
  <2>5. Sound(stored.appconf)' /\ SearchInv'
    BY <1>1, <1>3, <2>2, StoredStays DEF SearchInv, Unfailing
  <2>6. QED
    BY <1>2, <2>2, <2>3, <2>4, <2>5, SetsUp
<1>5. QED
  BY <1>2, <1>3, <1>4

\* A type that is tried, not beyond the one that is fitted unless other timers run.
LEMMA TryFaultless ==
  ASSUME TypesInv, Faultless, Unfailing, program = "gui", page = "configurator",
         UNCHANGED session,
         NEW c \in Config, NEW n \in Nat, NEW due \in Nat,
         SameCalibration(c, opened), TryCandidate(c, n, "user", due),
         timers.young + 1 + due < 2 => n <= Fitted
  PROVE  /\ lost' # "open" => Faultless'
         /\ ~search'.active => config'.app = "user" /\ n \notin Types
<1> DEFINE tried == [c EXCEPT !.type = n]
<1>0. SettingUp /\ OthersStored /\ Sound(stored.appconf) /\ timers.young \in Nat
  BY DEF Faultless, OthersStored, TypesInv
<1>1. CASE n \notin Types /\ FinishSearch(c, 0, "user", due)
  BY <1>1, FinishFaultless
<1>2. CASE /\ n \in Types
           /\ config' = tried
           /\ Sent("appconf", tried, FALSE)
           /\ search' = [active |-> TRUE, candidate |-> n, app |-> "user"]
           /\ timers' = [young |-> timers.young + 1, due |-> due]
  <2>1. tried \in Config /\ tried.type = n /\ SameCalibration(tried, c)
    BY <1>2 DEF Config, SameCalibration, RestoreOf
  <2> HIDE DEF tried
  <2>2. search'.active /\ search'.candidate = n /\ search'.app = "user"
    BY <1>2
  <2>3. ASSUME lost' # "open" PROVE Faultless'
    <3>1. Written("appconf", tried, FALSE)
      BY <1>2, <2>3, NoLoss
    <3>2. OthersStored' /\ ram'.appconf = tried /\ stored' = stored
      BY <1>0, <2>1, <3>1, DeviceTyped, WritesKeepOthers
    <3>3. UNCHANGED <<page, program, opened>>
      BY DEF session
    <3>4. SettingUp'
      BY <1>0, <1>2, <2>1, <2>2, <3>2, <3>3 DEF SettingUp, SameCalibration
    <3>5. SearchInv'
      <4>1. timers'.young = timers.young + 1 /\ timers'.due = due
        BY <1>2
      <4>2. timers'.young + timers'.due < 2 => n <= Fitted /\ ~(timers'.due > 0)
        BY <1>0, <4>1
      <4>3. QED
        BY <2>1, <2>2, <3>2, <4>2 DEF SearchInv
    <3>6. Sound(stored.appconf)'
      BY <1>0, <3>2, StoredStays DEF Unfailing
    <3>7. QED
      BY <3>2, <3>3, <3>4, <3>5, <3>6, SetsUp
  <2>4. QED
    BY <2>2, <2>3
<1>3. CASE /\ n \in Types
           /\ config' = Searched(c, n, "user")
           /\ WriteRaisesThen("appconf", tried, config')
  <2>1. tried \in Config
    BY <1>3 DEF Config
  <2>2. config' \in Config
    BY <1>3, Searches
  <2>3. fails' > 0
    BY <1>3, <2>1, <2>2, DeviceTyped, RaisedTwiceChanges
  <2>4. QED
    BY <2>3 DEF Unfailing
<1>4. QED
  BY <1>1, <1>2, <1>3 DEF TryCandidate

\* A search that starts, goes on or ends; as long as its timer is the only one it ends with
\* the type that is fitted.
LEMMA SearchFaultless ==
  ASSUME TypesInv, PageInv, Faultless, Unfailing, program = "gui",
         (page = "configurator" /\ StartSearch) \/ CheckCandidate
  PROVE  /\ lost' # "open" => Faultless'
         /\ search.active /\ ~search'.active =>
              /\ config'.app = search.app
              /\ timers.young + timers.due < 2 => config'.type = Fitted
<1>0. /\ timers.young \in Nat /\ timers.due \in Nat /\ config \in Config
      /\ search.candidate \in Nat
      /\ Fitted \in Nat /\ Fitted \in Types
  BY TypesAssumption DEF TypesInv, Types
<1>1. CASE page = "configurator" /\ StartSearch
  <2> DEFINE c == [config EXCEPT !.app = "off"]
  <2>1. SettingUp
    BY <1>1 DEF Faultless
  <2>2. UNCHANGED session /\ ~search.active /\ TryCandidate(c, 1, config.app, timers.due)
    BY <1>1 DEF StartSearch
  <2>3. config.app = "user"
    BY <2>1, <2>2 DEF SettingUp
  <2>4. c \in Config /\ SameCalibration(c, config)
    BY <1>0 DEF Config, SameCalibration, RestoreOf
  <2> HIDE DEF c
  <2>5. SameCalibration(c, opened)
    BY <2>1, <2>4 DEF SettingUp, SameCalibration
  <2>6. 1 <= Fitted
    BY TypesAssumption DEF Types
  <2>7. QED
    BY <1>0, <1>1, <2>2, <2>3, <2>4, <2>5, <2>6, TryFaultless
<1>2. CASE CheckCandidate
  <2>1. UNCHANGED session /\ timers.due > 0 /\ timers.due - 1 \in Nat
    BY <1>0, <1>2 DEF CheckCandidate
  <2>2. CASE search.active
    <3>1. /\ page = "configurator" /\ SettingUp /\ search.app = "user" /\ SearchInv
          /\ search.candidate \in Types /\ SameCalibration(config, opened)
      BY <2>2 DEF Faultless, TypesInv, PageInv, SettingUp
    <3>2. timers.young + timers.due < 2 =>
            search.candidate <= Fitted /\ (noise <=> search.candidate = Fitted)
      BY <2>1, <2>2, <3>1 DEF SearchInv, Working
    <3>3. CASE noise /\ FinishSearch(config, search.candidate, search.app, timers.due - 1)
      BY <1>0, <2>1, <3>1, <3>2, <3>3, FinishFaultless
    <3>4. CASE ~noise /\ TryCandidate(config, search.candidate + 1, search.app, timers.due - 1)
      <4>0. timers.young + timers.due < 2 => search.candidate <= Fitted
            /\ search.candidate # Fitted
        BY <3>2, <3>4, Zenon
      <4>1. timers.young + timers.due < 2 => search.candidate + 1 <= Fitted
        BY <1>0, <4>0
      <4>2. timers.young + 1 + (timers.due - 1) < 2 => search.candidate + 1 <= Fitted
        BY <1>0, <4>1
      <4>3. search.candidate + 1 <= Fitted => search.candidate + 1 \in Types
        BY <1>0, TypesAssumption DEF Types
      <4>4. search.candidate + 1 \in Nat
        BY <1>0
      <4>5. TryCandidate(config, search.candidate + 1, "user", timers.due - 1)
        BY <3>1, <3>4
      <4>6. /\ lost' # "open" => Faultless'
            /\ ~search'.active => config'.app = "user" /\ search.candidate + 1 \notin Types
        BY <1>0, <2>1, <3>1, <4>2, <4>4, <4>5, TryFaultless
      <4>7. QED
        BY <3>1, <4>1, <4>3, <4>6
    <3>5. QED
      BY <1>2, <2>2, <3>3, <3>4 DEF CheckCandidate
  <2>3. CASE ~search.active
    <3>1. /\ UNCHANGED <<ram, stored, lost, config, opened, search, page, program>>
          /\ UNCHANGED peak
      BY <1>2, <2>1, <2>3 DEF CheckCandidate, device, session
    <3>2. SearchInv'
      BY <2>3, <3>1 DEF SearchInv
    <3>3. ASSUME lost' = "none" PROVE PeakInv'
      <4>1. \A s \in {"x", "y", "z"} : Reading(s)' = Reading(s)
        BY <3>1, SameReadings
      <4>2. QED
        BY <3>1, <3>3, <4>1 DEF Faultless, PeakInv, Peaks
    <3>4. QED
      BY <2>3, <3>1, <3>2, <3>3, FaultlessStays DEF Unfailing
  <2>4. QED
    BY <2>2, <2>3
<1>3. QED
  BY <1>1, <1>2

\* Nor does a choice in the menu of the window whose write was answered.
LEMMA MenuFaultless ==
  ASSUME TypesInv, PageInv, Faultless, Unfailing, lost' # "open", program = "gui", MenuPage
  PROVE  Faultless'
<1>1. /\ page = "menu" /\ ~search.active /\ config = ram.appconf /\ ram.appconf = stored.appconf
      /\ OthersStored /\ Sound(stored.appconf) /\ config \in Config
  BY DEF MenuPage, PageInv, Faultless, AtRest, OthersStored, TypesInv
<1>2. UNCHANGED <<program, search>> /\ opened' = config
  BY DEF MenuPage, OpenConfigurator, OpenGyro, OpenAccel, OpenOrientation
<1>3. CASE OpenConfigurator
  <2>1. page' = "configurator" /\ config' = Profiled(config, "default")
        /\ UNCHANGED <<ram, stored>>
    BY <1>3 DEF OpenConfigurator, device
  <2>2. config'.app = config.app /\ SameCalibration(config', config)
    BY <1>1, <2>1, ProfiledFields DEF Profiles, SameCalibration
  <2>3. SettingUp'
    BY <1>1, <1>2, <2>1, <2>2 DEF SettingUp, SameCalibration, Sound, Owned
  <2>4. SearchInv' /\ OthersStored' /\ Sound(stored.appconf)'
    BY <1>1, <1>2, <2>1, StoredStays DEF SearchInv, OthersStored, Unfailing
  <2>5. QED
    BY <2>1, <2>3, <2>4, SetsUp
<1>4. CASE OpenGyro \/ OpenAccel
  <2>1. /\ page' \in {"gyro", "x"} /\ UNCHANGED <<ram, stored, config>>
        /\ page' = "x" => peak' = NoPeak
    BY <1>4 DEF OpenGyro, OpenAccel, device
  <2>2. PeakInv'
    <3>1. page' = "x" => \A s \in {"x", "y", "z"} : Peaks(s)'
      BY <2>1 DEF Peaks, NoPeak, Accel
    <3>2. page' # "x" => page' \notin {"x", "y"} \cup Accel
      BY <2>1 DEF Accel
    <3>3. QED
      BY <3>1, <3>2 DEF PeakInv
  <2>3. OthersStored' /\ Sound(stored.appconf)'
    BY <1>1, <1>2, <2>1, StoredStays DEF OthersStored, Unfailing
  <2>4. QED
    BY <1>1, <1>2, <2>1, <2>2, <2>3, Rests DEF AtRest
<1>5. CASE OpenOrientation
  <2>1. Prepared(config) \in Config /\ config' = Prepared(config)
    BY <1>1, <1>5, PreparedFields DEF OpenOrientation
  <2>2. Written("appconf", Prepared(config), FALSE) /\ page' = "roll"
    <3>1. \/ Written("appconf", Prepared(config), FALSE) /\ page' = "roll"
          \/ WriteRaises("appconf", Prepared(config), FALSE)
      BY <1>5, <2>1, NoLoss DEF OpenOrientation
    <3>2. ~WriteRaises("appconf", Prepared(config), FALSE)
      BY NoRaise DEF Unfailing
    <3>3. QED
      BY <3>1, <3>2
  <2>3. QED
    BY <1>1, <1>2, <2>1, <2>2, OrientationBegins DEF Unfailing
<1>6. QED
  BY <1>3, <1>4, <1>5 DEF MenuPage

\* What is stored is stored, and the next page is one at rest.
LEMMA CommitFaultless ==
  ASSUME TypesInv, Unfailing, lost' # "open", program = "gui", ~search.active, OthersStored,
         NEW c \in Config, NEW next \in AtRest, Commit(c, TRUE, next),
         Framed(c), c.app = "user", ~Guessed' => Measured(c), lost' = "none" => PeakInv'
  PROVE  Faultless'
<1>1. Written("appconf", c, TRUE) /\ SetPage(next) /\ config' = c /\ UNCHANGED <<program, search>>
  <2>1. ~WriteRaises("appconf", c, TRUE)
    BY NoRaise DEF Unfailing
  <2>2. QED
    BY <2>1, NoLoss DEF Commit
<1>2. OthersStored' /\ ram'.appconf = c /\ stored'.appconf = c
  BY <1>1, DeviceTyped, WritesKeepOthers
<1>3. Sound(stored.appconf)'
  BY <1>2, SoundStored
<1>4. page' = next
  BY <1>1 DEF SetPage
<1>5. QED
  BY <1>1, <1>2, <1>3, <1>4, Rests

\* Off the accelerometer pages there are no peaks to speak of.
LEMMA NoPeaks ==
  ASSUME page' \in {"menu", "gyro"}
  PROVE  PeakInv'
BY DEF PeakInv, Accel

\* Nor does the page that chooses the IMU and its profile.
LEMMA ConfiguratorFaultless ==
  ASSUME TypesInv, PageInv, Faultless, Unfailing, lost' # "open", program = "gui",
         ConfiguratorPage
  PROVE  Faultless'
<1>1. /\ page = "configurator" /\ SettingUp /\ OthersStored /\ Sound(stored.appconf)
      /\ config \in Config
      /\ SearchInv
  BY DEF ConfiguratorPage, Faultless, OthersStored, TypesInv
<1>2. CASE StartSearch
  BY <1>1, <1>2, SearchFaultless
<1>3. ASSUME NEW p \in Profiles, ChooseProfile(p) PROVE Faultless'
  <2>1. config' = Profiled(config, p)
        /\ UNCHANGED <<ram, stored, page, program, opened, search>>
        /\ UNCHANGED <<timers, noise>>
    BY <1>3 DEF ChooseProfile, device, session
  <2>2. config'.app = config.app /\ SameCalibration(config', config)
    BY <1>1, <2>1, ProfiledFields DEF SameCalibration
  <2>3. SettingUp'
    BY <1>1, <2>1, <2>2 DEF SettingUp, SameCalibration
  <2>4. SearchInv' /\ OthersStored' /\ Sound(stored.appconf)'
    BY <1>1, <2>1, StoredStays DEF SearchInv, OthersStored, Working, Unfailing
  <2>5. QED
    BY <1>1, <2>1, <2>3, <2>4, SetsUp
<1>4. CASE SaveConfigurator
  <2>1. ~search.active /\ Commit(config, TRUE, "menu")
    BY <1>4 DEF SaveConfigurator
  <2>2. config.app = "user" /\ config.rot = opened.rot /\ config.frame = opened.frame
        /\ config.off = opened.off /\ opened = stored.appconf
    BY <1>1, <2>1 DEF SettingUp, SameCalibration, RestoreOf
  <2>3. Framed(config) /\ (~Guessed' => Measured(config))
    BY <1>1, <2>1, <2>2 DEF Sound, Owned, Framed, Measured, Unfailing
  <2>4. page' = "menu"
    BY <2>1, NoRaise DEF Commit, SetPage, Unfailing
  <2>5. PeakInv' /\ "menu" \in AtRest
    BY <2>4, NoPeaks DEF AtRest
  <2>6. QED
    BY <1>1, <2>1, <2>2, <2>3, <2>5, CommitFaultless
<1>5. QED
  BY <1>2, <1>3, <1>4 DEF ConfiguratorPage

\* Nor does saving the gyroscope offsets.
LEMMA GyroFaultless ==
  ASSUME TypesInv, PageInv, Faultless, Unfailing, lost' # "open", program = "gui", SaveGyro
  PROVE  Faultless'
<1> DEFINE x == Reading("gyro")
           c == Calibrated(config, "gyro", x)
<1>1. /\ page = "gyro" /\ ~search.active /\ config = ram.appconf /\ ram.appconf = stored.appconf
      /\ OthersStored /\ Sound(stored.appconf) /\ config \in Config
      /\ Commit(c, TRUE, "menu")
  BY DEF SaveGyro, PageInv, Faultless, AtRest, OthersStored, TypesInv
<1>2. x \in Int /\ (Working \/ x = 0) /\ "gyro" \in Sensors
  BY Readings DEF TypesInv, Sensors, Reading
<1>3. c \in Config /\ Framed(c) /\ c.app = "user" /\ (~Guessed' => Measured(c))
  BY <1>1, <1>2, CalibratedFields, CalibratedSound DEF Unfailing
<1> HIDE DEF c
<1>4. page' = "menu"
  BY <1>1, NoRaise DEF Commit, SetPage, Unfailing
<1>5. PeakInv' /\ "menu" \in AtRest
  BY <1>4, NoPeaks DEF AtRest
<1>6. QED
  BY <1>1, <1>3, <1>5, CommitFaultless

\* The peaks of the axes that come are those of before.
LEMMA NextPeaks ==
  ASSUME PeakInv, program = "gui", page \in Accel, SetPage(NextPage[page]),
         \A s \in Accel : s # page => Reading(s)' = Reading(s)
  PROVE  PeakInv'
<1>1. CASE page = "x"
  <2>1. page' = "y" /\ UNCHANGED peak /\ Peaks("y") /\ Peaks("z")
    BY <1>1, NextPages DEF SetPage, PeakInv, Accel
  <2>2. Peaks("y")' /\ Peaks("z")'
    BY <1>1, <2>1 DEF Peaks, Accel
  <2>3. QED
    BY <2>1, <2>2 DEF PeakInv
<1>2. CASE page = "y"
  <2>1. page' = "z" /\ UNCHANGED peak /\ Peaks("z")
    BY <1>2, NextPages DEF SetPage, PeakInv, Accel
  <2>2. Peaks("z")'
    BY <1>2, <2>1 DEF Peaks, Accel
  <2>3. QED
    BY <2>1, <2>2 DEF PeakInv
<1>3. CASE page = "z"
  <2>1. page' = "menu"
    BY <1>3, NextPages DEF SetPage
  <2>2. QED
    BY <2>1, NoPeaks
<1>4. QED
  BY <1>1, <1>2, <1>3 DEF Accel

\* Nor do the accelerometer pages.
LEMMA AccelFaultless ==
  ASSUME TypesInv, PageInv, Faultless, Unfailing, lost' # "open", program = "gui", AccelPage
  PROVE  Faultless'
<1>1. /\ page \in Accel /\ ~search.active /\ config = ram.appconf /\ ram.appconf = stored.appconf
      /\ OthersStored /\ Sound(stored.appconf) /\ config \in Config
      /\ (lost = "none" => PeakInv)
      /\ page \in Sensors /\ NextPage[page] \in AtRest
  BY NextPages DEF AccelPage, PageInv, Faultless, AtRest, OthersStored, TypesInv, Accel,
     Sensors
<1>2. CASE SaveAccel
  <2> DEFINE x == peak[page]
             c == Calibrated(config, page, x)
  <2>1. Commit(c, TRUE, NextPage[page]) /\ SaveMeasured(peak[page] # Unset /\ Working)
    BY <1>2 DEF SaveAccel
  <2>2. ~Guessed' => peak[page] # Unset /\ Working /\ lost = "none"
    BY <2>1 DEF SaveMeasured, Guessed, Unfailing
  <2>3. lost = "none" => peak[page] \in {Unset, Reading(page)}
    BY <1>1 DEF PeakInv, Peaks, Accel
  <2>4. x \in Int /\ (~Guessed' => Working /\ x = Reading(page))
    BY <1>1, <2>2, <2>3 DEF TypesInv
  <2>5. c \in Config /\ Framed(c) /\ c.app = "user" /\ (~Guessed' => Measured(c))
    BY <1>1, <2>4, CalibratedFields, CalibratedSound DEF Unfailing
  <2>6. /\ Alike(c, config)
        /\ \A s \in Sensors : s # page => c.off[s] = config.off[s]
    <3>1. c.off = [config.off EXCEPT ![page] = config.off[page] + x] /\ Alike(c, config)
      BY <1>1, <2>4, CalibratedFields
    <3>2. config.off \in [Sensors -> Int]
      BY <1>1, Fields
    <3> HIDE DEF c
    <3>3. QED
      BY <3>1, <3>2
  <2> HIDE DEF c, x
  <2>7. SetPage(NextPage[page]) /\ Written("appconf", c, TRUE)
    BY <2>1, NoRaise, NoLoss DEF Commit, Unfailing
  <2>8. ram'.appconf = c
    BY <1>1, <2>5, <2>7, DeviceTyped, WritesKeepOthers
  <2>9. \A s \in Accel : s # page => Reading(s)' = Reading(s)
    <3>1. \A s \in Accel : s # page =>
            ram'.appconf.type = ram.appconf.type /\ ram'.appconf.off[s] = ram.appconf.off[s]
      BY <1>1, <2>6, <2>8 DEF Alike, Accel, Sensors
    <3>2. QED
      BY <3>1, SameReadings
  <2>10. lost' = "none" => PeakInv'
    BY <1>1, <2>7, <2>9, NextPeaks DEF Unfailing
  <2>11. QED
    BY <1>1, <2>1, <2>5, <2>10, CommitFaultless
<1>3. CASE SkipAccel
  <2>1. SetPage(NextPage[page]) /\ UNCHANGED <<ram, stored, lost, program, config, search>>
    BY <1>3 DEF SkipAccel, device
  <2>2. \A s \in Accel : Reading(s)' = Reading(s)
    BY <2>1, SameReadings
  <2>3. lost' = "none" => PeakInv'
    BY <1>1, <2>1, <2>2, NextPeaks
  <2>4. page' = NextPage[page]
    BY <2>1 DEF SetPage
  <2>5. OthersStored' /\ Sound(stored.appconf)'
    BY <1>1, <2>1, StoredStays DEF OthersStored, Unfailing
  <2>6. QED
    BY <1>1, <2>1, <2>3, <2>4, <2>5, Rests
<1>4. CASE ClearMax
  <2>1. /\ peak' = NoPeak
        /\ UNCHANGED <<ram, stored, config, opened, search, page, program>>
    BY <1>4 DEF ClearMax, device, session
  <2>2. PeakInv'
    BY <2>1 DEF PeakInv, Peaks, NoPeak, Accel
  <2>3. SearchInv'
    BY <1>1, <2>1 DEF SearchInv
  <2>4. QED
    BY <2>1, <2>2, <2>3, FaultlessStays DEF Unfailing
<1>5. QED
  BY <1>2, <1>3, <1>4 DEF AccelPage

\* A sub-step of the orientation and the angle it writes.
LEMMA OrientationAngle ==
  ASSUME TypesInv, StepKept, Orienting, page \in Axes
  PROVE  /\ restore.rot[page] \in Int /\ Angle(page) \in Int
         /\ ram.appconf.rot[page] = 0
         /\ restore.rot[page] = opened.rot[page]
<1>1. restore.rot[page] \in Int /\ Angle(page) \in Int
  BY Readings DEF TypesInv, Calibration, Rotations
<1>2. restore.rot[page] = opened.rot[page]
  BY DEF StepKept, RestoreOf
<1>3. config.rot[page] = 0 /\ config = ram.appconf
  BY DEF Orienting, Axes
<1>4. QED
  BY <1>1, <1>2, <1>3

\* Nor do the orientation pages.
LEMMA OrientationFaultless ==
  ASSUME TypesInv, PageInv, StepInv, Faultless, Unfailing, lost' # "open", program = "gui",
         OrientationPage
  PROVE  Faultless'
<1>1. /\ page \in Axes /\ ~search.active /\ Orienting /\ StepKept
      /\ OthersStored /\ Sound(stored.appconf)
  BY DEF OrientationPage, PageInv, StepInv, StepKept, Faultless, OthersStored, Axes
<1>2. /\ restore.rot[page] \in Int /\ Angle(page) \in Int
      /\ ram.appconf.rot[page] = 0
      /\ restore.rot[page] = opened.rot[page]
  BY <1>1, OrientationAngle
<1>3. PICK x \in Int : /\ Commit(Turned(config, page, x), page = "yaw", NextPage[page])
                       /\ AngleAllowed(page, x)
  <2>1. CASE SaveOrientation
    <3>1. hasty' = (hasty \/ ~Working) /\ ram \in Configurations
      BY <2>1 DEF SaveOrientation, TypesInv
    <3>2. AngleAllowed(page, Angle(page))
      BY <1>1, <1>2, <3>1, MeasuredAngle
    <3>3. QED
      BY <1>2, <2>1, <3>2 DEF SaveOrientation
  <2>2. CASE SkipOrientation
    BY <1>2, <2>2 DEF SkipOrientation, AngleAllowed
  <2>3. QED
    BY <2>1, <2>2 DEF OrientationPage
<1> DEFINE c == Turned(config, page, x)
           store == page = "yaw"
<1>4. /\ config' = c /\ Written("appconf", c, store) /\ SetPage(NextPage[page])
      /\ UNCHANGED <<program, search>>
  BY <1>3, NoRaise, NoLoss DEF Commit, Unfailing
<1>5. /\ OthersStored' /\ Sound(stored.appconf)' /\ config' = ram'.appconf
      /\ page = "roll" /\ page' = "pitch" /\ opened' = opened => Orienting'
      /\ page = "pitch" /\ page' = "yaw" /\ opened' = opened => Orienting'
      /\ page = "yaw" => ram'.appconf = stored'.appconf
  BY <1>1, <1>3, <1>4, OrientationGoesOn DEF Unfailing
<1>6. CASE page = "roll"
  <2>1. page' = "pitch" /\ opened' = opened
    BY <1>4, <1>6, NextPages DEF SetPage
  <2>2. QED
    BY <1>1, <1>4, <1>5, <1>6, <2>1, Orients DEF Axes
<1>7. CASE page = "pitch"
  <2>1. page' = "yaw" /\ opened' = opened
    BY <1>4, <1>7, NextPages DEF SetPage
  <2>2. QED
    BY <1>1, <1>4, <1>5, <1>7, <2>1, Orients DEF Axes
<1>8. CASE page = "yaw"
  <2>1. page' = "menu"
    BY <1>4, <1>8, NextPages DEF SetPage
  <2>2. QED
    BY <1>1, <1>4, <1>5, <1>8, <2>1, NoPeaks, Rests DEF AtRest
<1>9. QED
  BY <1>1, <1>6, <1>7, <1>8 DEF Axes

\* Cancel goes back to the configuration that the step was opened with.
LEMMA CancelsTo ==
  ASSUME StepInv, program = "gui", Cancel, page \in Axes \cup {"configurator"},
         opened \in Config, config \in Config
  PROVE  config' = opened
<1>1. CASE page = "configurator"
  BY <1>1, NoAxes DEF Cancel
<1>2. CASE page \in Axes
  <2>1. restore = RestoreOf(opened) /\ Alike(config, opened)
    BY <1>2 DEF StepInv
  <2>2. Restored(config, RestoreOf(opened)) = opened
    BY <2>1, RestoredUndoes
  <2>3. page # "configurator"
    BY <1>2, NoAxes
  <2>4. QED
    BY <1>2, <2>1, <2>2, <2>3 DEF Cancel
<1>3. QED
  BY <1>1, <1>2

\* Nor does Cancel, which writes back what the pages had opened.
LEMMA CancelFaultless ==
  ASSUME TypesInv, PageInv, StepInv, Faultless, Unfailing, lost' # "open", program = "gui",
         Cancel
  PROVE  Faultless'
<1>1. /\ OthersStored /\ Sound(stored.appconf) /\ UNCHANGED program /\ page' = "menu"
      /\ config \in Config /\ opened \in Config
  BY DEF Faultless, OthersStored, Cancel, SetPage, TypesInv
<1>2. ~search'.active
  BY DEF Cancel, PageInv, NoSearch
<1>3. CASE page \in Axes \cup {"configurator"}
  <2>1. opened = stored.appconf
    BY <1>3 DEF Faultless, SettingUp, Orienting
  <2>2. config' = opened
    BY <1>1, <1>3, CancelsTo
  <2>3. Written("appconf", config', FALSE)
    BY <1>3, NoRaise, NoLoss DEF Cancel, Unfailing
  <2>4. OthersStored' /\ ram'.appconf = opened /\ stored' = stored
    BY <1>1, <2>2, <2>3, DeviceTyped, WritesKeepOthers
  <2>5. QED
    BY <1>1, <1>2, <2>1, <2>2, <2>4, StoredStays, NoPeaks, Rests DEF AtRest, Unfailing
<1>4. CASE page \notin Axes \cup {"configurator"}
  <2>1. UNCHANGED <<ram, stored, config>>
    BY <1>4 DEF Cancel, device
  <2>2. page \in AtRest
    BY <1>4 DEF PageInv, AtRest, Accel
  <2>3. config = ram.appconf /\ ram.appconf = stored.appconf
    BY <2>2 DEF Faultless
  <2>4. OthersStored' /\ Sound(stored.appconf)'
    BY <1>1, <2>1, StoredStays DEF OthersStored, Unfailing
  <2>5. QED
    BY <1>1, <1>2, <2>1, <2>3, <2>4, NoPeaks, Rests DEF AtRest
<1>5. QED
  BY <1>3, <1>4

-----------------------------------------------------------------------------
(* The wizard, as long as nothing failed.                                  *)

\* A step of the wizard writes, and goes on.
LEMMA ThenWrites ==
  ASSUME TypesInv, OthersStored, program = "wizard", fails' = 0, lost' # "open",
         NEW c \in Config, NEW store, NEW step,
         WriteThen(c, store, step)
  PROVE  /\ config' = c /\ ram'.appconf = c /\ OthersStored' /\ Continue(step)
         /\ store => stored'.appconf = c
         /\ ~store => stored' = stored
         /\ Written("appconf", c, store)
<1>1. Written("appconf", c, store) /\ Continue(step) /\ config' = c
  BY NoRaise, NoLoss DEF WriteThen
<1>2. QED
  BY <1>1, DeviceTyped, WritesKeepOthers

\* Whether it is lost or not.
LEMMA ThenGoesOn ==
  ASSUME TypesInv, fails' = 0, NEW c, NEW store, NEW step, WriteThen(c, store, step)
  PROVE  config' = c /\ Continue(step)
BY NoRaise DEF WriteThen

\* The wizard keeps no peaks.
LEMMA WizardPeaks ==
  ASSUME program' # "gui"
  PROVE  PeakInv'
BY DEF PeakInv

\* A step at rest that goes on to another, or ends the program.
LEMMA WizardRests ==
  ASSUME program = "wizard", NEW step \in AtRest \cup {"over"}, Continue(step) \/ Ends,
         OthersStored', Sound(stored.appconf)', config' = ram'.appconf,
         ram'.appconf = stored'.appconf,
         ~search'.active
  PROVE  Faultless'
<1>1. CASE program' = "over"
  BY <1>1, IsOver
<1>2. CASE program' # "over"
  <2>1. program' = "wizard" /\ page' \in AtRest
    BY <1>2 DEF Continue, Ends
  <2>2. QED
    BY <2>1, WizardPeaks, Rests
<1>3. QED
  BY <1>1, <1>2

\* The search of the wizard samples no type beyond the one that is fitted, and ends with it.
LEMMA SampleFinds ==
  ASSUME TypesInv, PageInv, Faultless, SampleType,
         ~(~Working /\ search.candidate + 1 \in Types)
  PROVE  LET c == [config EXCEPT !.type = IF Working THEN search.candidate ELSE 0,
                                 !.app = search.app]
         IN  /\ search' = NoSearch /\ WriteThen(c, FALSE, "profile")
             /\ c \in Config /\ c.app = "user" /\ c.type = Fitted /\ SameCalibration(c, config)
<1> DEFINE n == IF Working THEN search.candidate ELSE 0
           c == [config EXCEPT !.type = n, !.app = search.app]
<1>1. /\ program = "wizard" /\ page = "sample" /\ search.active /\ search.app = "user"
      /\ config \in Config
      /\ search.candidate \in Types /\ search.candidate <= Fitted
      /\ ram.appconf.type = search.candidate
  <2>1. /\ program = "wizard" /\ page = "sample" /\ search.active /\ config \in Config
        /\ timers.young = 0 /\ timers.due = 0 /\ search.candidate \in Types
    BY DEF SampleType, WizardAt, PageInv, TypesInv
  <2>2. SettingUp /\ SearchInv
    BY <2>1 DEF Faultless
  <2>3. timers.young + timers.due < 2
    BY <2>1
  <2>4. QED
    BY <2>1, <2>2, <2>3 DEF SettingUp, SearchInv
<1>2. search' = NoSearch /\ WriteThen(c, FALSE, "profile")
  BY DEF SampleType
<1>3. n = Fitted
  <2>1. search.candidate \in Nat /\ Fitted \in Nat /\ Fitted \in Types
    BY <1>1, TypesAssumption DEF Types
  <2>2. CASE Working
    BY <1>1, <2>2 DEF Working
  <2>3. CASE ~Working
    <3>1. search.candidate # Fitted
      BY <1>1, <2>3 DEF Working
    <3>2. search.candidate + 1 <= Fitted
      BY <1>1, <2>1, <3>1
    <3>3. search.candidate + 1 \in Types
      BY <2>1, <3>2, TypesAssumption DEF Types
    <3>4. QED
      BY <2>3, <3>3
  <2>4. QED
    BY <2>2, <2>3
<1>4. n \in Types
  BY <1>3, TypesAssumption
<1> HIDE DEF n
<1>5. c \in Config /\ c.app = "user" /\ c.type = n /\ SameCalibration(c, config)
  BY <1>1, <1>4 DEF Config, SameCalibration, RestoreOf
<1>6. QED
  BY <1>2, <1>3, <1>5 DEF n

\* The step that sets type and profile.
LEMMA BasicFaultless ==
  ASSUME TypesInv, PageInv, Faultless, Unfailing, lost' # "open",
         \/ TryType \/ SampleType \/ StoreBasic \/ DiscardBasic
         \/ \E s \in BOOLEAN : BeginBasic(s)
  PROVE  Faultless'
<1>0. /\ program = "wizard" /\ fails' = 0 /\ (Guessed => Guessed')
      /\ page \in {"try", "sample", "profile", "basic"}
      /\ OthersStored /\ Sound(stored.appconf) /\ config \in Config /\ SearchInv
      /\ timers.young = 0 /\ timers.due = 0
      /\ page \in {"try", "sample"} <=> search.active
  BY DEF TryType, SampleType, StoreBasic, DiscardBasic, BeginBasic, WizardAt, Faultless,
     OthersStored, TypesInv, PageInv, Unfailing
<1>1. ASSUME page \in {"try", "sample", "profile"}
      PROVE  SettingUp /\ opened \in Config /\ opened = stored.appconf
  BY <1>0, <1>1 DEF Faultless, SettingUp, TypesInv
<1>2. search.active => /\ search.candidate \in Types /\ search.candidate <= Fitted
                       /\ search.app = "user"
  <2>1. timers.young + timers.due < 2
    BY <1>0
  <2>2. search.active => search.candidate <= Fitted
    BY <1>0, <2>1 DEF SearchInv
  <2>3. search.active => search.app = "user"
    BY <1>0, <1>1 DEF SettingUp
  <2>4. QED
    BY <2>2, <2>3 DEF TypesInv
<1>3. CASE TryType
  <2> DEFINE c == [config EXCEPT !.type = search.candidate]
  <2>1. /\ page = "try" /\ WriteThen(c, FALSE, "sample")
        /\ UNCHANGED <<opened, search, timers, noise>>
    BY <1>3 DEF TryType, WizardAt, others, gui
  <2>2. c \in Config /\ c.type = search.candidate /\ SameCalibration(c, config)
    BY <1>0, <1>2, <2>1 DEF Config, SameCalibration, RestoreOf
  <2> HIDE DEF c
  <2>3. /\ config' = c /\ ram'.appconf = c /\ OthersStored' /\ Continue("sample")
        /\ stored' = stored
    BY <1>0, <2>1, <2>2, ThenWrites
  <2>4. page' = "sample" /\ program' = "wizard"
    BY <1>0, <2>3 DEF Continue
  <2>5. SettingUp'
    BY <1>0, <1>1, <1>2, <2>1, <2>2, <2>3 DEF SettingUp, SameCalibration
  <2>6. SearchInv'
    BY <1>0, <1>2, <2>1, <2>2, <2>3 DEF SearchInv
  <2>7. QED
    BY <1>0, <2>1, <2>3, <2>4, <2>5, <2>6, StoredStays, SetsUp
<1>4. CASE SampleType
  <2>1. page = "sample" /\ search.active /\ UNCHANGED <<opened, timers, noise>> /\ SettingUp
    BY <1>0, <1>1, <1>4 DEF SampleType, WizardAt, gui
  <2>2. ram.appconf.type = search.candidate
    BY <2>1, <1>0 DEF SearchInv
  <2>3. CASE ~Working /\ search.candidate + 1 \in Types
    <3>1. /\ search' = [search EXCEPT !.candidate = search.candidate + 1]
          /\ page' = "try" /\ UNCHANGED <<ram, stored, program, config>>
      BY <1>4, <2>3 DEF SampleType, device
    <3>2. search'.active = search.active /\ search'.app = search.app
          /\ search'.candidate = search.candidate + 1
      BY <3>1 DEF TypesInv
    <3>3. search'.candidate <= Fitted
      <4>1. search.candidate # Fitted /\ search.candidate \in Nat /\ Fitted \in Nat
        BY <1>2, <2>1, <2>2, <2>3, TypesAssumption DEF Working, Types
      <4>2. QED
        BY <1>2, <2>1, <3>2, <4>1
    <3>4. SettingUp'
      BY <1>2, <2>1, <3>1, <3>2 DEF SettingUp, SameCalibration
    <3>5. SearchInv'
      BY <1>0, <2>1, <3>1, <3>3 DEF SearchInv
    <3>6. OthersStored' /\ Sound(stored.appconf)'
      BY <1>0, <3>1, StoredStays DEF OthersStored
    <3>7. QED
      BY <2>1, <3>1, <3>2, <3>4, <3>5, <3>6, SetsUp
  <2>4. CASE ~(~Working /\ search.candidate + 1 \in Types)
    <3> DEFINE c == [config EXCEPT !.type = IF Working THEN search.candidate ELSE 0,
                                   !.app = search.app]
    <3>1. /\ search' = NoSearch /\ WriteThen(c, FALSE, "profile")
          /\ c \in Config /\ c.app = "user" /\ SameCalibration(c, config)
      BY <1>4, <2>4, SampleFinds
    <3> HIDE DEF c
    <3>2. /\ config' = c /\ ram'.appconf = c /\ OthersStored' /\ Continue("profile")
          /\ stored' = stored
      BY <1>0, <3>1, ThenWrites
    <3>3. page' = "profile"
      BY <3>2 DEF Continue
    <3>4. ~search'.active
      BY <3>1 DEF NoSearch
    <3>5. SettingUp'
      BY <2>1, <3>1, <3>2, <3>4 DEF SettingUp, SameCalibration
    <3>6. SearchInv' /\ Sound(stored.appconf)'
      BY <1>0, <3>2, <3>4, StoredStays DEF SearchInv
    <3>7. QED
      BY <2>1, <3>2, <3>3, <3>5, <3>6, SetsUp
  <2>5. QED
    BY <2>3, <2>4
<1>5. CASE StoreBasic
  <2>1. page = "profile" /\ ~search.active /\ search' = search
    BY <1>0, <1>5 DEF StoreBasic, WizardAt, others
  <2>2. PICK c \in {config} \cup {Profiled(config, p) : p \in Profiles} :
          WriteThen(c, TRUE, "gyro")
    BY <1>5 DEF StoreBasic
  <2>3. c \in Config /\ SameCalibration(c, config) /\ c.app = config.app
    BY <1>0, ProfiledFields DEF SameCalibration
  <2>4. /\ config' = c /\ ram'.appconf = c /\ OthersStored' /\ Continue("gyro")
        /\ stored'.appconf = c
    BY <1>0, <2>2, <2>3, ThenWrites
  <2>5. c.rot = stored.appconf.rot /\ c.frame = stored.appconf.frame /\ c.off = stored.appconf.off
        /\ c.app = "user"
    BY <1>1, <2>1, <2>3 DEF SettingUp, SameCalibration, RestoreOf
  <2>6. Framed(c) /\ (~Guessed' => Measured(c))
    BY <1>0, <2>5 DEF Sound, Owned, Framed, Measured
  <2>7. Sound(stored.appconf)'
    BY <2>4, <2>5, <2>6, SoundStored
  <2>8. QED
    BY <1>0, <2>1, <2>4, <2>7, WizardRests DEF AtRest
<1>6. CASE DiscardBasic
  <2>1. page = "profile" /\ ~search.active /\ search' = search /\ WriteThen(opened, FALSE, "gyro")
    BY <1>0, <1>6 DEF DiscardBasic, WizardAt, others
  <2>2. opened \in Config /\ opened = stored.appconf
    BY <1>1, <2>1
  <2>3. /\ config' = opened /\ ram'.appconf = opened /\ OthersStored' /\ Continue("gyro")
        /\ stored' = stored
    BY <1>0, <2>1, <2>2, ThenWrites
  <2>4. QED
    BY <1>0, <2>1, <2>2, <2>3, StoredStays, WizardRests DEF AtRest
<1>7. ASSUME NEW s \in BOOLEAN, BeginBasic(s)
      PROVE  Faultless'
  <2>1. /\ page = "basic" /\ ~search.active /\ opened' = config
        /\ UNCHANGED <<ram, stored, program, timers, noise>>
        /\ config = ram.appconf /\ ram.appconf = stored.appconf /\ config.app = "user"
    BY <1>0, <1>7 DEF BeginBasic, WizardAt, device, gui, Faultless, AtRest, Sound, Owned
  <2>2. OthersStored' /\ Sound(stored.appconf)'
    BY <1>0, <2>1, StoredStays DEF OthersStored
  <2>3. CASE s
    <3>1. /\ page' = "try" /\ search' = [active |-> TRUE, candidate |-> 1, app |-> config.app]
          /\ config' = [config EXCEPT !.app = "off"]
      BY <1>7, <2>3 DEF BeginBasic
    <3>2. SameCalibration(config', config)
      BY <1>0, <3>1 DEF Config, SameCalibration, RestoreOf
    <3>3. search'.active /\ search'.app = "user" /\ search'.candidate = 1
      BY <2>1, <3>1
    <3>4. SettingUp'
      BY <2>1, <3>2, <3>3 DEF SettingUp, SameCalibration
    <3>5. SearchInv'
      BY <1>0, <2>1, <3>1, <3>3, TypesAssumption DEF SearchInv, Types
    <3>6. QED
      BY <2>1, <2>2, <3>1, <3>4, <3>5, SetsUp
  <2>4. CASE ~s
    <3>1. page' = "profile" /\ UNCHANGED <<search, config>>
      BY <1>7, <2>4 DEF BeginBasic
    <3>2. SettingUp' /\ SearchInv'
      BY <2>1, <3>1 DEF SettingUp, SameCalibration, SearchInv
    <3>3. QED
      BY <2>1, <2>2, <3>1, <3>2, SetsUp
  <2>5. QED
    BY <2>3, <2>4
<1>8. QED
  BY <1>3, <1>4, <1>5, <1>6, <1>7

\* The wizard's gyroscope and accelerometer steps lose nothing of it either.
LEMMA CalibrationFaultless ==
  ASSUME TypesInv, PageInv, Faultless, Unfailing, lost' # "open", WizardGyro \/ WizardAccel
  PROVE  Faultless'
<1>0. /\ program = "wizard" /\ page \in {"gyro"} \cup Accel /\ search' = search
      /\ config \in Config
  BY DEF WizardGyro, WizardAccel, WizardAt, TypesInv, Accel
<1>1. /\ page \in Sensors /\ page \in AtRest /\ ~search.active /\ ~search'.active
      /\ config = ram.appconf /\ ram.appconf = stored.appconf
      /\ OthersStored /\ Sound(stored.appconf)
  BY <1>0 DEF Sensors, AtRest, Accel, Faultless, OthersStored, PageInv
<1>2. ASSUME NEW next \in AtRest, NEW choice, Choose(choice, next)
      PROVE  Faultless'
  <2>1. PICK step \in AtRest : Continue(step)
    BY <1>0, <1>1, <1>2 DEF Choose, Stay, Continue, AtRest
  <2>2. UNCHANGED <<ram, stored, config>>
    BY <1>2 DEF Choose, device
  <2>3. OthersStored' /\ Sound(stored.appconf)'
    BY <1>1, <2>2, StoredStays DEF OthersStored, Unfailing
  <2>4. QED
    BY <1>0, <1>1, <2>1, <2>2, <2>3, WizardRests
<1>3. ASSUME NEW next \in AtRest, WriteThen(Calibrated(config, page, Sampled(page)), TRUE, next),
             ~Guessed' => Working \/ page = "gyro"
      PROVE  Faultless'
  <2> DEFINE x == Reading(page)
             c == Calibrated(config, page, x)
  <2>1. x \in Int /\ (Working \/ page # "gyro" \/ x = 0)
    BY <1>1, Readings DEF TypesInv, Reading
  <2>2. c \in Config /\ Framed(c) /\ c.app = "user" /\ (~Guessed' => Measured(c))
    BY <1>0, <1>1, <1>3, <2>1, CalibratedFields, CalibratedSound DEF Unfailing
  <2>3. WriteThen(c, TRUE, next)
    BY <1>3 DEF Sampled
  <2> HIDE DEF c
  <2>4. /\ config' = c /\ ram'.appconf = c /\ OthersStored' /\ Continue(next)
        /\ stored'.appconf = c
    BY <1>0, <1>1, <2>2, <2>3, ThenWrites DEF Unfailing
  <2>5. Sound(stored.appconf)'
    BY <2>2, <2>4, SoundStored
  <2>6. QED
    BY <1>0, <1>1, <2>4, <2>5, WizardRests
<1>4. CASE WizardGyro
  <2>1. page = "gyro" /\ "x" \in AtRest
    BY <1>4 DEF WizardGyro, WizardAt, AtRest
  <2>2. PICK choice \in StepChoice :
          \/ Choose(choice, "x")
          \/ WriteThen(Calibrated(config, page, Sampled(page)), TRUE, "x")
    BY <1>4, <2>1 DEF WizardGyro
  <2>3. CASE Choose(choice, "x")
    BY <1>2, <2>1, <2>3
  <2>4. CASE WriteThen(Calibrated(config, page, Sampled(page)), TRUE, "x")
    BY <1>3, <2>1, <2>4
  <2>5. QED
    BY <2>2, <2>3, <2>4
<1>5. CASE WizardAccel
  <2> DEFINE next == IF page = "z" THEN "ready" ELSE NextPage[page]
  <2>1. next \in AtRest /\ "ready" \in AtRest
    BY <1>5, NextPages DEF WizardAccel, AtRest, Accel
  <2>2. PICK choice \in StepChoice :
          \/ Choose(choice, IF choice = "cancel" THEN "ready" ELSE next)
          \/ WriteThen(Calibrated(config, page, Sampled(page)), TRUE, next)
             /\ SaveMeasured(Working)
    BY <1>5 DEF WizardAccel
  <2> HIDE DEF next
  <2>3. SaveMeasured(Working) => (~Guessed' => Working)
    BY DEF SaveMeasured, Guessed
  <2>4. QED
    BY <1>2, <1>3, <2>1, <2>2, <2>3
<1>6. QED
  BY <1>4, <1>5

\* Both stores of the last sub-step leave a sound configuration.
LEMMA OrientFaultless ==
  ASSUME TypesInv, PageInv, StepInv, Faultless, Unfailing, lost' # "open",
         NEW axis \in Axes, NEW store, NEW next, Orient(axis, store, next),
         store <=> axis = "yaw",
         axis = "roll" => next = "pitch", axis = "pitch" => next = "yaw",
         axis = "yaw" => next = "over"
  PROVE  Faultless'
<1>1. /\ program = "wizard" /\ page = axis /\ UNCHANGED <<opened, search>>
  BY DEF Orient, WizardAt
<1>2. /\ ~search.active /\ Orienting /\ StepKept /\ OthersStored /\ Sound(stored.appconf)
  BY <1>1 DEF PageInv, StepInv, StepKept, Faultless, OthersStored, Axes
<1>3. /\ restore.rot[page] \in Int /\ Angle(page) \in Int
      /\ ram.appconf.rot[page] = 0
      /\ restore.rot[page] = opened.rot[page]
  BY <1>1, <1>2, OrientationAngle
<1>4. PICK x \in Int : /\ WriteThen(Turned(config, page, x), store, next)
                       /\ AngleAllowed(page, x)
  <2>1. CASE WriteThen(Turned(config, page, Angle(page)), store, next)
             /\ hasty' = (hasty \/ ~Working)
    <3>1. AngleAllowed(page, Angle(page))
      BY <1>1, <1>3, <2>1, MeasuredAngle DEF TypesInv
    <3>2. QED
      BY <1>3, <2>1, <3>1
  <2>2. CASE WriteThen(Turned(config, page, restore.rot[page]), store, next) /\ UNCHANGED hasty
    BY <1>3, <2>2 DEF AngleAllowed
  <2>3. QED
    BY <1>1, <2>1, <2>2 DEF Orient
<1>5. Turned(config, page, x) \in Config
  BY <1>1, TurnedFields DEF TypesInv
<1>6. /\ config' = Turned(config, page, x) /\ Continue(next)
      /\ Written("appconf", Turned(config, page, x), store)
  BY <1>1, <1>2, <1>4, <1>5, ThenWrites DEF Unfailing
<1>7. /\ OthersStored' /\ Sound(stored.appconf)'
      /\ page = "roll" /\ page' = "pitch" /\ opened' = opened => Orienting'
      /\ page = "pitch" /\ page' = "yaw" /\ opened' = opened => Orienting'
  BY <1>1, <1>2, <1>4, <1>6, OrientationGoesOn DEF Unfailing
<1>8. CASE axis = "yaw"
  <2>1. program' = "over"
    BY <1>6, <1>8 DEF Continue, Ends
  <2>2. QED
    BY <1>7, <2>1, IsOver
<1>9. CASE axis = "roll" \/ axis = "pitch"
  <2>1. page' = next /\ next \in Axes
    BY <1>6, <1>9 DEF Continue, Axes
  <2>2. QED
    BY <1>1, <1>2, <1>7, <1>9, <2>1, Orients
<1>10. QED
  BY <1>8, <1>9 DEF Axes

\* Steps that end the program, or leave a step out.
LEMMA EndFaultless ==
  ASSUME TypesInv, PageInv, StepInv, Faultless, Unfailing, lost' # "open",
         LeaveOut \/ BeginOrientation \/ LeaveOrientation \/ InterruptedStore \/ Interrupted
  PROVE  Faultless'
<1>0. /\ program = "wizard" /\ OthersStored /\ Sound(stored.appconf) /\ config \in Config
      /\ opened \in Config /\ restore \in Calibration /\ fails' = 0 /\ (Guessed => Guessed')
  BY DEF LeaveOut, BeginOrientation, LeaveOrientation, InterruptedStore, Interrupted,
     WizardAt, Faultless, OthersStored, TypesInv, Unfailing
<1>1. CASE LeaveOut
  <2>1. /\ page \in AtRest /\ ~search.active /\ UNCHANGED <<ram, stored, config, search>>
        /\ config = ram.appconf /\ ram.appconf = stored.appconf
    BY <1>0, <1>1 DEF LeaveOut, AtRest, PageInv, Faultless, device, others
  <2>2. \E step \in AtRest : Continue(step)
    BY <1>1 DEF LeaveOut, AtRest
  <2>3. OthersStored' /\ Sound(stored.appconf)'
    BY <1>0, <2>1, StoredStays DEF OthersStored
  <2>4. QED
    BY <1>0, <2>1, <2>2, <2>3, WizardRests
<1>2. CASE BeginOrientation
  <2>1. /\ page = "ready" /\ ~search.active /\ UNCHANGED search /\ opened' = config
        /\ config = ram.appconf /\ ram.appconf = stored.appconf
    BY <1>0, <1>2 DEF BeginOrientation, WizardAt, AtRest, PageInv, Faultless
  <2>2. CASE WriteThen(Prepared(config), FALSE, "roll")
    <3>1. Prepared(config) \in Config
      BY <1>0, PreparedFields
    <3>2. /\ config' = Prepared(config) /\ Continue("roll")
          /\ Written("appconf", Prepared(config), FALSE)
      BY <1>0, <2>2, <3>1, ThenWrites
    <3>3. page' = "roll"
      BY <3>2 DEF Continue
    <3>4. QED
      BY <1>0, <2>1, <3>2, <3>3, OrientationBegins
  <2>3. CASE Ends /\ UNCHANGED <<device, config>>
    <3>1. program' = "over" /\ UNCHANGED stored
      BY <2>3 DEF Ends, device
    <3>2. QED
      BY <1>0, <2>1, <3>1, StoredStays, IsOver
  <2>4. QED
    BY <1>2, <2>2, <2>3 DEF BeginOrientation
<1>3. CASE LeaveOrientation
  <2>1. WriteThen(Restored(config, restore), FALSE, "over")
    BY <1>3 DEF LeaveOrientation
  <2>2. Restored(config, restore) \in Config
    BY <1>0, RestoredFields
  <2>3. stored' = stored /\ Continue("over")
    BY <1>0, <2>1, <2>2, ThenWrites
  <2>4. program' = "over"
    BY <2>3 DEF Continue, Ends
  <2>5. QED
    BY <1>0, <2>1, <2>3, <2>4, StoredStays, IsOver
<1>4. CASE InterruptedStore
  <2>1. /\ page = "yaw" /\ Orienting /\ StepKept /\ hasty' = (hasty \/ ~Working)
        /\ program' = "over"
    BY <1>0, <1>4 DEF InterruptedStore, WizardAt, Ends, Faultless, Axes, StepInv, StepKept
  <2>2. /\ restore.rot[page] \in Int /\ Angle(page) \in Int
        /\ ram.appconf.rot[page] = 0
        /\ restore.rot[page] = opened.rot[page]
    BY <2>1, OrientationAngle DEF Axes
  <2>3. AngleAllowed(page, Angle(page)) /\ AngleAllowed(page, restore.rot[page])
    <3>1. AngleAllowed(page, Angle(page))
      BY <2>1, <2>2, MeasuredAngle DEF Axes, TypesInv
    <3>2. QED
      BY <2>2, <3>1 DEF AngleAllowed
  <2>4. PICK x \in Int : /\ stored' = [stored EXCEPT !["appconf"] = Turned(config, page, x)]
                         /\ AngleAllowed(page, x)
    BY <1>4, <2>1, <2>2, <2>3 DEF InterruptedStore
  <2>5. Turned(config, page, x) \in Config
    BY <1>0, <2>1, TurnedFields DEF Axes
  <2>6. stored'.appconf = Turned(config, page, x)
    BY <2>4, <2>5, WithAppconf DEF TypesInv
  <2>7. /\ Framed(Turned(config, page, x)) /\ Turned(config, page, x).app = "user"
        /\ ~Guessed' => Measured(Turned(config, page, x))
    BY <1>0, <2>1, <2>3, <2>4, TurnedOrientation DEF Axes
  <2>8. QED
    BY <2>1, <2>6, <2>7, SoundStored, IsOver
<1>5. CASE Interrupted
  <2>1. program' = "over" /\ UNCHANGED stored
    BY <1>5 DEF Interrupted, Ends
  <2>2. QED
    BY <1>0, <2>1, StoredStays, IsOver
<1>6. QED
  BY <1>1, <1>2, <1>3, <1>4, <1>5

-----------------------------------------------------------------------------
(* What is of one piece, whichever writes are lost.                        *)

\* At rest, or when all is over.
LEMMA OwnRests ==
  ASSUME page' \in AtRest \/ program' \notin {"gui", "wizard"},
         OthersStored', Owned(stored'.appconf), Owned(config')
  PROVE  Own'
<1>1. page' \in AtRest =>
        page' \notin Axes /\ page' \notin {"configurator", "try", "sample", "profile"}
  BY DEF AtRest, Axes
<1>2. QED
  BY <1>1 DEF Own, OthersStored, Owned, Framed

\* On a page that sets up the IMU, this much suffices.
LEMMA OwnSetsUp ==
  ASSUME page' \in {"configurator", "try", "sample", "profile"}, OthersStored',
         Owned(stored'.appconf), SettingOwn'
  PROVE  Own'
<1>1. page' \notin Axes /\ page' \notin AtRest
  BY DEF AtRest, Axes
<1>2. QED
  BY <1>1 DEF Own, OthersStored, Owned, Framed

\* And this much on a page of the orientation.
LEMMA OwnTurns ==
  ASSUME page' \in Axes, OthersStored', Owned(stored'.appconf), TurningOwn'
  PROVE  Own'
<1>1. page' \notin {"configurator", "try", "sample", "profile"} /\ page' \notin AtRest
  BY DEF AtRest, Axes
<1>2. QED
  BY <1>1 DEF Own, OthersStored, Owned, Framed

\* Without a program only the flash matters.
LEMMA OwnOver ==
  ASSUME program' \notin {"gui", "wizard"}, Owned(stored'.appconf)
  PROVE  Own'
BY DEF Own, Owned, Framed

\* A handler that leaves configurations, search and page alone.
LEMMA OwnStays ==
  ASSUME Own, UNCHANGED <<ram, stored, config, opened, search, page, program>>
  PROVE  Own'
BY DEF Own, SettingOwn, TurningOwn, Owned, Framed, SameCalibration, RestoreOf

\* A write that is stored, or may be lost, leaves in the flash what was there or what it is of.
LEMMA OwnSent ==
  ASSUME TypesInv, OthersStored, Owned(stored.appconf), fails' = 0,
         NEW c \in Config, NEW store, store => Owned(c),
         Sent("appconf", c, store) \/ WriteRaises("appconf", c, store)
  PROVE  OthersStored' /\ Owned(stored'.appconf)
<1>1. Sent("appconf", c, store)
  BY NoRaise
<1>2. CASE Written("appconf", c, store)
  <2>1. OthersStored' /\ (store => stored'.appconf = c) /\ (~store => stored' = stored)
    BY <1>2, DeviceTyped, WritesKeepOthers
  <2>2. QED
    BY <2>1
<1>3. CASE WriteLost("appconf", store)
  BY <1>3 DEF WriteLost, OthersStored
<1>4. QED
  BY <1>1, <1>2, <1>3 DEF Sent

\* Turning an axis whose later axes are not turned yet keeps the offsets in the frame.
LEMMA OwnTurned ==
  ASSUME TypesInv, TurningOwn, page \in Axes, NEW x \in Int
  PROVE  LET c == Turned(config, page, x)
         IN  /\ c \in Config /\ Framed(c) /\ c.app = config.app
             /\ page \in {"roll", "pitch"} => c.rot.yaw = 0
             /\ page = "roll" => c.rot.pitch = 0
<1> DEFINE c == Turned(config, page, x)
<1>1. /\ c \in Config /\ Alike(c, config)
      /\ c.rot = [config.rot EXCEPT ![page] = x] /\ c.frame = Rotated(config.frame, page, x)
      /\ config.rot \in Rotations
  <2>1. config \in Config
    BY DEF TypesInv
  <2>2. config.rot \in Rotations
    BY <2>1, Fields
  <2>3. QED
    BY <2>1, <2>2, TurnedFields
<1> HIDE DEF c
<1> DEFINE rot == config.rot
<1>2. /\ rot \in Rotations /\ rot.yaw = 0 /\ config.frame = FrameOf(rot)
      /\ page = "roll" => rot.roll = 0 /\ rot.pitch = 0
      /\ page = "pitch" => rot.pitch = 0
      /\ c.rot = [rot EXCEPT ![page] = x]
  BY <1>1 DEF TurningOwn, Framed
<1> HIDE DEF rot
<1>3. page = "roll" \/ page = "pitch" \/ page = "yaw"
  BY DEF Axes
<1>4. c.frame = FrameOf(c.rot)
  <2>1. rot \in Rotations /\ rot.yaw = 0 /\ config.frame = FrameOf(rot)
    BY <1>2
  <2>2. /\ rot.pitch = 0 /\ rot.roll = 0 =>
             Rotated(FrameOf(rot), "roll", x) = FrameOf([rot EXCEPT !["roll"] = x])
        /\ rot.pitch = 0 =>
             Rotated(FrameOf(rot), "pitch", x) = FrameOf([rot EXCEPT !["pitch"] = x])
        /\ Rotated(FrameOf(rot), "yaw", x) = FrameOf([rot EXCEPT !["yaw"] = x])
    BY Zenon, <2>1, FrameGrows
  <2>3. c.frame = Rotated(FrameOf(rot), page, x)
    BY <1>1, <2>1
  <2>4. CASE page = "roll"
    BY <1>2, <2>2, <2>3, <2>4
  <2>5. CASE page = "pitch"
    BY <1>2, <2>2, <2>3, <2>5
  <2>6. CASE page = "yaw"
    BY <1>2, <2>2, <2>3, <2>6
  <2>7. QED
    BY <1>3, <2>4, <2>5, <2>6
<1>5. /\ page \in {"roll", "pitch"} => c.rot.yaw = 0
      /\ page = "roll" => c.rot.pitch = 0
  BY <1>2 DEF Rotations, Axes
<1>6. QED
  BY <1>1, <1>4, <1>5 DEF c, Framed, Alike

\* A prepared configuration is in the frame of no rotation.
LEMMA OwnPrepared ==
  ASSUME TypesInv, Owned(config)
  PROVE  LET c == Prepared(config)
         IN  c \in Config /\ Framed(c) /\ c.rot.roll = 0 /\ c.rot.pitch = 0 /\ c.rot.yaw = 0
<1> DEFINE c == Prepared(config)
<1>1. c \in Config /\ c.rot = NoRotation /\ c.frame = <<>>
  BY PreparedFields DEF TypesInv, Owned
<1> HIDE DEF c
<1>2. QED
  BY <1>1, NoRotationFrame DEF NoRotation, Axes, Framed, c

\* What a calibration step saves stays in its frame.
LEMMA OwnCalibrated ==
  ASSUME TypesInv, Owned(config), NEW s \in Sensors, NEW x \in Int
  PROVE  Calibrated(config, s, x) \in Config /\ Owned(Calibrated(config, s, x))
<1> DEFINE c == Calibrated(config, s, x)
<1>0. config \in Config
  BY Zenon DEF TypesInv
<1>1. c \in Config /\ Alike(c, config) /\ c.rot = config.rot /\ c.frame = config.frame
  BY Zenon, <1>0, CalibratedFields
<1> HIDE DEF c
<1>2. QED
  BY <1>1 DEF Owned, Framed, Alike, c

-----------------------------------------------------------------------------
(* So it is in the window.                                                 *)

\* A step of the search.
LEMMA SearchOwn ==
  ASSUME TypesInv, PageInv, Own, fails' = 0, program = "gui",
         (page = "configurator" /\ StartSearch) \/ CheckCandidate
  PROVE  Own'
<1>0. OthersStored /\ Owned(stored.appconf) /\ config \in Config /\ UNCHANGED session
  BY DEF Own, OthersStored, TypesInv, StartSearch, CheckCandidate
<1>1. ASSUME page = "configurator", OthersStored', Owned(stored'.appconf),
             SameCalibration(config', opened),
             ~search'.active => config'.app = "user", search'.active => search'.app = "user"
      PROVE  Own'
  <2>1. Owned(opened) /\ UNCHANGED <<opened, page>>
    BY <1>0, <1>1 DEF Own, SettingOwn, session
  <2>2. SettingOwn'
    BY <1>1, <2>1 DEF SettingOwn, Owned, Framed, SameCalibration
  <2>3. QED
    BY <1>1, <2>1, <2>2, OwnSetsUp
<1>2. ASSUME page = "configurator", NEW c \in Config, NEW n \in Types \cup {0}, NEW due,
             SameCalibration(c, opened), FinishSearch(c, n, "user", due)
      PROVE  Own'
  <2>1. config' \in Config /\ config'.app = "user" /\ SameCalibration(config', c)
    BY <1>2, Searches DEF FinishSearch
  <2>2. OthersStored' /\ Owned(stored'.appconf)
    BY <1>0, <1>2, <2>1, OwnSent DEF FinishSearch
  <2>3. ~search'.active
    BY <1>2 DEF FinishSearch, NoSearch
  <2>4. QED
    BY <1>1, <1>2, <2>1, <2>2, <2>3 DEF SameCalibration
<1>3. ASSUME page = "configurator", NEW c \in Config, NEW n \in Nat, NEW due,
             SameCalibration(c, opened), TryCandidate(c, n, "user", due)
      PROVE  Own'
  <2> DEFINE tried == [c EXCEPT !.type = n]
  <2>1. CASE n \notin Types /\ FinishSearch(c, 0, "user", due)
    BY <1>2, <1>3, <2>1
  <2>2. CASE /\ n \in Types /\ config' = tried /\ Sent("appconf", tried, FALSE)
             /\ search' = [active |-> TRUE, candidate |-> n, app |-> "user"]
    <3>1. tried \in Config /\ SameCalibration(tried, c)
      BY <2>2 DEF Config, SameCalibration, RestoreOf
    <3> HIDE DEF tried
    <3>2. OthersStored' /\ Owned(stored'.appconf)
      BY <1>0, <2>2, <3>1, OwnSent
    <3>3. search'.active /\ search'.app = "user"
      BY <2>2
    <3>4. QED
      BY <1>1, <1>3, <2>2, <3>1, <3>2, <3>3 DEF SameCalibration
  <2>3. CASE /\ n \in Types /\ config' = Searched(c, n, "user")
             /\ WriteRaisesThen("appconf", tried, config')
    <3>1. tried \in Config
      BY <2>3 DEF Config
    <3>2. config' \in Config
      BY <2>3, Searches
    <3>3. fails' > 0
      BY <2>3, <3>1, <3>2, DeviceTyped, RaisedTwiceChanges
    <3>4. QED
      BY <3>3
  <2>4. QED
    BY <1>3, <2>1, <2>2, <2>3 DEF TryCandidate
<1>4. CASE page = "configurator" /\ StartSearch
  <2> DEFINE c == [config EXCEPT !.app = "off"]
  <2>1. /\ SameCalibration(config, opened) /\ config.app = "user"
        /\ TryCandidate(c, 1, config.app, timers.due)
    BY <1>4 DEF Own, SettingOwn, StartSearch
  <2>2. c \in Config /\ SameCalibration(c, config)
    BY <1>0 DEF Config, SameCalibration, RestoreOf
  <2> HIDE DEF c
  <2>3. SameCalibration(c, opened)
    BY <2>1, <2>2 DEF SameCalibration
  <2>4. QED
    BY <1>3, <1>4, <2>1, <2>2, <2>3
<1>5. CASE CheckCandidate
  <2>1. CASE search.active
    <3>1. /\ page = "configurator" /\ SameCalibration(config, opened) /\ search.app = "user"
          /\ search.candidate \in Types /\ search.candidate \in Nat
      BY <2>1 DEF PageInv, Own, SettingOwn, TypesInv
    <3>2. search.candidate + 1 \in Nat
      BY <3>1
    <3>3. \/ FinishSearch(config, search.candidate, "user", timers.due - 1)
          \/ TryCandidate(config, search.candidate + 1, "user", timers.due - 1)
      BY <1>5, <2>1, <3>1 DEF CheckCandidate
    <3>4. QED
      BY <1>0, <1>2, <1>3, <3>1, <3>2, <3>3
  <2>2. CASE ~search.active
    <3>1. UNCHANGED <<ram, stored, config, opened, search, page, program>>
      BY <1>0, <1>5, <2>2 DEF CheckCandidate, device, session
    <3>2. QED
      BY <3>1, OwnStays
  <2>3. QED
    BY <2>1, <2>2
<1>6. QED
  BY <1>4, <1>5

\* A choice in the menu.
LEMMA MenuOwn ==
  ASSUME TypesInv, PageInv, Own, fails' = 0, program = "gui", MenuPage
  PROVE  Own'
<1>1. /\ page = "menu" /\ ~search.active /\ OthersStored /\ Owned(stored.appconf)
      /\ Owned(config) /\ config \in Config /\ UNCHANGED <<program, search>> /\ opened' = config
  BY DEF MenuPage, OpenConfigurator, OpenGyro, OpenAccel, OpenOrientation, PageInv, Own, AtRest,
     OthersStored, TypesInv
<1>2. CASE OpenConfigurator
  <2>1. page' = "configurator" /\ config' = Profiled(config, "default")
        /\ UNCHANGED <<ram, stored>>
    BY <1>2 DEF OpenConfigurator, device
  <2>2. config'.app = config.app /\ SameCalibration(config', config)
    BY <1>1, <2>1, ProfiledFields DEF Profiles, SameCalibration
  <2>3. SettingOwn'
    BY <1>1, <2>2 DEF SettingOwn, Owned, Framed, SameCalibration
  <2>4. QED
    BY <1>1, <2>1, <2>3, OwnSetsUp DEF OthersStored
<1>3. CASE OpenGyro \/ OpenAccel
  <2>1. page' \in {"gyro", "x"} /\ UNCHANGED <<ram, stored, config>>
    BY <1>3 DEF OpenGyro, OpenAccel, device
  <2>2. QED
    BY <1>1, <2>1, OwnRests DEF AtRest, OthersStored
<1>4. CASE OpenOrientation
  <2> DEFINE c == Prepared(config)
  <2>1. c \in Config /\ Framed(c) /\ c.rot.roll = 0 /\ c.rot.pitch = 0 /\ c.rot.yaw = 0
    BY <1>1, OwnPrepared
  <2>2. config' = c
    BY <1>4 DEF OpenOrientation
  <2> HIDE DEF c
  <2>3. ~WriteRaises("appconf", c, FALSE)
    BY NoRaise
  <2>4. Sent("appconf", c, FALSE) /\ page' = "roll"
    BY <1>4, <2>2, <2>3 DEF OpenOrientation
  <2>5. OthersStored' /\ Owned(stored'.appconf)
    BY <1>1, <2>1, <2>4, OwnSent
  <2>6. TurningOwn'
    BY <1>1, <2>1, <2>2 DEF TurningOwn, Owned, Framed
  <2>7. QED
    BY <2>4, <2>5, <2>6, OwnTurns DEF Axes
<1>5. QED
  BY <1>2, <1>3, <1>4 DEF MenuPage

\* Save and Skip, stored or not.
LEMMA CommitOwn ==
  ASSUME TypesInv, Own, fails' = 0, program = "gui", NEW c \in Config, NEW store, NEW next,
         store => Owned(c), Commit(c, store, next)
  PROVE  /\ OthersStored' /\ Owned(stored'.appconf) /\ config' = c /\ SetPage(next)
         /\ next \in AtRest /\ Owned(c) => Own'
<1>1. OthersStored /\ Owned(stored.appconf)
  BY DEF Own, OthersStored
<1>2. Sent("appconf", c, store) /\ SetPage(next) /\ config' = c
  BY NoRaise DEF Commit
<1>3. OthersStored' /\ Owned(stored'.appconf)
  BY <1>1, <1>2, OwnSent
<1>4. page' = next
  BY <1>2 DEF SetPage
<1>5. QED
  BY <1>2, <1>3, <1>4, OwnRests

\* Every step of the window.
LEMMA GuiOwn ==
  ASSUME TypesInv, PageInv, StepInv, fails = 0 => Own, StartGui \/ NextGui, fails' = 0
  PROVE  Own'
<1>0. fails \in Nat /\ config \in Config /\ opened \in Config
  BY TypesAssumption DEF TypesInv
<1>1. CASE StartGui
  <2>1. /\ program = "none" /\ program' = "gui" /\ page' = "menu" /\ config' = ram.appconf
        /\ UNCHANGED <<ram, stored>>
    BY <1>1 DEF StartGui
  <2>2. ram = stored /\ Owned(ram.appconf)
    BY <2>1, UserConfigTypes DEF PageInv, Owned
  <2>3. QED
    BY <2>1, <2>2, OwnRests DEF AtRest, OthersStored
<1>2. CASE NextGui
  <2>0. program = "gui"
    BY <1>2 DEF NextGui
  <2>1. fails = 0
    <3>1. fails' = fails \/ fails' = fails + 1 \/ fails' = fails + 2
      BY <1>2 DEF NextGui, Poll, PollFails, CheckCandidate, FinishSearch, TryCandidate,
         MenuPage, OpenConfigurator, OpenGyro, OpenAccel, OpenOrientation, ConfiguratorPage,
         StartSearch, ChooseProfile, SaveConfigurator, SaveGyro, AccelPage, SaveAccel,
         SkipAccel, ClearMax, OrientationPage, SaveOrientation, SkipOrientation, Commit,
         Cancel, CloseWindow, Sent, Written, WriteLost, WriteRaises, WriteRaisesThen, device
    <3>2. QED
      BY <1>0, <3>1
  <2>2. Own /\ OthersStored /\ Owned(stored.appconf)
    BY <2>0, <2>1 DEF Own, OthersStored
  <2>3. CASE PollFails
    BY <1>0, <2>3 DEF PollFails
  <2>4. CASE Poll \/ ClearMax
    <3>1. UNCHANGED <<ram, stored, config, opened, search, page, program>>
      BY <2>4 DEF Poll, ClearMax, device, session
    <3>2. QED
      BY <2>2, <3>1, OwnStays
  <2>5. CASE CloseWindow
    BY <2>2, <2>5, OwnOver DEF CloseWindow, device
  <2>6. CASE ConfiguratorPage
    <3>1. page = "configurator" /\ SettingOwn
      BY <2>0, <2>2, <2>6 DEF ConfiguratorPage, Own
    <3>2. ASSUME NEW p \in Profiles, ChooseProfile(p) PROVE Own'
      <4>1. config' = Profiled(config, p)
            /\ UNCHANGED <<ram, stored, page, program, opened, search>>
        BY <3>2 DEF ChooseProfile, device, session
      <4>2. config'.app = config.app /\ SameCalibration(config', config)
        BY <1>0, <4>1, ProfiledFields DEF SameCalibration
      <4>3. SettingOwn'
        BY <3>1, <4>1, <4>2 DEF SettingOwn, Owned, Framed, SameCalibration
      <4>4. QED
        BY <2>2, <3>1, <4>1, <4>3, OwnSetsUp DEF OthersStored
    <3>3. CASE SaveConfigurator
      <4>1. ~search.active /\ Commit(config, TRUE, "menu")
        BY <3>3 DEF SaveConfigurator
      <4>2. Owned(config)
        BY <3>1, <4>1 DEF SettingOwn, SameCalibration, RestoreOf, Owned, Framed
      <4>3. QED
        BY <1>0, <2>0, <2>2, <4>1, <4>2, CommitOwn DEF AtRest
    <3>4. QED
      BY <2>0, <2>2, <2>6, <3>1, <3>2, <3>3, SearchOwn DEF ConfiguratorPage
  <2>7. CASE SaveGyro
    <3>1. /\ page = "gyro" /\ Commit(Calibrated(config, "gyro", Reading("gyro")), TRUE, "menu")
          /\ Reading("gyro") \in Int /\ "gyro" \in Sensors
      BY <2>7, Readings DEF SaveGyro, TypesInv, Sensors
    <3>2. Owned(config)
      BY <2>0, <2>2, <3>1 DEF Own, AtRest
    <3>3. QED
      BY <2>0, <2>2, <3>1, <3>2, OwnCalibrated, CommitOwn DEF AtRest
  <2>8. CASE page \in Accel /\ (SaveAccel \/ SkipAccel)
    <3>1. page \in Sensors /\ page \in AtRest /\ NextPage[page] \in AtRest /\ peak[page] \in Int
      BY <2>8, NextPages DEF Accel, Sensors, AtRest, TypesInv
    <3>2. Owned(config)
      BY <2>0, <2>2, <3>1 DEF Own
    <3>3. CASE SaveAccel
      BY <2>0, <2>2, <3>1, <3>2, <3>3, OwnCalibrated, CommitOwn DEF SaveAccel
    <3>4. CASE SkipAccel
      <4>1. page' = NextPage[page] /\ UNCHANGED <<ram, stored, config>>
        BY <3>4 DEF SkipAccel, SetPage, device
      <4>2. QED
        BY <2>2, <3>1, <3>2, <4>1, OwnRests DEF OthersStored
    <3>5. QED
      BY <2>8, <3>3, <3>4
  <2>9. CASE OrientationPage
    <3>1. page \in Axes /\ TurningOwn /\ StepKept
      BY <2>0, <2>2, <2>9 DEF OrientationPage, Own, StepInv, StepKept
    <3>2. Angle(page) \in Int /\ restore.rot[page] \in Int
      BY <3>1, Readings DEF TypesInv, Calibration, Rotations
    <3>3. PICK x \in Int : Commit(Turned(config, page, x), page = "yaw", NextPage[page])
      BY <2>9, <3>2 DEF OrientationPage, SaveOrientation, SkipOrientation
    <3> DEFINE c == Turned(config, page, x)
               next == NextPage[page]
    <3>4. /\ c \in Config /\ Framed(c) /\ c.app = config.app
          /\ page \in {"roll", "pitch"} => c.rot.yaw = 0
          /\ page = "roll" => c.rot.pitch = 0
      BY <3>1, OwnTurned
    <3>5. Commit(c, page = "yaw", next)
      BY <3>3
    <3>6. /\ page = "roll" => next = "pitch"
          /\ page = "pitch" => next = "yaw"
          /\ page = "yaw" => next = "menu"
      BY NextPages
    <3> HIDE DEF c, next
    <3>7. Owned(c)
      BY <3>1, <3>4 DEF StepKept, Alike, TurningOwn, Owned
    <3>8. /\ OthersStored' /\ Owned(stored'.appconf) /\ config' = c /\ SetPage(next)
          /\ next \in AtRest => Own'
      BY <2>0, <2>2, <3>4, <3>5, <3>7, CommitOwn
    <3>9. CASE page = "yaw"
      BY <3>6, <3>8, <3>9 DEF AtRest
    <3>10. CASE page \in {"roll", "pitch"}
      <4>1. page' = next /\ next \in {"pitch", "yaw"} /\ UNCHANGED opened
        BY <3>6, <3>8, <3>10 DEF SetPage
      <4>2. TurningOwn'
        BY <3>1, <3>4, <3>6, <3>8, <3>10, <4>1 DEF TurningOwn, Owned, Framed
      <4>3. QED
        BY <3>8, <4>1, <4>2, OwnTurns DEF Axes
    <3>11. QED
      BY <3>1, <3>9, <3>10 DEF Axes
  <2>10. CASE Cancel
    <3>1. page' = "menu" /\ UNCHANGED program
      BY <2>10 DEF Cancel, SetPage
    <3>2. CASE page \in Axes \cup {"configurator"}
      <4>1. Owned(opened)
        BY <2>0, <2>2, <3>2 DEF Own, SettingOwn, TurningOwn
      <4>2. config' = opened
        BY <1>0, <2>0, <2>10, <3>2, CancelsTo
      <4>3. Sent("appconf", opened, FALSE) \/ WriteRaises("appconf", opened, FALSE)
        BY <2>10, <3>2, <4>2 DEF Cancel
      <4>4. OthersStored' /\ Owned(stored'.appconf)
        BY <1>0, <2>2, <4>3, OwnSent
      <4>5. QED
        BY <3>1, <4>1, <4>2, <4>4, OwnRests DEF AtRest
    <3>3. CASE page \notin Axes \cup {"configurator"}
      <4>1. UNCHANGED <<ram, stored, config>>
        BY <2>10, <3>3 DEF Cancel, device
      <4>2. page \in AtRest
        BY <2>0, <2>10, <3>3 DEF PageInv, AtRest, Accel
      <4>3. QED
        BY <2>0, <2>2, <3>1, <4>1, <4>2, OwnRests DEF AtRest, Own, OthersStored
    <3>4. QED
      BY <3>2, <3>3
  <2>11. QED
    BY <1>2, <2>0, <2>2, <2>3, <2>4, <2>5, <2>6, <2>7, <2>8, <2>9, <2>10, SearchOwn, MenuOwn
       DEF NextGui, AccelPage
<1>3. QED
  BY <1>1, <1>2

-----------------------------------------------------------------------------
(* And in the wizard.                                                      *)

\* A write of the wizard, whether it is lost or not.
LEMMA ThenOwn ==
  ASSUME TypesInv, Own, program = "wizard", fails' = 0, NEW c \in Config, NEW store, NEW step,
         store => Owned(c), WriteThen(c, store, step)
  PROVE  /\ OthersStored' /\ Owned(stored'.appconf) /\ config' = c /\ Continue(step)
         /\ Owned(c) /\ step \in AtRest \cup {"over"} => Own'
<1>1. OthersStored /\ Owned(stored.appconf)
  BY DEF Own, OthersStored
<1>2. Sent("appconf", c, store) /\ Continue(step) /\ config' = c
  BY NoRaise DEF WriteThen
<1>3. OthersStored' /\ Owned(stored'.appconf)
  BY <1>1, <1>2, OwnSent
<1>4. step \in AtRest \cup {"over"} => page' \in AtRest \/ program' = "over"
  BY <1>2 DEF Continue, Ends
<1>5. QED
  BY <1>2, <1>3, <1>4, OwnRests

\* Continue leads to its step.
LEMMA ContinueLeads ==
  ASSUME program = "wizard", NEW step, Continue(step), step # "over"
  PROVE  page' = step /\ program' = "wizard"
BY DEF Continue

\* Type and profile.
LEMMA BasicOwn ==
  ASSUME TypesInv, PageInv, Own, fails' = 0,
         \/ TryType \/ SampleType \/ StoreBasic \/ DiscardBasic
         \/ \E s \in BOOLEAN : BeginBasic(s)
  PROVE  Own'
<1>0. /\ program = "wizard" /\ page \in {"try", "sample", "profile", "basic"}
      /\ OthersStored /\ Owned(stored.appconf) /\ config \in Config /\ opened \in Config
      /\ page \in {"try", "sample"} <=> search.active
      /\ search.active => search.candidate \in Types
  BY DEF TryType, SampleType, StoreBasic, DiscardBasic, BeginBasic, WizardAt, Own,
     OthersStored, TypesInv, PageInv
<1>1. page # "basic" => SettingOwn
  BY <1>0 DEF Own
<1>2. ASSUME SettingOwn, UNCHANGED opened, NEW step \in {"try", "sample", "profile"},
             NEW c \in Config, SameCalibration(c, config), WriteThen(c, FALSE, step),
             ~search'.active => c.app = "user", search'.active => search'.app = "user"
      PROVE  Own'
  <2>1. OthersStored' /\ Owned(stored'.appconf) /\ config' = c /\ Continue(step)
    BY <1>0, <1>2, ThenOwn
  <2>2. page' = step
    BY <1>0, <1>2, <2>1, ContinueLeads
  <2>3. SettingOwn'
    BY <1>2, <2>1 DEF SettingOwn, Owned, Framed, SameCalibration
  <2>4. QED
    BY <2>1, <2>2, <2>3, OwnSetsUp
<1>3. CASE TryType
  <2> DEFINE c == [config EXCEPT !.type = search.candidate]
  <2>1. /\ page = "try" /\ WriteThen(c, FALSE, "sample") /\ UNCHANGED <<opened, search>>
    BY <1>3 DEF TryType, WizardAt, others
  <2>2. c \in Config /\ SameCalibration(c, config)
    BY <1>0, <2>1 DEF Config, SameCalibration, RestoreOf
  <2> HIDE DEF c
  <2>3. search.active /\ SettingOwn /\ search.app = "user"
    BY <1>0, <1>1, <2>1 DEF SettingOwn
  <2>4. QED
    BY <1>2, <2>1, <2>2, <2>3
<1>4. CASE SampleType
  <2>1. page = "sample" /\ search.active /\ UNCHANGED opened /\ SettingOwn /\ search.app = "user"
    BY <1>0, <1>1, <1>4 DEF SampleType, WizardAt, SettingOwn
  <2>2. CASE ~Working /\ search.candidate + 1 \in Types
    <3>1. /\ search' = [search EXCEPT !.candidate = search.candidate + 1]
          /\ page' = "try" /\ UNCHANGED <<ram, stored, config>>
      BY <1>4, <2>2 DEF SampleType, device
    <3>2. search'.active = search.active /\ search'.app = search.app
      BY <3>1 DEF TypesInv
    <3>3. SettingOwn'
      BY <2>1, <3>1, <3>2 DEF SettingOwn, Owned, Framed, SameCalibration
    <3>4. QED
      BY <1>0, <3>1, <3>3, OwnSetsUp DEF OthersStored
  <2>3. CASE ~(~Working /\ search.candidate + 1 \in Types)
    <3> DEFINE n == IF Working THEN search.candidate ELSE 0
               c == [config EXCEPT !.type = n, !.app = search.app]
    <3>1. search' = NoSearch /\ WriteThen(c, FALSE, "profile")
      BY <1>4, <2>3 DEF SampleType
    <3>2. n \in Types \cup {0}
      BY <1>0, <2>1
    <3> HIDE DEF n
    <3>3. c \in Config /\ c.app = "user" /\ SameCalibration(c, config)
      BY <1>0, <2>1, <3>2 DEF Config, SameCalibration, RestoreOf
    <3> HIDE DEF c
    <3>4. ~search'.active
      BY <3>1 DEF NoSearch
    <3>5. QED
      BY <1>2, <2>1, <3>1, <3>3, <3>4
  <2>4. QED
    BY <2>2, <2>3
<1>5. CASE StoreBasic
  <2>1. page = "profile" /\ ~search.active /\ SettingOwn
    BY <1>0, <1>1, <1>5 DEF StoreBasic, WizardAt
  <2>2. PICK c \in {config} \cup {Profiled(config, p) : p \in Profiles} :
          WriteThen(c, TRUE, "gyro")
    BY <1>5 DEF StoreBasic
  <2>3. c \in Config /\ SameCalibration(c, config) /\ c.app = config.app
    BY <1>0, ProfiledFields DEF SameCalibration
  <2>4. Owned(c)
    BY <2>1, <2>3 DEF SettingOwn, SameCalibration, RestoreOf, Owned, Framed
  <2>5. QED
    BY <1>0, <2>2, <2>3, <2>4, ThenOwn DEF AtRest
<1>6. CASE DiscardBasic
  <2>1. WriteThen(opened, FALSE, "gyro") /\ Owned(opened)
    BY <1>1, <1>6 DEF DiscardBasic, WizardAt, SettingOwn
  <2>2. QED
    BY <1>0, <2>1, ThenOwn DEF AtRest
<1>7. ASSUME NEW s \in BOOLEAN, BeginBasic(s) PROVE Own'
  <2>1. /\ page = "basic" /\ ~search.active /\ opened' = config /\ UNCHANGED <<ram, stored>>
        /\ Owned(config)
    BY <1>0, <1>7 DEF BeginBasic, WizardAt, device, Own, AtRest
  <2>2. CASE s
    <3>1. /\ page' = "try" /\ search' = [active |-> TRUE, candidate |-> 1, app |-> config.app]
          /\ config' = [config EXCEPT !.app = "off"]
      BY <1>7, <2>2 DEF BeginBasic
    <3>2. SameCalibration(config', config)
      BY <1>0, <3>1 DEF Config, SameCalibration, RestoreOf
    <3>3. SettingOwn'
      BY <2>1, <3>1, <3>2 DEF SettingOwn, Owned, Framed, SameCalibration
    <3>4. QED
      BY <1>0, <2>1, <3>1, <3>3, OwnSetsUp DEF OthersStored
  <2>3. CASE ~s
    <3>1. page' = "profile" /\ UNCHANGED <<search, config>>
      BY <1>7, <2>3 DEF BeginBasic
    <3>2. SettingOwn'
      BY <2>1, <3>1 DEF SettingOwn, Owned, Framed, SameCalibration
    <3>3. QED
      BY <1>0, <2>1, <3>1, <3>2, OwnSetsUp DEF OthersStored
  <2>4. QED
    BY <2>2, <2>3
<1>8. QED
  BY <1>3, <1>4, <1>5, <1>6, <1>7

\* The calibration steps.
LEMMA CalibrationOwn ==
  ASSUME TypesInv, PageInv, Own, fails' = 0, WizardGyro \/ WizardAccel
  PROVE  Own'
<1>0. /\ program = "wizard" /\ page \in {"gyro"} \cup Accel
      /\ OthersStored /\ Owned(stored.appconf)
  BY DEF WizardGyro, WizardAccel, WizardAt, Accel, Own, OthersStored
<1>1. page \in Sensors /\ page \in AtRest /\ Owned(config)
  BY <1>0 DEF Sensors, AtRest, Accel, Own
<1>2. ASSUME NEW next \in AtRest, NEW choice, Choose(choice, next)
      PROVE  Own'
  <2>1. page' \in AtRest \/ program' = "over"
    BY <1>0, <1>1, <1>2 DEF Choose, Stay, Continue, Ends
  <2>2. UNCHANGED <<ram, stored, config>>
    BY <1>2 DEF Choose, device
  <2>3. QED
    BY <1>0, <1>1, <2>1, <2>2, OwnRests DEF OthersStored
<1>3. ASSUME NEW next \in AtRest, WriteThen(Calibrated(config, page, Sampled(page)), TRUE, next)
      PROVE  Own'
  <2>1. Sampled(page) \in Int
    BY <1>1, Readings DEF Sampled, TypesInv
  <2>2. QED
    BY <1>0, <1>1, <1>3, <2>1, OwnCalibrated, ThenOwn
<1>4. CASE WizardGyro
  <2>1. page = "gyro" /\ "x" \in AtRest
    BY <1>4 DEF WizardGyro, WizardAt, AtRest
  <2>2. QED
    BY <1>2, <1>3, <1>4, <2>1 DEF WizardGyro
<1>5. CASE WizardAccel
  <2> DEFINE next == IF page = "z" THEN "ready" ELSE NextPage[page]
  <2>1. next \in AtRest /\ "ready" \in AtRest
    BY <1>5, NextPages DEF WizardAccel, AtRest, Accel
  <2>2. PICK choice \in StepChoice :
          \/ Choose(choice, IF choice = "cancel" THEN "ready" ELSE next)
          \/ WriteThen(Calibrated(config, page, Sampled(page)), TRUE, next)
    BY <1>5 DEF WizardAccel
  <2> HIDE DEF next
  <2>3. QED
    BY <1>2, <1>3, <2>1, <2>2
<1>6. QED
  BY <1>4, <1>5

\* A sub-step of the orientation.
LEMMA OrientOwn ==
  ASSUME TypesInv, PageInv, StepInv, Own, fails' = 0,
         NEW axis \in Axes, NEW store, NEW next, Orient(axis, store, next),
         axis = "roll" => next = "pitch", axis = "pitch" => next = "yaw",
         axis = "yaw" => next = "over"
  PROVE  Own'
<1>1. /\ program = "wizard" /\ page = axis /\ UNCHANGED opened /\ TurningOwn /\ StepKept
  BY DEF Orient, WizardAt, Own, StepInv, StepKept
<1>2. restore.rot[page] \in Int /\ Angle(page) \in Int
  BY <1>1, Readings DEF TypesInv, Calibration, Rotations
<1>3. PICK x \in Int : WriteThen(Turned(config, page, x), store, next)
  BY <1>1, <1>2 DEF Orient
<1> DEFINE c == Turned(config, page, x)
<1>4. /\ c \in Config /\ Framed(c) /\ c.app = config.app
      /\ page \in {"roll", "pitch"} => c.rot.yaw = 0
      /\ page = "roll" => c.rot.pitch = 0
  BY <1>1, OwnTurned
<1>5. WriteThen(c, store, next)
  BY <1>3
<1> HIDE DEF c
<1>6. Owned(c)
  BY <1>1, <1>4 DEF StepKept, Alike, TurningOwn, Owned
<1>7. /\ OthersStored' /\ Owned(stored'.appconf) /\ config' = c /\ Continue(next)
      /\ next = "over" => Own'
  BY <1>1, <1>4, <1>5, <1>6, ThenOwn
<1>8. CASE axis = "yaw"
  BY <1>7, <1>8
<1>9. CASE axis \in {"roll", "pitch"}
  <2>1. page' = next /\ next \in {"pitch", "yaw"}
    BY <1>1, <1>7, <1>9, ContinueLeads
  <2>2. TurningOwn'
    BY <1>1, <1>4, <1>7, <1>9, <2>1 DEF TurningOwn, Owned, Framed
  <2>3. QED
    BY <1>7, <2>1, <2>2, OwnTurns DEF Axes
<1>10. QED
  BY <1>8, <1>9 DEF Axes

\* Every step of the wizard.
LEMMA WizardOwn ==
  ASSUME TypesInv, PageInv, StepInv, fails = 0 => Own, StartWizard \/ NextWizard, fails' = 0
  PROVE  Own'
<1>0. fails \in Nat /\ config \in Config /\ opened \in Config /\ restore \in Calibration
  BY TypesAssumption DEF TypesInv
<1>1. CASE StartWizard
  <2>1. /\ program = "none" /\ program' = "wizard" /\ page' = "basic" /\ config' = ram.appconf
        /\ UNCHANGED <<ram, stored>>
    BY <1>1 DEF StartWizard
  <2>2. ram = stored /\ Owned(ram.appconf)
    BY <2>1, UserConfigTypes DEF PageInv, Owned
  <2>3. QED
    BY <2>1, <2>2, OwnRests DEF AtRest, OthersStored
<1>2. CASE NextWizard
  <2>1. fails = 0
    <3>1. fails' = fails \/ fails' = fails + 1
      BY <1>2 DEF NextWizard, LeaveOut, TryType, SampleType, StoreBasic, DiscardBasic,
         BeginBasic, WizardGyro, WizardAccel, BeginOrientation, RollOrientation,
         PitchOrientation, YawOrientation, Orient, LeaveOrientation, InterruptedStore,
         Interrupted, Choose, WriteThen, Sent, Written, WriteLost, WriteRaises, device
    <3>2. QED
      BY <1>0, <3>1
  <2>2. program = "wizard"
    BY <1>2 DEF NextWizard, LeaveOut, TryType, SampleType, StoreBasic, DiscardBasic,
       BeginBasic, WizardGyro, WizardAccel, BeginOrientation, RollOrientation,
       PitchOrientation, YawOrientation, Orient, LeaveOrientation, InterruptedStore,
       Interrupted, WizardAt
  <2>3. Own /\ OthersStored /\ Owned(stored.appconf)
    BY <2>1, <2>2 DEF Own, OthersStored
  <2>4. CASE LeaveOut
    <3>1. page \in AtRest /\ UNCHANGED <<ram, stored, config>>
      BY <2>4 DEF LeaveOut, AtRest, device
    <3>2. page' \in AtRest \/ program' = "over"
      BY <2>4 DEF LeaveOut, Continue, Ends, AtRest
    <3>3. Owned(config)
      BY <2>2, <2>3, <3>1 DEF Own
    <3>4. QED
      BY <2>3, <3>1, <3>2, <3>3, OwnRests DEF OthersStored
  <2>5. CASE BeginOrientation
    <3>1. page = "ready" /\ opened' = config /\ Owned(config)
      BY <2>3, <2>5 DEF BeginOrientation, WizardAt, Own, AtRest
    <3>2. CASE WriteThen(Prepared(config), FALSE, "roll")
      <4> DEFINE c == Prepared(config)
      <4>1. c \in Config /\ Framed(c) /\ c.rot.roll = 0 /\ c.rot.pitch = 0 /\ c.rot.yaw = 0
        BY <3>1, OwnPrepared
      <4>2. WriteThen(c, FALSE, "roll")
        BY <3>2
      <4> HIDE DEF c
      <4>3. OthersStored' /\ Owned(stored'.appconf) /\ config' = c /\ Continue("roll")
        BY <2>2, <2>3, <4>1, <4>2, ThenOwn
      <4>4. page' = "roll"
        BY <2>2, <4>3, ContinueLeads
      <4>5. TurningOwn'
        BY <3>1, <4>1, <4>3 DEF TurningOwn, Owned, Framed
      <4>6. QED
        BY <4>3, <4>4, <4>5, OwnTurns DEF Axes
    <3>3. CASE Ends /\ UNCHANGED <<device, config>>
      BY <2>3, <3>3, OwnOver DEF Ends, device
    <3>4. QED
      BY <2>5, <3>2, <3>3 DEF BeginOrientation
  <2>6. CASE LeaveOrientation
    <3>1. /\ page \in Axes /\ StepKept /\ TurningOwn
          /\ WriteThen(Restored(config, restore), FALSE, "over")
      BY <2>2, <2>3, <2>6 DEF LeaveOrientation, StepInv, StepKept, Own
    <3>2. Restored(config, restore) = opened
      BY <1>0, <3>1, RestoredUndoes DEF StepKept
    <3>3. QED
      BY <1>0, <2>2, <2>3, <3>1, <3>2, ThenOwn DEF TurningOwn
  <2>7. CASE InterruptedStore
    <3>1. /\ page = "yaw" /\ page \in Axes /\ StepKept /\ TurningOwn /\ program' = "over"
      BY <2>2, <2>3, <2>7 DEF InterruptedStore, WizardAt, Axes, StepInv, StepKept, Own, Ends
    <3>2. restore.rot.yaw \in Int /\ Angle("yaw") \in Int
      BY Readings DEF TypesInv, Calibration, Rotations, Axes
    <3>3. PICK x \in Int : stored' = [stored EXCEPT !["appconf"] = Turned(config, page, x)]
      BY <2>7, <3>1, <3>2 DEF InterruptedStore
    <3> DEFINE c == Turned(config, page, x)
    <3>4. c \in Config /\ Framed(c) /\ c.app = config.app
      BY <3>1, OwnTurned
    <3>5. stored'.appconf = c
      BY <3>3, <3>4, WithAppconf DEF TypesInv
    <3> HIDE DEF c
    <3>6. Owned(c)
      BY <3>1, <3>4 DEF StepKept, Alike, TurningOwn, Owned
    <3>7. QED
      BY <3>1, <3>5, <3>6, OwnOver
  <2>8. CASE Interrupted
    BY <2>3, <2>8, OwnOver DEF Interrupted, Ends
  <2>9. CASE RollOrientation
    BY <2>3, <2>1, <2>9, OrientOwn DEF RollOrientation, Axes
  <2>10. CASE PitchOrientation
    BY <2>3, <2>1, <2>10, OrientOwn DEF PitchOrientation, Axes
  <2>11. CASE YawOrientation
    BY <2>3, <2>1, <2>11, OrientOwn DEF YawOrientation, Axes
  <2>12. QED
    BY <1>2, <2>3, <2>4, <2>5, <2>6, <2>7, <2>8, <2>9, <2>10, <2>11, BasicOwn, CalibrationOwn
       DEF NextWizard
<1>3. QED
  BY <1>1, <1>2

-----------------------------------------------------------------------------
(* A store that takes effect makes up for what was lost before.            *)

\* What is stored is what the program and the controller have, and is of one piece.
LEMMA StoreMends ==
  ASSUME Own', lost' # "none",
         \/ program' \notin {"gui", "wizard"}
         \/ /\ page' \in AtRest /\ ~search'.active
            /\ config' = ram'.appconf /\ ram'.appconf = stored'.appconf
  PROVE  Faultless'
<1>1. Sound(stored.appconf)' /\ (program' \in {"gui", "wizard"} => OthersStored')
  BY DEF Own, OthersStored, Sound, Guessed
<1>2. CASE program' \notin {"gui", "wizard"}
  BY <1>1, <1>2, IsOver
<1>3. CASE program' \in {"gui", "wizard"} /\ page' \in AtRest /\ ~search'.active
           /\ config' = ram'.appconf /\ ram'.appconf = stored'.appconf
  BY <1>1, <1>3, Rests
<1>4. QED
  BY <1>2, <1>3

\* Nothing but a store that takes effect does.
LEMMA StoreWritten ==
  ASSUME TypesInv, fails' = 0, lost = "open", lost' # "open", NEW c \in Config, NEW store,
         Sent("appconf", c, store) \/ WriteRaises("appconf", c, store)
  PROVE  store /\ ram'.appconf = c /\ stored'.appconf = c
<1>1. Written("appconf", c, store)
  BY NoRaise, NoLoss
<1>2. store
  BY <1>1 DEF Written
<1>3. QED
  BY <1>1, <1>2, DeviceTyped, WrittenChanges

\* In the window: a Save or Skip.
LEMMA GuiMends ==
  ASSUME TypesInv, PageInv, NextGui, fails' = 0, lost = "open", lost' = "mended", Own'
  PROVE  Faultless'
<1>0. program = "gui" /\ config \in Config /\ ~(lost' = lost)
  BY DEF NextGui, TypesInv
<1>1. ASSUME NEW c \in Config, NEW store, NEW next, store => next \in AtRest,
             ~search.active, Commit(c, store, next)
      PROVE  Faultless'
  <2>1. store /\ ram'.appconf = c /\ stored'.appconf = c
    BY <1>1, StoreWritten DEF Commit
  <2>2. config' = c /\ page' = next /\ UNCHANGED <<program, search>>
    BY <1>1, NoRaise DEF Commit, SetPage
  <2>3. QED
    BY <1>0, <1>1, <2>1, <2>2, StoreMends
<1>2. ASSUME NEW c \in Config,
             Sent("appconf", c, FALSE) \/ WriteRaises("appconf", c, FALSE)
      PROVE  FALSE
  BY <1>2, StoreWritten
<1>3. ASSUME UNCHANGED device PROVE FALSE
  BY <1>0, <1>3 DEF device
<1>4. page # "configurator" => ~search.active
  BY <1>0 DEF PageInv
<1>5. CASE Poll \/ CloseWindow
  BY <1>3, <1>5 DEF Poll, CloseWindow
<1>6. CASE PollFails
  BY <1>0, <1>6 DEF PollFails
<1>7. CASE CheckCandidate \/ StartSearch
  <2>1. ASSUME NEW c \in Config, NEW n \in Types \cup {0}, NEW app \in {"user", "off"}, NEW due,
               FinishSearch(c, n, app, due)
        PROVE  FALSE
    BY <1>2, <2>1, Searches DEF FinishSearch
  <2>2. ASSUME NEW c \in Config, NEW n \in Nat, NEW app \in {"user", "off"}, NEW due,
               TryCandidate(c, n, app, due)
        PROVE  FALSE
    <3> DEFINE tried == [c EXCEPT !.type = n]
    <3>1. CASE n \notin Types /\ FinishSearch(c, 0, app, due)
      BY <2>1, <3>1
    <3>2. CASE n \in Types /\ Sent("appconf", tried, FALSE)
      <4>1. tried \in Config
        BY <3>2 DEF Config
      <4>2. QED
        BY <1>2, <3>2, <4>1
    <3>3. CASE n \in Types /\ config' = Searched(c, n, app)
               /\ WriteRaisesThen("appconf", tried, config')
      <4>1. tried \in Config /\ config' \in Config
        BY <3>3, Searches DEF Config
      <4>2. fails' > 0
        BY <3>3, <4>1, DeviceTyped, RaisedTwiceChanges
      <4>3. QED
        BY <4>2
    <3>4. QED
      BY <2>2, <3>1, <3>2, <3>3 DEF TryCandidate
  <2>3. CASE StartSearch
    <3> DEFINE c == [config EXCEPT !.app = "off"]
    <3>1. c \in Config /\ config.app \in {"user", "off"}
      BY <1>0, Fields DEF Config
    <3>2. TryCandidate(c, 1, config.app, timers.due)
      BY <2>3 DEF StartSearch
    <3> HIDE DEF c
    <3>3. QED
      BY <2>2, <3>1, <3>2
  <2>4. CASE CheckCandidate
    <3>1. search.active
      BY <1>3, <2>4 DEF CheckCandidate
    <3>2. search.candidate \in Types /\ search.app \in {"user", "off"}
          /\ search.candidate + 1 \in Nat
      BY <3>1 DEF TypesInv
    <3>3. \/ FinishSearch(config, search.candidate, search.app, timers.due - 1)
          \/ TryCandidate(config, search.candidate + 1, search.app, timers.due - 1)
      BY <2>4, <3>1 DEF CheckCandidate
    <3>4. QED
      BY <1>0, <2>1, <2>2, <3>2, <3>3
  <2>5. QED
    BY <1>7, <2>3, <2>4
<1>8. CASE MenuPage
  <2>1. OpenOrientation
    BY <1>3, <1>8 DEF MenuPage, OpenConfigurator, OpenGyro, OpenAccel
  <2>2. Prepared(config) \in Config
    BY <1>0, PreparedFields
  <2>3. QED
    BY <1>2, <2>1, <2>2 DEF OpenOrientation
<1>9. CASE ConfiguratorPage
  <2>1. ASSUME NEW p \in Profiles, ChooseProfile(p) PROVE FALSE
    BY <1>3, <2>1 DEF ChooseProfile
  <2>2. CASE SaveConfigurator
    BY <1>0, <1>1, <2>2 DEF SaveConfigurator, AtRest
  <2>3. QED
    BY <1>7, <1>9, <2>1, <2>2 DEF ConfiguratorPage
<1>10. CASE SaveGyro
  <2>1. Calibrated(config, "gyro", Reading("gyro")) \in Config /\ page = "gyro"
    BY <1>0, <1>10, Readings, CalibratedFields DEF SaveGyro, TypesInv, Sensors
  <2>2. QED
    BY <1>1, <1>4, <1>10, <2>1 DEF SaveGyro, AtRest
<1>11. CASE AccelPage
  <2>1. /\ page \in Accel /\ page \in Sensors /\ NextPage[page] \in AtRest
        /\ page # "configurator" /\ peak[page] \in Int
    BY <1>11, NextPages DEF AccelPage, Accel, Sensors, AtRest, TypesInv
  <2>2. Calibrated(config, page, peak[page]) \in Config
    BY <1>0, <2>1, CalibratedFields
  <2>3. SaveAccel
    BY <1>3, <1>11 DEF AccelPage, SkipAccel, ClearMax
  <2>4. QED
    BY <1>1, <1>4, <2>1, <2>2, <2>3 DEF SaveAccel
<1>12. CASE OrientationPage
  <2>1. page \in Axes /\ page # "configurator"
    BY <1>12, NoAxes DEF OrientationPage
  <2>2. Angle(page) \in Int /\ restore.rot[page] \in Int
    BY <2>1, Readings DEF TypesInv, Calibration, Rotations
  <2>3. PICK x \in Int : Commit(Turned(config, page, x), page = "yaw", NextPage[page])
    BY <1>12, <2>2 DEF OrientationPage, SaveOrientation, SkipOrientation
  <2>4. Turned(config, page, x) \in Config
    BY <1>0, <2>1, TurnedFields
  <2>5. page = "yaw" => NextPage[page] \in AtRest
    BY NextPages DEF AtRest
  <2>6. QED
    BY <1>1, <1>4, <2>1, <2>3, <2>4, <2>5
<1>13. CASE Cancel
  <2>1. \/ UNCHANGED device
        \/ Sent("appconf", config', FALSE) \/ WriteRaises("appconf", config', FALSE)
    BY <1>13 DEF Cancel
  <2>2. config' \in Config
    BY <1>0, <1>13, RestoredFields DEF Cancel, TypesInv
  <2>3. QED
    BY <1>2, <1>3, <2>1, <2>2
<1>14. QED
  BY <1>5, <1>6, <1>7, <1>8, <1>9, <1>10, <1>11, <1>12, <1>13 DEF NextGui

\* In the wizard: a step that stores, or an interrupted one.
LEMMA WizardMends ==
  ASSUME TypesInv, PageInv, NextWizard, fails' = 0, lost = "open", lost' = "mended", Own'
  PROVE  Faultless'
<1>0. program = "wizard" /\ config \in Config /\ opened \in Config /\ restore \in Calibration
      /\ ~(lost' = lost)
  BY DEF NextWizard, LeaveOut, TryType, SampleType, StoreBasic, DiscardBasic,
     BeginBasic, WizardGyro, WizardAccel, BeginOrientation, RollOrientation,
     PitchOrientation, YawOrientation, Orient, LeaveOrientation, InterruptedStore,
     Interrupted, WizardAt, TypesInv
<1>1. ASSUME NEW c \in Config, NEW store, NEW step, WriteThen(c, store, step),
             store => step \in AtRest \cup {"over"},
             step \in AtRest => page \notin {"try", "sample"} /\ UNCHANGED search
      PROVE  Faultless'
  <2>1. store /\ ram'.appconf = c /\ stored'.appconf = c
    BY <1>1, StoreWritten DEF WriteThen
  <2>2. config' = c /\ Continue(step)
    BY <1>1, ThenGoesOn
  <2>3. CASE step = "over"
    BY <1>0, <2>2, <2>3, StoreMends DEF Continue, Ends
  <2>4. CASE step \in AtRest /\ step # "over"
    <3>1. page' = step /\ ~search'.active
      BY <1>0, <1>1, <2>2, <2>4, ContinueLeads DEF PageInv
    <3>2. QED
      BY <1>0, <2>1, <2>2, <2>4, <3>1, StoreMends
  <2>5. QED
    BY <1>1, <2>1, <2>3, <2>4
<1>2. ASSUME UNCHANGED device PROVE FALSE
  BY <1>0, <1>2 DEF device
<1>3. CASE LeaveOut \/ \E s \in BOOLEAN : BeginBasic(s)
  BY <1>2, <1>3 DEF LeaveOut, BeginBasic
<1>4. ASSUME NEW c \in Config, NEW step, WriteThen(c, FALSE, step) PROVE FALSE
  BY <1>4, StoreWritten DEF WriteThen
<1>5. CASE TryType
  <2>1. [config EXCEPT !.type = search.candidate] \in Config
    BY <1>0, <1>5 DEF TryType, WizardAt, PageInv, TypesInv, Config
  <2>2. QED
    BY <1>4, <1>5, <2>1 DEF TryType
<1>6. CASE SampleType
  <2> DEFINE n == IF Working THEN search.candidate ELSE 0
             c == [config EXCEPT !.type = n, !.app = search.app]
  <2>1. WriteThen(c, FALSE, "profile")
    BY <1>2, <1>6 DEF SampleType
  <2>2. search.active /\ search.candidate \in Types /\ search.app \in {"user", "off"}
    BY <1>0, <1>6 DEF SampleType, WizardAt, PageInv, TypesInv
  <2>3. n \in Types \cup {0}
    BY <2>2
  <2> HIDE DEF n
  <2>4. c \in Config
    BY <1>0, <2>2, <2>3 DEF Config
  <2> HIDE DEF c
  <2>5. QED
    BY <1>4, <2>1, <2>4
<1>7. CASE StoreBasic
  <2>1. PICK c \in {config} \cup {Profiled(config, p) : p \in Profiles} :
          WriteThen(c, TRUE, "gyro")
    BY <1>7 DEF StoreBasic
  <2>2. c \in Config /\ page = "profile" /\ UNCHANGED search
    BY <1>0, <1>7, ProfiledFields DEF StoreBasic, WizardAt, others
  <2>3. QED
    BY <1>1, <2>1, <2>2 DEF AtRest
<1>8. CASE DiscardBasic \/ LeaveOrientation
  BY <1>0, <1>4, <1>8, RestoredFields DEF DiscardBasic, LeaveOrientation
<1>9. CASE WizardGyro \/ WizardAccel
  <2>1. page \in Sensors /\ page \notin {"try", "sample"} /\ UNCHANGED search
    BY <1>9 DEF WizardGyro, WizardAccel, WizardAt, Accel, Sensors
  <2>2. Calibrated(config, page, Sampled(page)) \in Config
    BY <1>0, <2>1, Readings, CalibratedFields DEF Sampled, TypesInv
  <2>3. \E next \in AtRest : WriteThen(Calibrated(config, page, Sampled(page)), TRUE, next)
    <3>1. page = "z" \/ (page \in Accel => NextPage[page] \in AtRest)
      BY NextPages DEF AtRest, Accel
    <3>2. QED
      BY <1>2, <1>9, <3>1 DEF WizardGyro, WizardAccel, WizardAt, Choose, AtRest
  <2>4. QED
    BY <1>1, <2>1, <2>2, <2>3
<1>10. CASE BeginOrientation
  BY <1>0, <1>2, <1>4, <1>10, PreparedFields DEF BeginOrientation
<1>11. ASSUME NEW axis \in Axes, NEW store, NEW next, Orient(axis, store, next),
              store => next = "over", ~store => next \notin AtRest
       PROVE  Faultless'
  <2>1. restore.rot[axis] \in Int /\ Angle(axis) \in Int /\ "over" \notin AtRest
    BY Readings DEF TypesInv, Calibration, Rotations, AtRest
  <2>2. PICK x \in Int : WriteThen(Turned(config, axis, x), store, next)
    BY <1>11, <2>1 DEF Orient
  <2>3. Turned(config, axis, x) \in Config
    BY <1>0, TurnedFields
  <2>4. QED
    BY <1>1, <1>11, <2>1, <2>2, <2>3
<1>12. CASE RollOrientation \/ PitchOrientation \/ YawOrientation
  BY <1>11, <1>12 DEF RollOrientation, PitchOrientation, YawOrientation, Axes, AtRest
<1>13. CASE InterruptedStore
  <2>1. program' = "over" /\ lost' # "none"
    BY <1>13 DEF InterruptedStore, Ends, Mended
  <2>2. QED
    BY <2>1, StoreMends
<1>14. CASE Interrupted
  BY <1>0, <1>14 DEF Interrupted
<1>15. QED
  BY <1>3, <1>5, <1>6, <1>7, <1>8, <1>9, <1>10, <1>12, <1>13, <1>14 DEF NextWizard

-----------------------------------------------------------------------------
(* Every step of the two programs.                                         *)

\* What the handlers above are told of a step in which nothing raises.
LEMMA StepUnfails ==
  ASSUME LossInv, TypesInv, entries \subseteq Kinds, Next, fails' = 0
  PROVE  Unfailing /\ lost' \in {"none", "open", "mended"}
BY LossesKept DEF Unfailing, LossInv

\* In the window.
LEMMA GuiFaultless ==
  ASSUME TypesInv, PageInv, StepInv, FaultlessInv, Unfailing, lost' # "open",
         lost' \in {"none", "open", "mended"}, Own', StartGui \/ NextGui
  PROVE  Faultless'
<1>1. fails \in Nat /\ fails' = 0 /\ (Guessed => Guessed')
  BY TypesAssumption DEF TypesInv, Unfailing
<1>2. CASE StartGui
  <2>1. /\ program = "none" /\ program' = "gui" /\ page' = "menu" /\ config' = ram.appconf
        /\ UNCHANGED <<ram, stored, search>>
    BY <1>2 DEF StartGui
  <2>2. ram = stored /\ Sound(ram.appconf) /\ ~search.active
    BY <2>1, UserConfigTypes DEF PageInv, Sound, Owned
  <2>3. OthersStored' /\ Sound(stored.appconf)'
    BY <1>1, <2>1, <2>2, StoredStays DEF OthersStored
  <2>4. QED
    BY <2>1, <2>2, <2>3, NoPeaks, Rests DEF AtRest
<1>3. CASE program = "gui" /\ NextGui
  <2>1. fails = 0
    <3>1. fails' = fails \/ fails' = fails + 1 \/ fails' = fails + 2
      BY <1>3 DEF NextGui, Poll, PollFails, CheckCandidate, FinishSearch, TryCandidate,
         MenuPage, OpenConfigurator, OpenGyro, OpenAccel, OpenOrientation, ConfiguratorPage,
         StartSearch, ChooseProfile, SaveConfigurator, SaveGyro, AccelPage, SaveAccel,
         SkipAccel, ClearMax, OrientationPage, SaveOrientation, SkipOrientation, Commit,
         Cancel, CloseWindow, Sent, Written, WriteLost, WriteRaises, WriteRaisesThen, device
    <3>2. QED
      BY <1>1, <3>1
  <2>2. CASE lost = "open"
    <3>1. lost' # "none"
      BY <2>2 DEF Unfailing
    <3>2. QED
      BY <1>1, <1>3, <2>2, <3>1, GuiMends
  <2>3. CASE lost # "open"
    <3>1. Faultless
      BY <2>1, <2>3 DEF FaultlessInv
    <3>2. CASE PollFails
      BY <1>1, <3>2 DEF PollFails
    <3>3. CASE CloseWindow
      <4>1. program' = "over" /\ UNCHANGED stored /\ Sound(stored.appconf)
        BY <3>1, <3>3 DEF CloseWindow, device, Faultless
      <4>2. QED
        BY <1>1, <4>1, StoredStays, IsOver
    <3>4. QED
      BY <1>3, <3>1, <3>2, <3>3, PollFaultless, SearchFaultless, MenuFaultless,
         ConfiguratorFaultless, GyroFaultless, AccelFaultless, OrientationFaultless,
         CancelFaultless DEF NextGui
  <2>4. QED
    BY <2>2, <2>3
<1>4. QED
  BY <1>2, <1>3 DEF NextGui

\* In the wizard.
LEMMA WizardFaultless ==
  ASSUME TypesInv, PageInv, StepInv, FaultlessInv, Unfailing, lost' # "open",
         lost' \in {"none", "open", "mended"}, Own', StartWizard \/ NextWizard
  PROVE  Faultless'
<1>1. fails \in Nat /\ fails' = 0 /\ (Guessed => Guessed')
  BY TypesAssumption DEF TypesInv, Unfailing
<1>2. CASE StartWizard
  <2>1. /\ program = "none" /\ program' = "wizard" /\ page' = "basic" /\ config' = ram.appconf
        /\ UNCHANGED <<ram, stored, search>>
    BY <1>2 DEF StartWizard, others
  <2>2. ram = stored /\ Sound(ram.appconf) /\ ~search.active
    BY <2>1, UserConfigTypes DEF PageInv, Sound, Owned
  <2>3. OthersStored' /\ Sound(stored.appconf)'
    BY <1>1, <2>1, <2>2, StoredStays DEF OthersStored
  <2>4. QED
    BY <2>1, <2>2, <2>3, WizardPeaks, Rests DEF AtRest
<1>3. CASE NextWizard
  <2>1. fails' = fails \/ fails' = fails + 1
    BY <1>3 DEF NextWizard, LeaveOut, TryType, SampleType, StoreBasic, DiscardBasic,
       BeginBasic, WizardGyro, WizardAccel, BeginOrientation, RollOrientation,
       PitchOrientation, YawOrientation, Orient, LeaveOrientation, InterruptedStore,
       Interrupted, Choose, WriteThen, Sent, Written, WriteLost, WriteRaises, device
  <2>2. fails = 0
    BY <1>1, <2>1
  <2>3. CASE lost = "open"
    <3>1. lost' # "none"
      BY <2>3 DEF Unfailing
    <3>2. QED
      BY <1>1, <1>3, <2>3, <3>1, WizardMends
  <2>4. CASE lost # "open"
    <3>1. Faultless
      BY <2>2, <2>4 DEF FaultlessInv
    <3>2. CASE RollOrientation
      BY <3>1, <3>2, OrientFaultless DEF RollOrientation, Axes
    <3>3. CASE PitchOrientation
      BY <3>1, <3>3, OrientFaultless DEF PitchOrientation, Axes
    <3>4. CASE YawOrientation
      BY <3>1, <3>4, OrientFaultless DEF YawOrientation, Axes
    <3>5. QED
      BY <1>3, <3>1, <3>2, <3>3, <3>4, BasicFaultless, CalibrationFaultless, EndFaultless
         DEF NextWizard
  <2>5. QED
    BY <2>3, <2>4
<1>4. QED
  BY <1>2, <1>3

-----------------------------------------------------------------------------
(* The programs together.                                                  *)

\* Window and wizard start and stay without what the editor loads.
LEMMA EntriesStay ==
  ASSUME EditorInv, program \in {"none", "gui", "wizard"}, program' # "tui", UNCHANGED tui
  PROVE  EditorInv'
BY DEF EditorInv, tui

\* The two setup programs keep the whole invariant.
LEMMA ProgramsKeep ==
  ASSUME ConfigInv, (StartGui \/ NextGui \/ StartWizard \/ NextWizard) /\ UNCHANGED tui
  PROVE  ConfigInv'
<1>0. /\ TypesInv /\ LossInv /\ PageInv /\ StepInv /\ (fails = 0 => Own) /\ FaultlessInv
      /\ EditorInv /\ entries \subseteq Kinds /\ Next
  BY DEF ConfigInv, OwnInv, EditorInv, Next
<1>1. TypesInv' /\ PageInv'
  BY <1>0, GuiTypes, WizardTypes
<1>2. /\ program \in {"none", "gui", "wizard"} /\ program' # "tui"
      /\ NextGui => program = "gui"
      /\ NextWizard => program = "wizard"
      /\ StartGui => program' = "gui" /\ page' = "menu"
      /\ StartWizard => program' = "wizard" /\ page' = "basic"
      /\ program' = "gui" => StartGui \/ NextGui
      /\ program' = "wizard" => StartWizard \/ NextWizard
  <2>1. StartGui => program = "none" /\ program' = "gui" /\ page' = "menu"
    BY DEF StartGui
  <2>2. StartWizard => program = "none" /\ program' = "wizard" /\ page' = "basic"
    BY DEF StartWizard
  <2>3. NextGui => program = "gui" /\ program' \in {"gui", "over"}
    BY DEF NextGui, Poll, PollFails, CheckCandidate, MenuPage, OpenConfigurator, OpenGyro,
       OpenAccel, OpenOrientation, ConfiguratorPage, StartSearch, ChooseProfile,
       SaveConfigurator, SaveGyro, AccelPage, SaveAccel, SkipAccel, ClearMax,
       OrientationPage, SaveOrientation, SkipOrientation, Commit, Cancel, CloseWindow,
       session
  <2>4. NextWizard => program = "wizard" /\ program' \in {"wizard", "over"}
    BY DEF NextWizard, LeaveOut, TryType, SampleType, StoreBasic, DiscardBasic, BeginBasic,
       WizardGyro, WizardAccel, BeginOrientation, RollOrientation, PitchOrientation,
       YawOrientation, Orient, LeaveOrientation, InterruptedStore, Interrupted, Choose,
       Stay, WriteThen, Continue, Ends, WizardAt
  <2>5. QED
    BY <2>1, <2>2, <2>3, <2>4
<1>3. StepInv'
  <2>1. SUFFICES ASSUME program' \in {"gui", "wizard"}, page' \in Axes PROVE StepKept'
    BY DEF StepInv, StepKept
  <2>2. page' # "menu" /\ page' # "basic"
    BY <2>1, NoAxes
  <2>3. QED
    BY <1>0, <1>2, <2>1, <2>2, GuiKeepsStep, WizardKeepsStep
<1>4. LossInv'
  BY <1>0, LossesKept
<1>5. OwnInv'
  BY <1>0, GuiOwn, WizardOwn DEF OwnInv
<1>6. FaultlessInv'
  <2> SUFFICES ASSUME fails' = 0, lost' # "open" PROVE Faultless'
    BY DEF FaultlessInv
  <2>1. Unfailing /\ lost' \in {"none", "open", "mended"} /\ Own'
    BY <1>0, <1>5, StepUnfails DEF OwnInv
  <2>2. QED
    BY <1>0, <2>1, GuiFaultless, WizardFaultless
<1>7. EditorInv'
  BY <1>0, <1>2, EntriesStay
<1>8. QED
  BY <1>1, <1>3, <1>4, <1>5, <1>6, <1>7 DEF ConfigInv

\* While the editor runs what the window and the wizard remember means nothing.
LEMMA EditorKeeps ==
  ASSUME ConfigInv, NextTui, UNCHANGED gui
  PROVE  ConfigInv'
<1>0. TypesInv /\ LossInv /\ PageInv /\ EditorInv /\ entries \subseteq Kinds /\ Next
  BY DEF ConfigInv, EditorInv, Next
<1>1. LossInv' /\ (Guessed => Guessed')
  BY <1>0, LossesKept
<1>2. /\ TypesInv' /\ PageInv' /\ EditorInv'
      /\ program' = "tui" \/ (program' = "over" /\ UNCHANGED <<device, editor>>)
  BY <1>0, <1>1, EditorSteps
<1>3. StepInv'
  BY <1>2 DEF StepInv
<1>4. CASE program' = "tui"
  <2>1. Sound(stored.appconf)'
    BY <1>2, <1>4 DEF EditorInv
  <2>2. Own' /\ Faultless'
    BY <1>4, <2>1, OwnOver, IsOver DEF Sound
  <2>3. QED
    BY <1>1, <1>2, <1>3, <2>2 DEF ConfigInv, OwnInv, FaultlessInv
<1>5. CASE program' = "over" /\ UNCHANGED <<device, editor>>
  <2>1. UNCHANGED <<fails, lost, stored>>
    BY <1>5 DEF device
  <2>2. OwnInv'
    <3>1. ASSUME fails' = 0 PROVE Own'
      BY <1>5, <2>1, <3>1, OwnOver DEF ConfigInv, OwnInv, Own
    <3>2. QED
      BY <3>1 DEF OwnInv
  <2>3. FaultlessInv'
    <3>1. ASSUME fails' = 0, lost' # "open" PROVE Faultless'
      <4>1. Sound(stored.appconf)
        BY <2>1, <3>1 DEF ConfigInv, FaultlessInv, Faultless
      <4>2. QED
        BY <1>1, <1>5, <2>1, <4>1, StoredStays, IsOver
    <3>2. QED
      BY <3>1 DEF FaultlessInv
  <2>4. QED
    BY <1>1, <1>2, <1>3, <2>2, <2>3 DEF ConfigInv
<1>6. QED
  BY <1>2, <1>4, <1>5

\* The invariant holds in every state of the specification.
LEMMA ConfigHolds == Spec => []ConfigInv
<1>1. ConfigInv /\ [Next]_vars => ConfigInv'
  <2> SUFFICES ASSUME ConfigInv, [Next]_vars PROVE ConfigInv'
    OBVIOUS
  <2>1. CASE (StartGui \/ NextGui \/ StartWizard \/ NextWizard) /\ UNCHANGED tui
    BY <2>1, ProgramsKeep
  <2>2. CASE NextTui /\ UNCHANGED gui
    BY <2>2, EditorKeeps
  <2>3. CASE UNCHANGED vars
    <3>1. /\ UNCHANGED <<ram, stored, fails, lost, late, waits>>
          /\ UNCHANGED <<program, page, opened, restore, hasty, config, search>>
          /\ UNCHANGED <<profile, timers, noise, peak, entries, original, current>>
      BY <2>3 DEF vars, device, session, gui, tui
    <3>2. TypesInv' /\ LossInv' /\ PageInv' /\ StepInv'
      BY <3>1 DEF ConfigInv, TypesInv, LossInv, PageInv, StepInv, Alike
    <3>3. OwnInv'
      BY <3>1, OwnStays DEF ConfigInv, OwnInv
    <3>4. FaultlessInv'
      <4>1. /\ PeakInv => PeakInv'
            /\ SearchInv => SearchInv'
        BY <3>1 DEF PeakInv, Peaks, Reading, SearchInv, Working
      <4>2. ASSUME Faultless PROVE Faultless'
        <5>1. Guessed => Guessed'
          BY <3>1 DEF Guessed
        <5>2. CASE program \in {"gui", "wizard"}
          BY <3>1, <4>1, <4>2, <5>1, <5>2, FaultlessStays DEF Faultless
        <5>3. CASE program \notin {"gui", "wizard"}
          <6>1. Sound(stored.appconf)'
            BY <3>1, <4>2, <5>1, StoredStays DEF Faultless
          <6>2. QED
            BY <3>1, <5>3, <6>1, IsOver
        <5>4. QED
          BY <5>2, <5>3
      <4>3. QED
        BY <3>1, <4>2 DEF ConfigInv, FaultlessInv
    <3>5. EditorInv'
      BY <3>1 DEF ConfigInv, EditorInv, Shown, Sound, Owned, Guessed, Framed, Measured
    <3>6. QED
      BY <3>2, <3>3, <3>4, <3>5 DEF ConfigInv
  <2>4. QED
    BY <2>1, <2>2, <2>3 DEF Next
<1>2. QED
  BY <1>1, ConfigInitially, PTL DEF Spec

-----------------------------------------------------------------------------
(* The theorems.                                                           *)

\* The configurations in the controller and in the programs are configurations, an
\* acknowledgement can come late only after a write that raised, a search has a candidate and
\* the application to put back, timers stay within their bound, and the editor shows numbers
\* in their range only (config_tui.py's validation and clamping).
THEOREM ConfigTyped == Spec => []TypeOK
<1>1. ConfigInv => TypeOK
  <2> SUFFICES ASSUME ConfigInv PROVE TypeOK
    OBVIOUS
  <2>1. \A c \in {ram.appconf, stored.appconf, config, opened} : c \in Config
    BY DEF ConfigInv, TypesInv, Configurations
  <2>2. /\ fails \in 0..MaxFails
        /\ program \in {"none", "gui", "wizard", "tui", "over"}
        /\ search.active => search.candidate \in Types /\ search.app # "none"
        /\ lost \in {"none", "open", "mended"} /\ waits \in BOOLEAN
        /\ late \subseteq SetCommands /\ (late # {} => fails > 0)
    BY DEF ConfigInv, TypesInv, LossInv
  <2>3. timers.young + timers.due <= MaxTimers + 1
    BY TypesAssumption DEF ConfigInv, TypesInv
  <2>4. /\ "mcconf" \in entries => {current.mcconf, original.mcconf} \subseteq InRange
        /\ "express" \in entries => {current.express, original.express} \subseteq BitFields
    BY DEF ConfigInv, EditorInv, Shown
  <2>5. QED
    BY <2>1, <2>2, <2>3, <2>4 DEF TypeOK
<1>2. QED
  BY <1>1, ConfigHolds, PTL

\* Whichever writes are lost without an error, as by default any may be, flash holds a
\* calibration of one piece as long as none raised, whatever is saved, skipped, retried,
\* cancelled or interrupted in window and wizard, and whatever the editor writes: its offsets
\* are in the frame of its rotation, and no searched configuration was stored.  If none was
\* lost, no offset was added twice either, and no prepared configuration was stored.
THEOREM CalibrationStaysSound == Spec => []CalibrationSound
<1>1. ConfigInv => CalibrationSound
  <2> SUFFICES ASSUME ConfigInv, fails = 0
               PROVE  LET c == stored.appconf
                      IN  /\ c.frame = FrameOf(c.rot)
                          /\ c.app = "user"
                          /\ ~hasty /\ lost = "none" => Measured(c)
    BY DEF CalibrationSound, Measured
  <2>1. Owned(stored.appconf)
    BY DEF ConfigInv, OwnInv, Own
  <2>2. lost = "none" => Sound(stored.appconf)
    BY DEF ConfigInv, FaultlessInv, Faultless
  <2>3. QED
    BY <2>1, <2>2 DEF Owned, Framed, Sound, Guessed
<1>2. QED
  BY <1>1, ConfigHolds, PTL

\* As long as nothing raised, and what was lost without an error has been made up for by a
\* later store, the controller works with what it has stored wherever no step has set anything
\* for the time being.
THEOREM TemporarySettingsEnd == Spec => []RestingIsStored
<1>1. ConfigInv => RestingIsStored
  <2> SUFFICES ASSUME ConfigInv, fails = 0, lost # "open", page \in Resting, program # "over"
               PROVE  ram = stored
    BY DEF RestingIsStored
  <2>1. CASE program = "none"
    BY <2>1 DEF ConfigInv, PageInv
  <2>2. CASE program = "tui"
    BY <2>2 DEF ConfigInv, EditorInv
  <2>3. CASE program \in {"gui", "wizard"}
    <3>1. page \in AtRest
      BY <2>3 DEF ConfigInv, PageInv, Resting, AtRest, Accel, Axes
    <3>2. ram.appconf = stored.appconf /\ ram.mcconf = stored.mcconf
          /\ ram.express = stored.express
      BY <2>3, <3>1 DEF ConfigInv, FaultlessInv, Faultless
    <3>3. ram \in Configurations /\ stored \in Configurations
      BY DEF ConfigInv, TypesInv
    <3>4. QED
      BY <3>2, <3>3 DEF Configurations
  <2>4. QED
    BY <2>1, <2>2, <2>3 DEF ConfigInv, TypesInv
<1>2. QED
  BY <1>1, ConfigHolds, PTL

\* Whatever failed or was lost in a step: a Cancel puts the program's configuration back, and
\* one whose own write takes effect the controller's memory, as it was when the step was opened
\* (_cancel_or_close).  The write takes effect if it does not raise and, where acknowledgements
\* are waited for, none may come late for another like it, or where it leaves no loss behind.
THEOREM CancelRestores == Spec => CancelUndoes
<1> DEFINE Undoes ==
      /\ program = "gui" /\ page \in Axes \cup {"configurator"} /\ page' = "menu"
      /\ Cancel /\ ~openFailed
      => /\ config' = opened
         /\ fails' = fails /\ (lost' # "open" \/ ~MayBeLost("appconf", FALSE))
              => ram'.appconf = opened
<1>1. ASSUME ConfigInv, program = "gui", page \in Axes \cup {"configurator"}, Cancel
      PROVE  /\ config' = opened
             /\ fails' = fails /\ (lost' # "open" \/ ~MayBeLost("appconf", FALSE))
                  => ram'.appconf = opened
  <2>1. TypesInv /\ StepInv /\ fails \in Nat /\ config \in Config /\ opened \in Config
    BY <1>1, TypesAssumption DEF ConfigInv, TypesInv
  <2>2. config' = opened
    BY <1>1, <2>1, CancelsTo
  <2>3. ASSUME fails' = fails, lost' # "open" \/ ~MayBeLost("appconf", FALSE)
        PROVE  ram'.appconf = opened
    <3>1. Written("appconf", opened, FALSE)
      <4>1. fails + 1 # fails
        BY <2>1
      <4>2. Sent("appconf", opened, FALSE)
        BY <1>1, <2>2, <2>3, <4>1 DEF Cancel, WriteRaises
      <4>3. ~WriteLost("appconf", FALSE)
        BY <2>3 DEF WriteLost
      <4>4. QED
        BY <4>2, <4>3 DEF Sent
    <3>2. QED
      BY <2>1, <3>1, DeviceTyped, WrittenChanges
  <2>4. QED
    BY <2>2, <2>3
<1>2. ConfigInv /\ [Next]_vars => [Undoes]_vars
  BY <1>1
<1>3. QED
  BY <1>2, ConfigHolds, PTL DEF Spec, CancelUndoes

\* A search that comes to its end puts the user's application back; without a failure, a write
\* that was lost, or the timer of a cancelled search, it ends with the type that is fitted.
THEOREM SearchesFind == Spec => SearchFindsFitted
<1> DEFINE Finds ==
      search.active /\ ~search'.active /\ page' \in {"configurator", "profile"}
      => /\ config'.app = search.app
         /\ fails' = 0 /\ lost # "open" /\ timers.young + timers.due < 2
              => config'.type = Fitted
<1>1. ASSUME ConfigInv, Next, search.active, ~search'.active,
             page' \in {"configurator", "profile"}
      PROVE  /\ config'.app = search.app
             /\ fails' = 0 /\ lost # "open" /\ timers.young + timers.due < 2
                  => config'.type = Fitted
  <2>1. /\ TypesInv /\ LossInv /\ PageInv /\ FaultlessInv /\ fails \in Nat
        /\ entries \subseteq Kinds
        /\ search.candidate \in Types /\ search.app \in {"user", "off"}
        /\ config \in Config /\ search' # search
    BY <1>1, TypesAssumption DEF ConfigInv, TypesInv, EditorInv
  <2>2. CASE program = "gui" /\ CheckCandidate
    <3>1. config'.app = search.app
      <4>1. PICK n \in Types \cup {0} : config' = Searched(config, n, search.app)
        <5> DEFINE m == search.candidate + 1
        <5>1. \/ FinishSearch(config, search.candidate, search.app, timers.due - 1)
              \/ TryCandidate(config, m, search.app, timers.due - 1)
          BY <1>1, <2>2 DEF CheckCandidate
        <5> HIDE DEF m
        <5>2. TryCandidate(config, m, search.app, timers.due - 1) =>
                \/ FinishSearch(config, 0, search.app, timers.due - 1)
                \/ m \in Types /\ config' = Searched(config, m, search.app)
                \/ search' = [active |-> TRUE, candidate |-> m, app |-> search.app]
          BY DEF TryCandidate
        <5>3. search' # [active |-> TRUE, candidate |-> m, app |-> search.app]
          BY <1>1
        <5>4. FinishSearch(config, search.candidate, search.app, timers.due - 1) =>
                config' = Searched(config, search.candidate, search.app)
          BY DEF FinishSearch
        <5>5. FinishSearch(config, 0, search.app, timers.due - 1) =>
                config' = Searched(config, 0, search.app)
          BY DEF FinishSearch
        <5>6. QED
          BY <2>1, <5>1, <5>2, <5>3, <5>4, <5>5
      <4>2. n \in Nat /\ search.app \in {"user", "off"} /\ config \in Config /\ TypesInv
        BY <2>1, <4>1, TypesAssumption DEF Types
      <4>3. QED
        BY <4>1, <4>2, Searches
    <3>2. fails' = 0 => fails = 0
      <4>1. fails' = fails \/ fails' = fails + 1 \/ fails' = fails + 2
        BY <2>2 DEF CheckCandidate, FinishSearch, TryCandidate, Sent, Written, WriteLost,
           WriteRaises, WriteRaisesThen, device
      <4>2. QED
        BY <2>1, <4>1
    <3>3. fails' = 0 /\ lost # "open" => Faultless /\ Unfailing
      BY <1>1, <2>1, <3>2, StepUnfails DEF FaultlessInv
    <3>4. QED
      BY <1>1, <2>1, <2>2, <3>1, <3>3, SearchFaultless
  <2>3. CASE SampleType
    <3>1. WriteThen([config EXCEPT !.type = IF Working THEN search.candidate ELSE 0,
                                   !.app = search.app],
                    FALSE, "profile")
      BY <1>1, <2>1, <2>3 DEF SampleType, TypesInv
    <3>2. config'.app = search.app
      BY <2>1, <3>1 DEF WriteThen, Config
    <3>3. fails' = 0 => fails = 0
      <4>1. fails' = fails \/ fails' = fails + 1
        BY <3>1 DEF WriteThen, Sent, Written, WriteLost, WriteRaises
      <4>2. QED
        BY <2>1, <4>1
    <3>4. fails' = 0 /\ lost # "open" => Faultless
      BY <2>1, <3>3 DEF FaultlessInv
    <3>5. ASSUME fails' = 0, lost # "open" PROVE config'.type = Fitted
      <4>1. ~(~Working /\ search.candidate + 1 \in Types)
        BY <1>1, <2>1, <2>3 DEF SampleType, TypesInv
      <4> DEFINE c == [config EXCEPT !.type = IF Working THEN search.candidate ELSE 0,
                                     !.app = search.app]
      <4>2. c.type = Fitted /\ WriteThen(c, FALSE, "profile")
        BY <2>1, <2>3, <3>4, <3>5, <4>1, SampleFinds
      <4> HIDE DEF c
      <4>3. config' = c
        BY <2>1, <3>5, <4>2, ThenGoesOn
      <4>4. QED
        BY <4>2, <4>3
    <3>6. QED
      BY <3>2, <3>5
  <2>4. ASSUME NextGui, ~CheckCandidate PROVE FALSE
    <3>1. search' = search \/ page' \notin {"configurator", "profile"} \/ ~search.active
      BY <2>4 DEF NextGui, Poll, PollFails, MenuPage, OpenConfigurator, OpenGyro, OpenAccel,
         OpenOrientation, ConfiguratorPage, StartSearch, ChooseProfile, SaveConfigurator,
         SaveGyro, AccelPage, SaveAccel, SkipAccel, ClearMax, OrientationPage,
         SaveOrientation, SkipOrientation, Commit, Cancel, CloseWindow, SetPage
    <3>2. QED
      BY <1>1, <2>1, <3>1
  <2>5. ASSUME NextWizard, ~SampleType PROVE FALSE
    <3>1. search' = search \/ ~search.active
      BY <1>1, <2>1, <2>5 DEF NextWizard, LeaveOut, TryType, StoreBasic, DiscardBasic,
         BeginBasic, WizardGyro, WizardAccel, BeginOrientation, RollOrientation,
         PitchOrientation, YawOrientation, Orient, LeaveOrientation, InterruptedStore,
         Interrupted, WizardAt, PageInv, others
    <3>2. QED
      BY <1>1, <2>1, <3>1
  <2>6. ASSUME StartGui \/ StartWizard \/ NextTui PROVE FALSE
    <3>1. search' = search
      BY <2>6 DEF StartGui, StartWizard, others, NextTui, Load, LoadFails, SubmitText,
         StepSelected, CheckBit, ChangeEditor, RevertSelected, CommitValue, AskRevert,
         AskApply, AskQuit, Ask, Decline, RevertAll, Apply, ApplyRaises, ApplyRefused, Quit,
         editor
    <3>2. QED
      BY <2>1, <3>1
  <2>7. QED
    BY <1>1, <2>2, <2>3, <2>4, <2>5, <2>6 DEF Next, NextGui
<1>2. ConfigInv /\ [Next]_vars => [Finds]_vars
  BY <1>1
<1>3. QED
  BY <1>2, ConfigHolds, PTL DEF Spec, SearchFindsFitted

\* What the editor shows and the controller does not have is marked as unsaved; after a write
\* that raised only a revert can take the mark away, or an Apply that takes a late
\* acknowledgement for its own.
THEOREM OnlyRevertsHide == Spec => OnlyRevertHides
<1> DEFINE Hides ==
      program = "tui" /\ program' = "tui" /\ Unmarked = {} /\ Unmarked' # {}
      => fails > 0 /\ (RevertSelected \/ RevertAll \/ (late # {} /\ Apply))
<1>1. ASSUME ConfigInv, Next, program = "tui", program' = "tui", Unmarked = {}, Unmarked' # {}
      PROVE  fails > 0 /\ (RevertSelected \/ RevertAll \/ (late # {} /\ Apply))
  <2>1. /\ Edited /\ ram \in Configurations /\ fails \in Nat /\ entries \subseteq Kinds
        /\ NextTui /\ LossInv
    <3>1. NextTui
      BY <1>1 DEF Next, NextGui, StartGui, StartWizard, NextWizard, LeaveOut, TryType,
         SampleType, StoreBasic, DiscardBasic, BeginBasic, WizardGyro, WizardAccel,
         BeginOrientation, RollOrientation, PitchOrientation, YawOrientation, Orient,
         LeaveOrientation, InterruptedStore, Interrupted, WizardAt
    <3>2. Edited
      BY <1>1, WhileEditing DEF ConfigInv
    <3>3. QED
      BY <1>1, <3>1, <3>2, TypesAssumption DEF ConfigInv, TypesInv, Edited
  <2>2. \A k \in entries : current[k] = original[k] => Serialized(k, current[k]) = ram[k]
    BY <1>1 DEF Unmarked
  <2>3. PICK k \in entries' : Serialized(k, current'[k]) # ram'[k] /\ current'[k] = original'[k]
    BY <1>1 DEF Unmarked
  <2>4. fails = 0 => \A i \in entries : ram[i] = Serialized(i, original[i])
    BY <2>1 DEF Edited
  <2>5. ASSUME NEW kind \in entries, NEW value, CommitValue(kind, value), Idle
        PROVE  fails > 0 /\ RevertSelected
    <3>1. /\ current' = [current EXCEPT ![kind] = value]
          /\ ram' = ram /\ entries' = entries /\ original' = original
      BY <2>5 DEF CommitValue, device
    <3>2. DOMAIN current = entries
      BY <2>1 DEF Edited, Shown
    <3>3. k = kind
      BY <2>2, <2>3, <3>1, <3>2
    <3>4. value = original[kind]
      BY <2>3, <3>1, <3>2, <3>3
    <3>5. RevertSelected
      BY <2>5, <3>4 DEF RevertSelected
    <3>6. ram[kind] # Serialized(kind, original[kind])
      BY <2>3, <3>1, <3>3
    <3>7. fails # 0
      BY <2>4, <2>5, <3>6
    <3>8. QED
      BY <2>1, <3>5, <3>7
  <2>6. CASE \/ \E text \in InRange : SubmitText(text)
             \/ \E d \in {-1, 1}, m \in {1, 10} : StepSelected(d, m)
             \/ \E bit \in Labelled : CheckBit(bit)
             \/ \E p \in {"own", "logs"} : ChangeEditor(p)
             \/ RevertSelected
    BY <2>5, <2>6 DEF SubmitText, StepSelected, CheckBit, ChangeEditor, RevertSelected
  <2>7. ASSUME UNCHANGED <<ram, entries, original, current>> PROVE FALSE
    BY <2>2, <2>3, <2>7
  <2>8. CASE LoadFails \/ AskRevert \/ AskApply \/ AskQuit \/ Decline \/ Quit
    <3>1. UNCHANGED <<ram, entries, original, current>>
      BY <2>8 DEF LoadFails, AskRevert, AskApply, AskQuit, Ask, Decline, Quit, device, tui
    <3>2. QED
      BY <2>7, <3>1
  <2>9. CASE RevertAll
    <3>1. UNCHANGED <<ram, entries, original>> /\ current' = original
      BY <2>9 DEF RevertAll, device
    <3>2. fails # 0
      BY <2>3, <2>4, <3>1
    <3>3. QED
      BY <2>1, <2>9, <3>2
  <2>10. ASSUME NEW kinds \in SUBSET entries, ram' = Put(ram, kinds),
                UNCHANGED <<entries, current>>,
                k \in kinds \/ current[k] = original[k]
         PROVE  FALSE
    <3>1. k \in Kinds /\ k \in entries /\ Shown(current)
      BY <2>1, <2>3, <2>10 DEF Edited
    <3>2. ram'[k] = IF k \in kinds THEN Serialized(k, current[k]) ELSE ram[k]
      BY <2>1, <2>10, <3>1, PutKinds
    <3>3. QED
      BY <2>2, <2>3, <2>10, <3>1, <3>2
  <2>11. ASSUME NEW kinds \in SUBSET entries, NEW answered, Stores(kinds, answered)
         PROVE  \E stores \in SUBSET entries :
                  ram' = Put(ram, stores) /\ (late = {} => stores = kinds)
    <3>1. PICK skipped \in SUBSET Mistakable(answered) : ram' = Put(ram, kinds \ skipped)
      BY <2>11 DEF Stores
    <3>2. kinds \ skipped \in SUBSET entries /\ (late = {} => kinds \ skipped = kinds)
      BY <3>1 DEF Mistakable
    <3>3. QED
      BY <3>1, <3>2
  <2>12. CASE Apply
    <3>1. /\ Dirty \in SUBSET entries /\ UNCHANGED <<entries, current>>
          /\ k \in Dirty \/ current[k] = original[k]
      BY <2>3, <2>12 DEF Apply, Dirty
    <3>2. CASE late = {}
      <4>1. ram' = Put(ram, Dirty)
        BY <2>11, <2>12, <3>1, <3>2 DEF Apply
      <4>2. QED
        BY <2>10, <3>1, <4>1
    <3>3. CASE late # {}
      BY <2>1, <2>12, <3>3 DEF LossInv
    <3>4. QED
      BY <3>2, <3>3
  <2>13. CASE ApplyRaises \/ ApplyRefused
    <3>1. UNCHANGED <<entries, current, original>> /\ current[k] = original[k]
      BY <2>3, <2>13 DEF ApplyRaises, ApplyRefused
    <3>2. \A i \in Dirty : Before(i) \in SUBSET entries /\ Before(i) \cup {i} \in SUBSET entries
      BY DEF Before, Dirty
    <3>3. PICK kinds \in SUBSET entries : \E answered : Stores(kinds, answered)
      BY <2>13, <3>2 DEF ApplyRaises, ApplyRefused
    <3>4. \E stores \in SUBSET entries : ram' = Put(ram, stores)
      BY <2>11, <3>3
    <3>5. QED
      BY <2>10, <3>1, <3>4
  <2>14. ASSUME NEW kinds, Load(kinds) PROVE FALSE
    BY <1>1, <2>14 DEF Load
  <2>15. QED
    BY <2>1, <2>6, <2>8, <2>9, <2>12, <2>13, <2>14 DEF NextTui
<1>2. ConfigInv /\ [Next]_vars => [Hides]_vars
  BY <1>1
<1>3. QED
  BY <1>2, ConfigHolds, PTL DEF Spec, OnlyRevertHides
=============================================================================
