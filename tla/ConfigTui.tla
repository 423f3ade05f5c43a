------------------------------ MODULE ConfigTui -----------------------------
(***************************************************************************)
(* src/examples/config_tui.py: an editor of the configurations.  Each kind *)
(* stands for one of its fields: a number in the motor configuration, a    *)
(* bit field in the express configuration, a choice in APPCONF that the    *)
(* IMU setup makes as well.                                                *)
(***************************************************************************)
EXTENDS ImuSetup, ConfigCodec

VARIABLES entries,    \* the kinds that were loaded
          original,   \* per kind, what was read or last applied
          current,    \* per kind, what is shown
          modal       \* the dialog that is open

tui == <<entries, original, current, modal>>
editor == <<config, opened, restore, hasty, search>>

Order == <<"express", "mcconf", "appconf">>
Kinds == {"express", "mcconf", "appconf"}
Lowest  == -1         \* a numeric parameter's minimum and maximum, in halves
Highest == 2
InRange == Lowest..Highest
Labelled == {1, 128}  \* the bits that are shown
BitFields == {0, 1, 128, 129}

(* _connect_and_load: which kinds there are depends on the hardware, on     *)
(* --can-id, on the schemas that are known, and, for an express behind     *)
(* which another controller is edited, on whether it answers.              *)
Loadable == (SUBSET Kinds) \ {{}}

ReadConfigEntry(kind) == Deserialized(kind, ram[kind])

Load(kinds) ==
  /\ program = "none"
  /\ waits' = TRUE
  /\ program' = "tui"
  /\ page' = "editor"
  /\ entries' = kinds
  /\ original' = [k \in kinds |-> ReadConfigEntry(k)]
  /\ current' = original'
  /\ UNCHANGED <<ram, stored, fails, lost, late, editor, modal>>

(* Without schemas, or when a read raises, the client is closed again.     *)
LoadFails ==
  /\ program = "none"
  /\ program' = "over"
  /\ UNCHANGED <<device, page, editor, tui>>

Idle == program = "tui" /\ modal = "none"

Dirty == {k \in entries : current[k] # original[k]}

(* _commit_value *)
CommitValue(kind, value) ==
  /\ current' = [current EXCEPT ![kind] = value]
  /\ UNCHANGED <<device, program, page, editor, entries, original, modal>>

(* validate_numeric_text lets nothing else pass than a number in range.    *)
SubmitText(text) ==
  /\ Idle
  /\ text \in InRange
  /\ "mcconf" \in entries
  /\ CommitValue("mcconf", text)

(* A mutant: a step below the minimum is not clamped.                      *)
ClampedMutant(value) == IF value > Highest THEN Highest ELSE value

(* step_numeric_value *)
Clamped(value) ==
  IF value < Lowest THEN Lowest ELSE IF value > Highest THEN Highest ELSE value

StepSelected(direction, multiplier) ==
  /\ Idle
  /\ "mcconf" \in entries
  /\ CommitValue("mcconf", Clamped(current.mcconf + direction * multiplier))

HasBit(value, bit) == (value \div bit) % 2 = 1

(* on_checkbox_changed puts the value together from the boxes.             *)
CheckBit(bit) ==
  /\ Idle
  /\ "express" \in entries
  /\ CommitValue("express", IF HasBit(current.express, bit) THEN current.express - bit
                                                           ELSE current.express + bit)

(* The editors of the other types commit what was chosen.                  *)
ChangeEditor(p) ==
  /\ Idle
  /\ "appconf" \in entries
  /\ current.appconf.profile # p
  /\ CommitValue("appconf", [current.appconf EXCEPT !.profile = p])

RevertSelected ==
  /\ Idle
  /\ \E k \in entries : CommitValue(k, original[k])

(* action_revert_all, action_apply_changes and action_request_quit ask     *)
(* first.                                                                  *)
Ask(question) ==
  /\ Idle
  /\ Dirty # {}
  /\ modal' = question
  /\ UNCHANGED <<device, program, page, editor, entries, original, current>>

AskRevert == Ask("revert")
AskApply  == Ask("apply")
AskQuit   == Ask("quit")

Confirming(question) == program = "tui" /\ modal = question /\ modal' = "none"

Decline ==
  /\ program = "tui" /\ modal # "none" /\ modal' = "none"
  /\ UNCHANGED <<device, program, page, editor, entries, original, current>>

RevertAll ==
  /\ Confirming("revert")
  /\ current' = original
  /\ UNCHANGED <<device, program, page, editor, entries, original>>

Put(conf, kinds) ==
  [k \in DOMAIN conf |-> IF k \in kinds THEN Serialized(k, current[k]) ELSE conf[k]]

(* Writes of these kinds, one after the other, that take effect; but one   *)
(* that was answered may be lost where a late acknowledgement of an earlier*)
(* write by the same command is taken for its own.                         *)
Heard(kinds)      == {Command(k, TRUE) : k \in kinds}
Mistakable(kinds) == {k \in kinds : Command(k, TRUE) \in late}

Stores(kinds, answered) ==
  /\ \A k \in kinds : Serializable(k, current[k])
  /\ \E skipped \in SUBSET Mistakable(answered) :
       /\ ram' = Put(ram, kinds \ skipped) /\ stored' = Put(stored, kinds \ skipped)
       /\ lost' = IF skipped = {} THEN lost ELSE "open"

(* A mutant: a failed write marks everything as saved, too.                *)
ApplyRaisesMutant ==
  /\ Confirming("apply")
  /\ fails < MaxFails
  /\ fails' = fails + 1
  /\ original' = current
  /\ UNCHANGED <<ram, stored, lost, late, waits, program, page, editor, entries, current>>

(* _apply_decision: a write per dirty kind, in order; the first that       *)
(* raises ends it, and original stays what it was for all kinds.           *)
Apply ==
  /\ Confirming("apply")
  /\ Stores(Dirty, Dirty)
  /\ original' = current
  /\ late' \in {late, late \ Heard(Dirty)}
  /\ UNCHANGED <<fails, waits, program, page, editor, entries, current>>

Before(kind) ==
  {Order[j] : j \in {j \in 1..3 : \A i \in 1..j : Order[i] # kind}} \cap Dirty

(* The write does not go out, or its acknowledgement does not come.        *)
ApplyRaises ==
  /\ Confirming("apply")
  /\ fails < MaxFails
  /\ fails' = fails + 1
  /\ \E kind \in Dirty : \E unread \in {late, late \ Heard(Before(kind))} :
       \/ Stores(Before(kind), Before(kind)) /\ late' = unread
       \/ /\ Stores(Before(kind) \cup {kind}, Before(kind))
          /\ late' \in {unread, unread \cup {Command(kind, TRUE)}}
  /\ UNCHANGED <<waits, program, page, editor, entries, original, current>>

(* serialize_config raises before anything of its kind is sent.            *)
ApplyRefused ==
  /\ Confirming("apply")
  /\ \E kind \in Dirty :
       /\ ~Serializable(kind, current[kind])
       /\ Stores(Before(kind), Before(kind))
       /\ late' \in {late, late \ Heard(Before(kind))}
  /\ UNCHANGED <<fails, waits, program, page, editor, entries, original, current>>

Quit ==
  /\ \/ Idle /\ Dirty = {} /\ UNCHANGED modal
     \/ Confirming("quit")
  /\ program' = "over"
  /\ page' = "none"
  /\ UNCHANGED <<device, editor, entries, original, current>>

NextTui ==
  \/ \E kinds \in Loadable : Load(kinds)
  \/ LoadFails
  \/ \E text \in InRange : SubmitText(text)
  \/ \E d \in {-1, 1}, m \in {1, 10} : StepSelected(d, m)
  \/ \E bit \in Labelled : CheckBit(bit)
  \/ \E p \in {"own", "logs"} : ChangeEditor(p)
  \/ RevertSelected
  \/ AskRevert \/ AskApply \/ AskQuit
  \/ Decline \/ RevertAll \/ Apply \/ ApplyRaises \/ ApplyRefused \/ Quit

InitTui ==
  /\ entries = {}
  /\ original = <<>>
  /\ current = <<>>
  /\ modal = "none"
=============================================================================
