------------------------------ MODULE ConfigCodec -----------------------------
(***************************************************************************)
(* How a configuration goes over the wire: config_schema.py and buffer.py. *)
(* One field stands for each kind: a DOUBLE that is sent as a DOUBLE16     *)
(* with scale 1 in the motor configuration, a BITFIELD in the express      *)
(* configuration.  APPCONF is the record of ImuSetup, sent as it is.       *)
(* Numbers are in halves of the wire's unit.                               *)
(***************************************************************************)
EXTENDS Integers

Int8  == -128..127
Uint8 == 0..255
Int16 == -32768..32767

(* _round_double: to the nearest whole unit, a half away from zero         *)
RoundDouble(halves) ==
  IF halves < 0 THEN -((1 - halves) \div 2) ELSE (halves + 1) \div 2

(* struct.pack raises for what its format cannot hold.                     *)
Packs(format, value) == value \in format

(* serialize_config writes a bit field as it writes an enumeration, as a   *)
(* signed byte.                                                            *)
Serializable(kind, value) ==
  CASE kind = "mcconf"  -> Packs(Int16, RoundDouble(value))
    [] kind = "express" -> Packs(Int8, value)
    [] kind = "appconf" -> TRUE

Serialized(kind, value) ==
  CASE kind = "mcconf"  -> RoundDouble(value)
    [] kind = "express" -> value % 256
    [] kind = "appconf" -> value

(* deserialize_config reads it as an unsigned one.                         *)
Deserialized(kind, word) ==
  CASE kind = "mcconf"  -> 2 * word
    [] kind = "express" -> word
    [] kind = "appconf" -> word
=============================================================================
