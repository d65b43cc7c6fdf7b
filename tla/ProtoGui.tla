------------------------------ MODULE ProtoGui ------------------------------
(***************************************************************************)
(* proj::ProtoGui (src/src/client/proto_gui.cpp): the widgets that show a  *)
(* field of a message and let the user change it.                          *)
(*                                                                         *)
(* A widget works on a type of its own: int, float, or a buffer of         *)
(* characters.  update_field reads the field, converts, shows the widget,  *)
(* converts back and stores, whether anything was changed or not.  Values  *)
(* are integers here: those of the integer types, the number of an         *)
(* enumerator, the length of a string, and floating point numbers by their *)
(* order, every second double being a float.  0 is the default of all.     *)
(***************************************************************************)
EXTENDS Integers

CONSTANTS IntSpan,     \* number of values of int and unsigned: 2^32
          LongSpan,    \* number of values of long and unsigned long: 2^64
          BufferSize,  \* size of the buffer of a string widget: 1024
          Doubles,     \* number of values of double
          Enumerators  \* number of values of an enum

ASSUME WidgetAssumption ==
    /\ IntSpan \in Nat \ {0} /\ IntSpan % 2 = 0
    /\ LongSpan \in Nat \ {0} /\ LongSpan % IntSpan = 0
    /\ BufferSize \in Nat \ {0} /\ Doubles \in Nat \ {0} /\ Enumerators \in Nat \ {0}

\* cpp_type of the fields that have a widget.
Primitives == {"bool", "int32", "int64", "uint32", "uint64", "float", "double",
               "string", "enum"}

Signed(span) == -(span \div 2)..(span \div 2) - 1

\* Conversions to int, unsigned and float.
ToInt(v) == LET r == v % IntSpan IN IF r < IntSpan \div 2 THEN r ELSE r - IntSpan
ToUnsigned(v) == v % IntSpan
ToFloat(v) == v - (v % 2)

Floats == {ToFloat(v) : v \in 0..Doubles - 1}

-----------------------------------------------------------------------------
(* Faulty variants of the definitions below, one plausible slip each.  They  *)
(* are part of no specification: a property earns its place by failing on    *)
(* one.                                                                      *)

\* an unsigned value that is negative as an int is clamped to the widget's range
Displayed_Clamped(kind, v) ==
    IF kind \in {"uint32", "uint64"} /\ ToInt(v) < 0 THEN 0 ELSE v

\* the widget fills the buffer of a string to the last character
Entered_NoTerminator(kind) ==
    CASE kind = "string" -> 0..BufferSize
      [] kind \in {"float", "double"} -> Floats
      [] OTHER -> {0, 1}

-----------------------------------------------------------------------------
\* What a field holds after its widget was shown and nothing was changed.
Displayed(kind, v) ==
    CASE kind = "int64" -> ToInt(v)
      [] kind = "uint32" -> ToUnsigned(ToInt(v))
      [] kind = "uint64" -> ToUnsigned(ToInt(ToUnsigned(v)))
      [] kind = "double" -> ToFloat(v)
      [] OTHER -> v

\* What a widget may hold after a change.  A number typed into it need not
\* respect its limits.
Entered(kind) ==
    CASE kind = "bool" -> {0, 1}
      [] kind \in {"float", "double"} -> Floats
      [] kind \in {"int32", "int64"} -> Signed(IntSpan)
      [] kind \in {"uint32", "uint64"} -> {ToUnsigned(v) : v \in Signed(IntSpan)}
      [] kind = "string" -> 0..BufferSize - 1
      [] kind = "enum" -> 0..Enumerators - 1

\* The values a field may hold, those of a string limited to what the buffer of
\* its widget holds with the terminating zero.
ValuesOf(kind) ==
    CASE kind = "bool" -> {0, 1}
      [] kind = "float" -> Floats
      [] kind = "double" -> 0..Doubles - 1
      [] kind = "int32" -> Signed(IntSpan)
      [] kind = "int64" -> Signed(LongSpan)
      [] kind = "uint32" -> 0..IntSpan - 1
      [] kind = "uint64" -> 0..LongSpan - 1
      [] kind = "string" -> 0..BufferSize - 1
      [] kind = "enum" -> 0..Enumerators - 1

\* activate_field sets every type of data to this.
Default == 0
=============================================================================
