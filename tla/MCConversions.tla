--------------------------- MODULE MCConversions ---------------------------
(* An instance of Conversions: an int of 9 bits in 5 groups of 2, the last *)
(* of them cut like that of 32 bits in groups of 7, and messages in three  *)
(* levels with two parts, which may share a text.                          *)
EXTENDS ChatText

Str(s) == [string |-> s]
Obj(f) == [members |-> f]
Arr(s) == [items |-> s]

Text(s) == Obj([text |-> Str(s), color |-> Str("red")])

Parted(a, b) == {Str(a), Text(a), Obj([text |-> [number |-> "5"]]), Arr(<<Text(a), Str(b)>>),
                Obj([text |-> Str(a), extra |-> Arr(<<Text(b)>>)]),
                Obj([text |-> Str(a), hoverEvent |-> Obj([value |-> Text(b)])]),
                Obj([translate |-> Str("death"), with |-> Arr(<<Text(a), Text(b)>>)])}

Parts == {Arr(<<p, q>>) : p \in Parted("a", "b"), q \in Parted("b", "c")}

Messages == {Str("a")} \cup Parts \cup {Text("e")}
            \cup {Obj([extra |-> p]) : p \in Parts}
            \cup {Obj([text |-> Str("e"), extra |-> p]) : p \in Parts}
            \cup {Obj([translate |-> Str("death"), with |-> p]) : p \in Parts}
            \cup {Obj([translate |-> Str("chat.type.text"), with |-> Arr(<<p, q>>)]) :
                      p \in Parted("a", "b"), q \in Parted("b", "c")}
=============================================================================
