------------------------------ MODULE ChatText ------------------------------
(***************************************************************************)
(* What a message of Conversions means: the texts it has and the order a   *)
(* display shows them in, and what Chat (src/src/chat.cpp) makes of it.    *)
(***************************************************************************)
EXTENDS Conversions, FiniteSets

CONSTANT Levels         \* more than a message has; the packet that carries it has an end

-----------------------------------------------------------------------------
(* The messages, from the whole of one down to the values without parts.   *)
Inner(node) == CASE Is("members", node) -> {node.members[key] : key \in DOMAIN node.members}
                 [] Is("items", node) -> ToSet(node.items)
                 [] OTHER -> {}

Down[k \in Nat] == IF k = 0 THEN Components ELSE UNION {Inner(node) : node \in Down[k - 1]}

JSON == UNION {Down[k] : k \in 0..Levels}

Plain(node) == node \in [string : STRING] \cup [number : STRING]

List(node) == node \in [items : Seq(JSON)]

\* A color and the key of a translation are plain, and what is shown under
\* the pointer is in an object of its own.
Object(node) ==
    /\ DOMAIN node = {"members"} /\ DOMAIN node.members \subseteq ToSet(KeyOrder)
    /\ \A key \in DOMAIN node.members \cap {"color", "translate"} : Plain(node.members[key])
    /\ Has(node, "value") => DOMAIN node.members = {"value"}

ASSUME MessagesAssumption ==
    /\ Levels \in Nat /\ Down[Levels] = {}
    /\ \A node \in JSON : Plain(node) \/ List(node) \/ Object(node)

-----------------------------------------------------------------------------
\* The text of a component, if it is one.
Own(node) == IF Has(node, "text") /\ Is("string", node.members["text"])
             THEN <<node.members["text"].string>> ELSE << >>

(* The texts of a component in the order of the display: its own, those of *)
(* its arguments, what is appended, and what is shown under the pointer.   *)
Displayed[node \in JSON] ==
    LET part(key) == IF Has(node, key) THEN Displayed[node.members[key]] ELSE << >>
    IN CASE Is("members", node) -> Own(node) \o part("with") \o part("extra")
                                      \o part("hoverEvent") \o part("value")
         [] Is("items", node) -> FlattenSeq([i \in DOMAIN node.items |-> Displayed[node.items[i]]])
         [] OTHER -> << >>

\* A value and all that is in it.
Inside[node \in JSON] == {node} \cup UNION {Inside[part] : part \in Inner(node)}

\* Something belongs to a text.
Nested(node) == \E n \in Inside[node] : /\ Has(n, "extra") \/ Has(n, "hoverEvent")
                                        /\ Has(n, "text") \/ Has(n, "with")

\* A text is not a string, but a number.
Numbered(node) == \E n \in Inside[node] : Has(n, "text") /\ ~Is("string", n.members["text"])

Times(t, texts) == Cardinality({i \in DOMAIN texts : texts[i] = t})

(* What is printed of a message has every text of it as often as a display *)
(* has, with those it shows under the pointer only, and in the order of    *)
(* the display unless something belongs to a text, which then comes before *)
(* it; a plain string inside is not printed.  Of a line of a player it is  *)
(* the first text of the name, without what belongs to it, and the message *)
(* typed.  Four kinds of legal messages throw instead, and so end the      *)
(* network thread: a plain string, a list, one with a number for a text,   *)
(* and a line of a player that is not a name and a plain string            *)
(* (chat.cpp:7-28).                                                        *)
ChatsRead ==
    kind = "Chat" =>
        /\ (pc = "shown" /\ ~IsPlayerChat(value)) =>
              /\ \A t \in ToSet(data) \cup ToSet(Displayed[value]) :
                    Times(t, data) = Times(t, Displayed[value])
              /\ ~Nested(value) => data = Displayed[value]
        /\ (pc = "shown" /\ IsPlayerChat(value)) =>
              LET args == value.members["with"].items
              IN data = <<Head(Displayed[args[1]]), args[2].string>>
        /\ pc \in {"shown", "thrown"} =>
              (pc = "thrown" <=> \/ ~Is("members", value)
                                 \/ IsPlayerChat(value) /\ ~NamedMessage(value)
                                 \/ ~IsPlayerChat(value) /\ Numbered(value))
=============================================================================
