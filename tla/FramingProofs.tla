---------------------------- MODULE FramingProofs ----------------------------
(***************************************************************************)
(* Proofs about Framing.                                                   *)
(***************************************************************************)
EXTENDS Framing, PacketsProofs

-----------------------------------------------------------------------------
(* The layouts are lists of kinds of fields, and ids are numbers.          *)
LEMMA KindNames ==
    {"Bool", "Byte", "UByte", "Angle", "Short", "UShort", "Int", "Float", "Long", "Double", "Position",
     "UUID", "VarInt", "String", "ByteArray", "Slot", "SlotAndNbt"} \subseteq Kind
BY DEF Kind, Width

(* These are the kinds without slots.                                      *)
LEMMA PlainNames ==
    {"Bool", "Byte", "UByte", "Angle", "Short", "UShort", "Int", "Float", "Long", "Double", "Position",
     "UUID", "VarInt", "String", "ByteArray"} \subseteq PlainKind
BY DEF PlainKind, Kind, Width

(* What ToStream of a class writes is a list of kinds.                     *)
LEMMA WrittenType == \A c \in DOMAIN Written : Written[c] \in Seq(Kind)
<1>1. \A c \in DOMAIN HelloFields : HelloFields[c] \in Seq(Kind)
  <2>1. {HelloFields.Handshake} \subseteq Seq(Kind)
    BY KindNames DEF HelloFields
  <2>2. \A c \in DOMAIN HelloFields :
           HelloFields[c] \in {HelloFields.Handshake}
    BY DEF HelloFields
  <2>3. QED BY <2>1, <2>2
<1>2. \A c \in DOMAIN StatusRequestFields : StatusRequestFields[c] \in Seq(Kind)
  <2>1. {StatusRequestFields.Request, StatusRequestFields.Ping} \subseteq Seq(Kind)
    BY KindNames DEF StatusRequestFields
  <2>2. \A c \in DOMAIN StatusRequestFields :
           StatusRequestFields[c] \in {StatusRequestFields.Request, StatusRequestFields.Ping}
    BY DEF StatusRequestFields
  <2>3. QED BY <2>1, <2>2
<1>3. \A c \in DOMAIN LoginStartFields : LoginStartFields[c] \in Seq(Kind)
  <2>1. {LoginStartFields.LoginStart} \subseteq Seq(Kind)
    BY KindNames DEF LoginStartFields
  <2>2. \A c \in DOMAIN LoginStartFields :
           LoginStartFields[c] \in {LoginStartFields.LoginStart}
    BY DEF LoginStartFields
  <2>3. QED BY <2>1, <2>2
<1>4. \A c \in DOMAIN AnswerFields : AnswerFields[c] \in Seq(Kind)
  <2>1. {AnswerFields.KeepAliveSB, AnswerFields.TeleportConfirm, AnswerFields.ClientStatus,
         AnswerFields.PlayerPositionAndRotationSB, AnswerFields.PlayerPosition,
         AnswerFields.PlayerRotation} \subseteq Seq(Kind)
    BY KindNames DEF AnswerFields
  <2>2. \A c \in DOMAIN AnswerFields :
           AnswerFields[c] \in {AnswerFields.KeepAliveSB, AnswerFields.TeleportConfirm,
              AnswerFields.ClientStatus, AnswerFields.PlayerPositionAndRotationSB,
              AnswerFields.PlayerPosition, AnswerFields.PlayerRotation}
    BY DEF AnswerFields
  <2>3. QED BY <2>1, <2>2
<1>5. \A c \in DOMAIN ActionFields : ActionFields[c] \in Seq(Kind)
  <2>1. {ActionFields.WindowConfirmationSB, ActionFields.ClickWindow,
         ActionFields.CloseWindowSB, ActionFields.ChatMessageSB, ActionFields.PlayerDigging,
         ActionFields.PlayerBlockPlacement} \subseteq Seq(Kind)
    BY KindNames DEF ActionFields
  <2>2. \A c \in DOMAIN ActionFields :
           ActionFields[c] \in {ActionFields.WindowConfirmationSB, ActionFields.ClickWindow,
              ActionFields.CloseWindowSB, ActionFields.ChatMessageSB,
              ActionFields.PlayerDigging, ActionFields.PlayerBlockPlacement}
    BY DEF ActionFields
  <2>3. QED BY <2>1, <2>2
<1>6. \A c \in DOMAIN UseItemFields : UseItemFields[c] \in Seq(Kind)
  <2>1. {UseItemFields.UseItem} \subseteq Seq(Kind)
    BY KindNames DEF UseItemFields
  <2>2. \A c \in DOMAIN UseItemFields :
           UseItemFields[c] \in {UseItemFields.UseItem}
    BY DEF UseItemFields
  <2>3. QED BY <2>1, <2>2
<1>7. QED BY <1>1, <1>2, <1>3, <1>4, <1>5, <1>6 DEF Written, ++

(* Only SetSlot has a slot among its fixed fields, and no class is without *)
(* fields.                                                                 *)
LEMMA FieldsPlain == \A c \in DOMAIN Fields \ {"SetSlot"} : Fields[c] \in Seq(PlainKind) \ {<< >>}
<1>1. \A c \in DOMAIN LoginFields : LoginFields[c] \in Seq(PlainKind) \ {<< >>}
  <2>1. {LoginFields.Response, LoginFields.Pong, LoginFields.LoginSuccess,
         LoginFields.Disconnect, LoginFields.SetCompression} \subseteq Seq(PlainKind) \ {<< >>}
    BY PlainNames DEF LoginFields
  <2>2. \A c \in DOMAIN LoginFields :
           LoginFields[c] \in {LoginFields.Response, LoginFields.Pong, LoginFields.LoginSuccess,
              LoginFields.Disconnect, LoginFields.SetCompression}
    BY DEF LoginFields
  <2>3. QED BY <2>1, <2>2
<1>2. \A c \in DOMAIN SpawnFields : SpawnFields[c] \in Seq(PlainKind) \ {<< >>}
  <2>1. {SpawnFields.SpawnEntity, SpawnFields.SpawnLivingEntity, SpawnFields.SpawnPlayer,
         SpawnFields.BlockChange} \subseteq Seq(PlainKind) \ {<< >>}
    BY PlainNames DEF SpawnFields
  <2>2. \A c \in DOMAIN SpawnFields :
           SpawnFields[c] \in {SpawnFields.SpawnEntity, SpawnFields.SpawnLivingEntity, SpawnFields.SpawnPlayer,
              SpawnFields.BlockChange}
    BY DEF SpawnFields
  <2>3. QED BY <2>1, <2>2
<1>3. \A c \in DOMAIN WorldFields : WorldFields[c] \in Seq(PlainKind) \ {<< >>}
  <2>1. {WorldFields.ServerDifficulty, WorldFields.ChatMessageCB, WorldFields.MultiBlockChange,
         WorldFields.DisconnectPlay, WorldFields.KeepAliveCB, WorldFields.ChunkData,
         WorldFields.Effect} \subseteq Seq(PlainKind) \ {<< >>}
    BY PlainNames DEF WorldFields
  <2>2. \A c \in DOMAIN WorldFields :
           WorldFields[c] \in {WorldFields.ServerDifficulty, WorldFields.ChatMessageCB,
              WorldFields.MultiBlockChange, WorldFields.DisconnectPlay, WorldFields.KeepAliveCB,
              WorldFields.ChunkData, WorldFields.Effect}
    BY DEF WorldFields
  <2>3. QED BY <2>1, <2>2
<1>4. \A c \in DOMAIN PlayerFields : PlayerFields[c] \in Seq(PlainKind) \ {<< >>}
  <2>1. {PlayerFields.JoinGame, PlayerFields.EntityPosition,
         PlayerFields.EntityPositionAndRotation, PlayerFields.EntityRotation,
         PlayerFields.PlayerPositionAndLookCB, PlayerFields.UpdateHealth} \subseteq Seq(PlainKind) \ {<< >>}
    BY PlainNames DEF PlayerFields
  <2>2. \A c \in DOMAIN PlayerFields :
           PlayerFields[c] \in {PlayerFields.JoinGame, PlayerFields.EntityPosition,
              PlayerFields.EntityPositionAndRotation, PlayerFields.EntityRotation,
              PlayerFields.PlayerPositionAndLookCB, PlayerFields.UpdateHealth}
    BY DEF PlayerFields
  <2>3. QED BY <2>1, <2>2
<1>5. \A c \in DOMAIN WindowFields \ {"SetSlot"} : WindowFields[c] \in Seq(PlainKind) \ {<< >>}
  <2>1. {WindowFields.SpawnPosition, WindowFields.UnloadChunk,
         WindowFields.WindowConfirmationCB, WindowFields.CloseWindowCB,
         WindowFields.WindowItems, WindowFields.WindowProperty,
         WindowFields.SetCooldown} \subseteq Seq(PlainKind) \ {<< >>}
    BY PlainNames DEF WindowFields
  <2>2. \A c \in DOMAIN WindowFields \ {"SetSlot"} :
           WindowFields[c] \in {WindowFields.SpawnPosition, WindowFields.UnloadChunk,
              WindowFields.WindowConfirmationCB, WindowFields.CloseWindowCB,
              WindowFields.WindowItems, WindowFields.WindowProperty,
              WindowFields.SetCooldown}
    BY DEF WindowFields
  <2>3. QED BY <2>1, <2>2
<1>6. \A c \in DOMAIN EntityFields : EntityFields[c] \in Seq(PlainKind) \ {<< >>}
  <2>1. {EntityFields.DestroyEntities, EntityFields.EntityVelocity, EntityFields.TimeUpdate,
         EntityFields.SoundEffect, EntityFields.EntityTeleport} \subseteq Seq(PlainKind) \ {<< >>}
    BY PlainNames DEF EntityFields
  <2>2. \A c \in DOMAIN EntityFields :
           EntityFields[c] \in {EntityFields.DestroyEntities, EntityFields.EntityVelocity,
              EntityFields.TimeUpdate, EntityFields.SoundEffect, EntityFields.EntityTeleport}
    BY DEF EntityFields
  <2>3. QED BY <2>1, <2>2
<1>7. QED BY <1>1, <1>2, <1>3, <1>4, <1>5, <1>6 DEF Fields, ++

(* Slots are in two of the layouts only.                                   *)
LEMMA SlotLayouts ==
    /\ Fields["SetSlot"] = <<"Byte", "Short", "Slot">> /\ "SetSlot" \in DOMAIN Fields
    /\ Fields["WindowItems"] = <<"UByte", "Short">> /\ "WindowItems" \in DOMAIN Fields
BY DEF Fields, ++, LoginFields, SpawnFields, WorldFields, PlayerFields, WindowFields

(* What FromStream of a class reads is a list of kinds.                    *)
LEMMA FieldsType == \A c \in DOMAIN Fields : Fields[c] \in Seq(Kind)
<1>1. Seq(PlainKind) \subseteq Seq(Kind) BY DEF PlainKind
<1>2. Fields["SetSlot"] \in Seq(Kind) BY KindNames, SlotLayouts
<1>3. QED BY <1>1, <1>2, FieldsPlain

(* So is an element of a list.                                             *)
LEMMA ElementType == \A c \in DOMAIN Element : Element[c] \in Seq(Kind) /\ c \in DOMAIN Fields
<1>1. {Element.MultiBlockChange, Element.WindowItems, Element.DestroyEntities} \subseteq Seq(Kind)
  BY KindNames DEF Element
<1>2. \A c \in DOMAIN Element :
         Element[c] \in {Element.MultiBlockChange, Element.WindowItems, Element.DestroyEntities}
  BY DEF Element
<1>3. \A c \in DOMAIN Element : c \in DOMAIN Fields
  BY DEF Element, Fields, ++, WorldFields, WindowFields, EntityFields
<1>4. QED BY <1>1, <1>2, <1>3

(* Every class that is sent or received has an id.                         *)
LEMMA IdType ==
    /\ \A c \in DOMAIN Id : Id[c] \in Nat
    /\ DOMAIN Written \subseteq DOMAIN Id
    /\ \A s \in {"Status", "Login", "Play"} : Parsed(s) \subseteq DOMAIN Id
    /\ "EntityAnimationCB" \in DOMAIN Id
<1>1. \A c \in DOMAIN Id : Id[c] \in Nat BY DEF Id
<1>2. DOMAIN Written \subseteq DOMAIN Id
  BY DEF Id, Written, ++, HelloFields, StatusRequestFields, LoginStartFields, AnswerFields, ActionFields,
         UseItemFields
<1>3. \A s \in {"Status", "Login", "Play"} : Parsed(s) \subseteq DOMAIN Id
  BY DEF Id, Parsed, ParsePacketPlay
<1>4. "EntityAnimationCB" \in DOMAIN Id BY DEF Id
<1>5. QED BY <1>1, <1>2, <1>3, <1>4

\* The packets that are answered, and the answers.
LEMMA AnswerLayouts ==
    /\ Fields["KeepAliveCB"] = <<"Long">> /\ Written["KeepAliveSB"] = <<"Long">>
    /\ Answered \subseteq DOMAIN Fields /\ Answered \cap DOMAIN Element = {}
    /\ Answered \cap (WithChat \cup {"Ping", "Pong"}) = {}
    /\ \A c \in Answered : Id[c] # 0
    /\ Answers \subseteq DOMAIN Written
    /\ \A s \in {"Status", "Login", "Play"} : Parsed(s) \cap Answered # {} => s = "Play"
<1>1. Fields["KeepAliveCB"] = <<"Long">> /\ "KeepAliveCB" \in DOMAIN Fields
  BY DEF Fields, ++, LoginFields, SpawnFields, WorldFields
<1>2. Answered \cap (WithChat \cup {"Ping", "Pong"}) = {} BY DEF Answered, WithChat
<1>3. Written["KeepAliveSB"] = <<"Long">> /\ Answers \subseteq DOMAIN Written
  BY DEF Written, ++, HelloFields, StatusRequestFields, LoginStartFields, AnswerFields, Answers
<1>4. Answered \cap DOMAIN Element = {} /\ \A c \in Answered : Id[c] # 0 BY DEF Answered, Element, Id
<1>5. \A s \in {"Status", "Login", "Play"} : Parsed(s) \cap Answered # {} => s = "Play"
  BY DEF Answered, Parsed, ParsePacketPlay
<1>6. QED BY <1>1, <1>2, <1>3, <1>4, <1>5 DEF Answered

(* A list of elements is one of their fields.                              *)
LEMMA RepeatType == ASSUME NEW n \in Nat, NEW kinds \in Seq(Kind) PROVE Repeat(n, kinds) \in Seq(Kind)
<1>1. [i \in 1..n |-> kinds] \in Seq(Seq(Kind)) OBVIOUS
<1>2. QED BY <1>1, FlattenType DEF Repeat

-----------------------------------------------------------------------------
(* The values of the server and of the client fit their layouts.           *)
LEMMA PatternType ==
    ASSUME NEW i \in Nat, NEW n \in Nat
    PROVE  /\ Pattern(i, n) \in Wide(n)
           /\ n >= 2 => SubSeq(Pattern(i, n), 1, 2) # NoItem
<1> DEFINE m == 2 * Radix
<1>1. m \in Nat \ {0} /\ m >= 4 BY RadixAssumption
<1>2. \A j \in Nat : (i + j) % m \in 0..(m - 1) /\ i + j \in Int
  <2> HIDE DEF m
  <2>1. QED BY <1>1, DivMod
<1>3. 0..(m - 1) = Bytes BY DEF Bytes
<1>4. Pattern(i, n) = [j \in 1..n |-> (i + j) % m] BY DEF Pattern
<1> HIDE DEF m
<1>5. Pattern(i, n) \in Wide(n)
  <2> DEFINE f(j) == (i + j) % m
  <2>1. Pattern(i, n) = [j \in 1..n |-> f(j)] /\ \A j \in Nat : f(j) \in Bytes BY <1>2, <1>3, <1>4
  <2> HIDE DEF f
  <2>2. Pattern(i, n) \in Seq(Bytes) /\ Len(Pattern(i, n)) = n BY <2>1
  <2>3. QED BY <2>2 DEF Wide
<1>6. ASSUME n >= 2, SubSeq(Pattern(i, n), 1, 2) = NoItem PROVE FALSE
  <2>1. Pattern(i, n) \in Seq(Bytes) /\ Len(Pattern(i, n)) = n BY <1>5 DEF Wide
  <2>2. /\ SubSeq(Pattern(i, n), 1, 2)[1] = Pattern(i, n)[1]
        /\ SubSeq(Pattern(i, n), 1, 2)[2] = Pattern(i, n)[2]
    BY <1>6, <2>1
  <2>3. NoItem[1] = m - 1 /\ NoItem[2] = m - 1 BY DEF NoItem, m
  <2>4. (i + 1) % m = m - 1 /\ (i + 2) % m = m - 1 BY <1>4, <1>6, <2>2, <2>3
  <2>5. i + 1 = m * ((i + 1) \div m) + ((i + 1) % m) /\ (i + 1) \div m \in Int BY <1>1, DivMod
  <2>6. PICK q \in Int : i + 1 = m * q + (m - 1) BY <2>4, <2>5
  <2>7. i + 2 = m * (q + 1) + 0
    <3>1. m * (q + 1) = m * q + m BY <1>1
    <3>2. QED BY <1>1, <2>6, <3>1
  <2>8. (i + 2) % m = 0
    <3>1. i + 2 \in Int /\ q + 1 \in Int /\ 0 \in 0..(m - 1) BY <1>1
    <3>2. QED BY <1>1, <2>7, <3>1, DivUnique
  <2>9. QED BY <1>1, <2>4, <2>8
<1>7. QED BY <1>5, <1>6

(* A sample of a kind is a value of it.                                    *)
LEMMA SampleType ==
    ASSUME NEW kind \in Kind, NEW i \in Nat, NEW n \in Nat
    PROVE  Sample(kind, i, n) \in ValuesOf(kind)
<1>1. CASE kind = "VarInt"
  <2>1. Sample(kind, i, n) = n BY <1>1 DEF Sample
  <2>2. QED BY <1>1, <2>1, ValuesOfType
<1>2. CASE kind \in {"String", "ByteArray"}
  <2> DEFINE b == [j \in 1..n |-> 1 + ((i + j) % (Radix - 1))]
  <2>1. Sample(kind, i, n) = b BY <1>2 DEF Sample
  <2>2. Radix - 1 \in Nat \ {0} BY RadixAssumption
  <2>3. PICK m \in Nat \ {0} : m = Radix - 1 BY <2>2
  <2>4. \A j \in Nat : 1 + ((i + j) % m) \in Bytes \ {0}
    <3>1. \A j \in Nat : i + j \in Int OBVIOUS
    <3>2. \A j \in Nat : (i + j) % m \in 0..(m - 1) BY <3>1, DivMod
    <3>3. \A x \in 0..(m - 1) : 1 + x \in Bytes \ {0} BY <2>3, RadixAssumption DEF Bytes
    <3>4. QED BY <3>2, <3>3
  <2>5. b \in Seq(Bytes) /\ \A j \in DOMAIN b : b[j] # 0
    <3>1. b = [j \in 1..n |-> 1 + ((i + j) % m)] BY <2>3
    <3> DEFINE f(j) == 1 + ((i + j) % m)
    <3>2. b = [j \in 1..n |-> f(j)] /\ \A j \in Nat : f(j) \in Bytes \ {0} BY <2>4, <3>1
    <3> HIDE DEF b, f
    <3>3. QED BY <3>2
  <2> HIDE DEF b
  <2>6. CASE kind = "String"
    <3>1. ValuesOf(kind) = {c \in Seq(Bytes) : \A j \in DOMAIN c : c[j] # 0} BY <2>6 DEF ValuesOf
    <3>2. QED BY <2>1, <2>5, <3>1
  <2>7. CASE kind = "ByteArray"
    <3>1. ValuesOf(kind) = FieldOf(kind) BY <2>7 DEF ValuesOf
    <3>2. FieldOf(kind) = Seq(Bytes) BY <2>7, ReadCases DEF FieldOf
    <3>3. QED BY <2>1, <2>5, <3>1, <3>2
  <2>8. QED BY <1>2, <2>6, <2>7
<1>3. CASE kind = "Bool"
  <2>1. Sample(kind, i, n) = <<i % 2>> BY <1>3 DEF Sample
  <2>2. i % 2 \in Bytes BY RadixAssumption DEF Bytes
  <2>3. <<i % 2>> \in Wide(1) BY <2>2 DEF Wide
  <2>4. kind \in DOMAIN Width /\ Width[kind] = 1 BY <1>3 DEF Width
  <2>5. QED BY <2>1, <2>3, <2>4, ValuesOfType
<1>4. CASE kind \in {"Slot", "SlotAndNbt"}
  <2>1. Sample(kind, i, n) = NoItem \/ Sample(kind, i, n) = Pattern(i, 5) BY <1>4 DEF Sample
  <2>2. Pattern(i, 5) \in Items BY PatternType DEF Items
  <2>3. ValuesOf(kind) = {NoItem} \cup Items BY <1>4 DEF ValuesOf
  <2>4. QED BY <2>1, <2>2, <2>3
<1>5. CASE kind = "Long"
  <2>1. PICK a \in {<<0, 0, 0, 0>>, Pattern(i, 4)} : Sample(kind, i, n) = a \o Pattern(i + n, 4)
    BY <1>5 DEF Sample
  <2>2. 0 \in Bytes BY RadixAssumption DEF Bytes
  <2>3. a \in Wide(4)
    <3>1. <<0, 0, 0, 0>> \in Wide(4) BY <2>2 DEF Wide
    <3>2. Pattern(i, 4) \in Wide(4) BY PatternType
    <3>3. QED BY <3>1, <3>2
  <2>4. Pattern(i + n, 4) \in Wide(4)
    <3>1. i + n \in Nat OBVIOUS
    <3>2. QED BY <3>1, PatternType
  <2>5. \A b, c \in Wide(4) : b \o c \in Wide(8)
    <3>1. \A b, c \in Seq(Bytes) : b \o c \in Seq(Bytes) /\ Len(b \o c) = Len(b) + Len(c) OBVIOUS
    <3>2. ASSUME NEW b \in Wide(4), NEW c \in Wide(4) PROVE b \o c \in Wide(8)
      <4>1. b \in Seq(Bytes) /\ c \in Seq(Bytes) /\ Len(b) = 4 /\ Len(c) = 4 BY DEF Wide
      <4>2. b \o c \in Seq(Bytes) /\ Len(b \o c) = 4 + 4 BY <3>1, <4>1
      <4>3. QED BY <4>2 DEF Wide
    <3>3. QED BY <3>2
  <2>6. kind \in DOMAIN Width /\ Width[kind] = 8 BY <1>5 DEF Width
  <2>7. QED BY <2>1, <2>3, <2>4, <2>5, <2>6, ValuesOfType
<1>6. CASE kind \in DOMAIN Width \ {"Bool", "Long"}
  <2>1. kind \notin {"VarInt", "String", "ByteArray", "Slot", "SlotAndNbt", "Bool", "Long"}
    BY <1>6, ReadCases
  <2>2. Sample(kind, i, n) = Pattern(i, Width[kind]) BY <2>1 DEF Sample
  <2>3. Pattern(i, Width[kind]) \in Wide(Width[kind]) BY <1>6, WidthType, PatternType
  <2>4. QED BY <1>6, <2>2, <2>3, ValuesOfType
<1>7. QED BY <1>1, <1>2, <1>3, <1>4, <1>5, <1>6 DEF Kind

(* Samples fit the kinds they are of.                                      *)
LEMMA SamplesFit ==
    ASSUME NEW kinds \in Seq(Kind), NEW n \in Nat
    PROVE  Fitting(kinds, Samples(kinds, n))
<1>1. DOMAIN kinds = 1..Len(kinds) /\ Len(kinds) \in Nat /\ \A i \in 1..Len(kinds) : kinds[i] \in Kind
  OBVIOUS
<1>2. \A i \in 1..Len(kinds) : Sample(kinds[i], i, n) \in ValuesOf(kinds[i])
  BY <1>1, SampleType
<1>3. \A i \in 1..Len(kinds) : Sample(kinds[i], i, n) \in FieldValues BY <1>1, <1>2, ValuesOfType
<1>4. Samples(kinds, n) = [i \in 1..Len(kinds) |-> Sample(kinds[i], i, n)] BY <1>1 DEF Samples
<1>5. QED BY <1>1, <1>2, <1>3, <1>4 DEF Fitting

(* Values that fit, one behind the other, fit.                             *)
LEMMA FittingConcat ==
    ASSUME NEW k \in Seq(Kind), NEW l \in Seq(Kind), NEW v, NEW w, Fitting(k, v), Fitting(l, w)
    PROVE  Fitting(k \o l, v \o w)
<1>1. v \in Seq(FieldValues) /\ w \in Seq(FieldValues) /\ Len(v) = Len(k) /\ Len(w) = Len(l) BY DEF Fitting
<1>2. v \o w \in Seq(FieldValues) /\ Len(v \o w) = Len(k \o l) BY <1>1
<1>3. ASSUME NEW i \in 1..Len(k \o l) PROVE (v \o w)[i] \in ValuesOf((k \o l)[i])
  <2>1. CASE i <= Len(k)
    <3>1. i \in 1..Len(k) /\ (v \o w)[i] = v[i] /\ (k \o l)[i] = k[i] BY <1>1, <2>1
    <3>2. QED BY <3>1 DEF Fitting
  <2>2. CASE ~(i <= Len(k))
    <3>1. /\ i - Len(k) \in 1..Len(l) /\ (v \o w)[i] = w[i - Len(k)]
          /\ (k \o l)[i] = l[i - Len(k)]
      BY <1>1, <2>2
    <3>2. QED BY <3>1 DEF Fitting
  <2>3. QED BY <2>1, <2>2
<1>4. QED BY <1>2, <1>3 DEF Fitting

(* The two bytes of the number of slots: it is not negative.               *)
LEMMA TwoBytes ==
    ASSUME NEW n \in Ns
    PROVE  LET m == 2 * Radix
           IN /\ n \in Nat /\ n = m * (n \div m) + (n % m) /\ m \in Nat
              /\ n % m \in Bytes /\ n \div m \in Bytes /\ n \div m < Radix
<1> DEFINE m == 2 * Radix
<1>1. n \in Nat /\ n < 2 * Radix * Radix /\ n \in Int
  <2>1. PICK l \in Int : l = 2 * Radix * Radix BY RadixAssumption
  <2>2. n \in 0..(l - 1) BY <2>1, FramingAssumption
  <2>3. QED BY <2>1, <2>2
<1>2. m \in Nat \ {0} /\ m * Radix = 2 * Radix * Radix /\ Bytes = 0..(m - 1) /\ Radix < m /\ Radix \in Nat
  BY RadixAssumption DEF Bytes
<1> HIDE DEF m
<1>3. n = m * (n \div m) + (n % m) /\ n % m \in 0..(m - 1) /\ n \div m \in Int BY <1>1, <1>2, DivMod
<1>4. PICK q \in Int, r \in 0..(m - 1) : n = m * q + r /\ q = n \div m BY <1>3
<1>5. q >= 0
  <2> SUFFICES ASSUME q <= -1 PROVE FALSE BY <1>4
  <2>1. PICK d \in Nat : q = -1 - d
    <3>1. -1 - q \in Nat /\ q = -1 - (-1 - q) BY <1>4
    <3>2. QED BY <3>1
  <2>2. m * d >= 0 /\ m * q = -m - m * d BY <1>2, <2>1
  <2>3. QED BY <1>1, <1>2, <1>4, <2>2
<1>6. q <= Radix - 1
  <2> SUFFICES ASSUME q >= Radix PROVE FALSE BY <1>2, <1>4
  <2>1. PICK d \in Nat : q = Radix + d
    <3>1. q - Radix \in Nat /\ q = Radix + (q - Radix) BY <1>2, <1>4
    <3>2. QED BY <3>1
  <2>2. m * d >= 0 /\ m * q = m * Radix + m * d BY <1>2, <2>1
  <2>3. QED BY <1>1, <1>2, <1>4, <2>2
<1>7. QED BY <1>1, <1>2, <1>3, <1>4, <1>5, <1>6 DEF m

(* The values of a class fit the kinds they are written as.                *)
LEMMA ValuesFit ==
    ASSUME NEW class \in DOMAIN Fields, NEW n \in Ns
    PROVE  Kinds(class, n) \in Seq(Kind) /\ Fitting(Kinds(class, n), Values(class, n))
<1>1. n \in Nat /\ n < 2 * Radix * Radix /\ n \in Int
  <2>1. PICK m \in Int : m = 2 * Radix * Radix BY RadixAssumption
  <2>2. n \in 0..(m - 1) BY <2>1, FramingAssumption
  <2>3. QED BY <2>1, <2>2
<1>2. CASE class \notin DOMAIN Element
  <2>1. Kinds(class, n) = Fields[class] /\ Values(class, n) = Samples(Fields[class], n)
    BY <1>2 DEF Kinds, Values, Element
  <2>2. QED BY <1>1, <2>1, FieldsType, SamplesFit
<1>3. CASE class \in DOMAIN Element
  <2> DEFINE first == Fields[class]
             rest == Repeat(n, Element[class])
  <2>1. Kinds(class, n) = first \o rest BY <1>3 DEF Kinds
  <2>2. first \in Seq(Kind) /\ rest \in Seq(Kind) /\ first \o rest \in Seq(Kind)
    <3>1. first \in Seq(Kind) BY FieldsType
    <3>2. rest \in Seq(Kind) BY <1>1, <1>3, ElementType, RepeatType
    <3> HIDE DEF first, rest
    <3>3. QED BY <3>1, <3>2
  <2>3. CASE class # "WindowItems"
    <3>1. Values(class, n) = Samples(first \o rest, n) BY <1>3, <2>3 DEF Values
    <3> HIDE DEF first, rest
    <3>2. QED BY <1>1, <2>1, <2>2, <3>1, SamplesFit
  <2>4. CASE class = "WindowItems"
    <3> DEFINE m == 2 * Radix
               v == <<Pattern(1, 1), <<n \div m, n % m>>>>
    <3>1. Values(class, n) = v \o Samples(rest, n) BY <1>3, <2>4 DEF Values
    <3>2. first = <<"UByte", "Short">>
      BY <2>4 DEF Fields, ++, LoginFields, SpawnFields, WorldFields, PlayerFields, WindowFields
    <3>3. n % m \in Bytes /\ n \div m \in Bytes BY TwoBytes
    <3>4. Fitting(first, v)
      <4>1. PICK a : a = <<n \div m, n % m>> OBVIOUS
      <4>2. a \in Wide(2)
        <5> HIDE DEF m
        <5>1. a \in Seq(Bytes) /\ Len(a) = 2 BY <3>3, <4>1
        <5>2. QED BY <5>1 DEF Wide
      <4>3. PICK b : b = Pattern(1, 1) OBVIOUS
      <4>4. b \in Wide(1) BY <4>3, PatternType
      <4>5. v = <<b, a>> BY <4>1, <4>3
      <4>6. ValuesOf("UByte") = Wide(1) /\ ValuesOf("Short") = Wide(2)
        <5>1. /\ {"UByte", "Short"} \subseteq DOMAIN Width /\ {"UByte", "Short"} \subseteq Kind
              /\ Width["UByte"] = 1 /\ Width["Short"] = 2
          BY KindNames DEF Width
        <5>2. QED BY <5>1, ValuesOfType
      <4>7. Wide(1) \subseteq FieldValues /\ Wide(2) \subseteq FieldValues BY DEF Wide, FieldValues
      <4> HIDE DEF v, first
      <4>8. QED BY <3>2, <4>2, <4>4, <4>5, <4>6, <4>7 DEF Fitting
    <3>5. Fitting(rest, Samples(rest, n))
      <4> HIDE DEF rest
      <4>1. QED BY <1>1, <2>2, SamplesFit
    <3>6. QED
      <4> HIDE DEF first, rest, v
      <4>1. QED BY <2>1, <2>2, <3>1, <3>4, <3>5, FittingConcat
  <2>5. QED BY <2>3, <2>4
<1>4. QED BY <1>2, <1>3

(* The same values fit the kinds the server writes them as.                *)
LEMMA ServerValuesFit ==
    ASSUME NEW class \in DOMAIN Fields, NEW n \in Ns
    PROVE  ServerKinds(class, n) \in Seq(Kind) /\ Fitting(ServerKinds(class, n), Values(class, n))
<1> DEFINE k == Kinds(class, n)
           s == ServerKinds(class, n)
<1>1. k \in Seq(Kind) /\ Fitting(k, Values(class, n)) BY ValuesFit
<1>2. s = [i \in DOMAIN k |-> IF k[i] = "Slot" THEN "SlotAndNbt" ELSE k[i]] BY DEF ServerKinds
<1>3. "SlotAndNbt" \in Kind /\ ValuesOf("SlotAndNbt") = ValuesOf("Slot") BY KindNames DEF ValuesOf
<1> HIDE DEF k, s
<1>4. Len(k) \in Nat /\ DOMAIN k = 1..Len(k) /\ \A i \in 1..Len(k) : k[i] \in Kind BY <1>1
<1>5. s \in Seq(Kind) /\ Len(s) = Len(k) BY <1>2, <1>3, <1>4
<1>6. \A i \in 1..Len(k) : ValuesOf(s[i]) = ValuesOf(k[i]) BY <1>2, <1>3, <1>4
<1>7. QED BY <1>1, <1>5, <1>6 DEF Fitting, s

\* What the server writes behind the id.
DataOf(class, n) == WriteFields(ServerKinds(class, n), Values(class, n))

(* What the server writes behind the id is bytes.                          *)
LEMMA DataType == ASSUME NEW class, NEW n \in Ns PROVE DataOf(class, n) \in Seq(Bytes)
<1>1. CASE class \in DOMAIN Fields BY <1>1, ServerValuesFit, WriteFieldsType DEF DataOf
<1>2. CASE class \notin DOMAIN Fields
  <2> DEFINE p == Pattern(1, n)
  <2>1. ServerKinds(class, n) = <<"Raw">>
    <3>1. Kinds(class, n) = <<"Raw">> BY <1>2, ElementType DEF Kinds
    <3>2. QED BY <3>1 DEF ServerKinds
  <2>2. Values(class, n) = <<p>>
    <3>1. "WindowItems" \in DOMAIN Element BY DEF Element
    <3>2. QED BY <1>2, <3>1, ElementType DEF Values
  <2>3. p \in Seq(Bytes) BY FramingAssumption, PatternType DEF Wide
  <2>4. Write("Raw", p) = p BY DEF Write, Width
  <2> HIDE DEF p
  <2>5. DataOf(class, n) = FlattenSeq(<<p>>) BY <2>1, <2>2, <2>4 DEF DataOf, WriteFields
  <2>6. QED BY <2>3, <2>5, FlattenOne
<1>3. QED BY <1>1, <1>2

(* What the server sends of a packet is bytes.                             *)
LEMMA BodyType ==
    ASSUME NEW class \in DOMAIN Id, NEW n \in Ns, NEW content \in Contents
    PROVE  Body(class, n, content) \in Seq(Bytes) /\ (content # "cut" => Body(class, n, content) # << >>)
<1> DEFINE fields == DataOf(class, n)
           id == VarInt[Id[class]]
           bytes == id \o fields
<1>1. fields \in Seq(Bytes) BY DataType
<1>2. id \in Seq(Bytes) /\ id # << >> BY IdType, VarIntComplete DEF Complete
<1> HIDE DEF fields, id
<1>3. bytes \in Seq(Bytes) /\ bytes # << >> BY <1>1, <1>2
<1>4. 1 \in Bytes /\ Radix \in Bytes BY RadixAssumption DEF Bytes
<1>5. Front(bytes) \in Seq(Bytes) /\ bytes \o <<1, Radix>> \in Seq(Bytes) /\ bytes \o <<1, Radix>> # << >>
  <2>1. \A b \in Seq(Bytes) : b # << >> => SubSeq(b, 1, Len(b) - 1) \in Seq(Bytes) OBVIOUS
  <2>2. <<1, Radix>> \in Seq(Bytes) BY <1>4
  <2>3. PICK b \in Seq(Bytes) : b = bytes BY <1>3
  <2>4. Front(b) \in Seq(Bytes) BY <1>3, <2>1, <2>3 DEF Front
  <2>5. b \o <<1, Radix>> \in Seq(Bytes) /\ b \o <<1, Radix>> # << >> BY <1>3, <2>2, <2>3
  <2>6. QED BY <2>3, <2>4, <2>5
<1>6. content \in {"whole", "cut", "extra"} BY FramingAssumption
<1>7. Body(class, n, content) = CASE content = "whole" -> bytes
                                  [] content = "cut" -> Front(bytes)
                                  [] content = "extra" -> bytes \o <<1, Radix>>
  BY DEF Body, DataOf, id, fields
<1> HIDE DEF bytes
<1>8. QED BY <1>3, <1>5, <1>6, <1>7

\* In the compressed format a packet begins with a number, and if that is not
\* zero data follows it.
WellFormed(b) ==
    /\ b \in Seq(Bytes)
    /\ threshold >= 0 => \E m \in Nat, d \in Seq(Bytes) : b = VarInt[m] \o d /\ (m # 0 => d # << >>)

(* What is counted is bytes, at least one of them the length.              *)
LEMMA CountedType == ASSUME NEW b \in Seq(Bytes)
                     PROVE  Counted(b) \in Seq(Bytes) /\ Counted(b) # << >> /\ Len(b) \in Nat
<1>1. Len(b) \in Nat OBVIOUS
<1>2. VarInt[Len(b)] \in Seq(Bytes) /\ VarInt[Len(b)] # << >> BY <1>1, VarIntComplete DEF Complete
<1>3. QED BY <1>1, <1>2 DEF Counted

(* A frame is something well-formed behind its length.                     *)
LEMMA FrameIsCounted ==
    ASSUME NEW b \in Seq(Bytes), NEW packing, packing = "tooShort" => b # << >>, threshold \in Int
    PROVE  \E c : WellFormed(c) /\ Frame(b, packing) = Counted(c)
<1>1. CASE threshold < 0
  <2>1. Frame(b, packing) = Counted(b) BY <1>1 DEF Frame
  <2>2. QED BY <1>1, <2>1 DEF WellFormed
<1>2. CASE threshold >= 0 /\ packing = "plain"
  <2> DEFINE c == <<0>> \o b
  <2>1. Frame(b, packing) = Counted(c) BY <1>2 DEF Frame
  <2>2. VarInt[0] = <<0>>
    <3>1. 0 \in Nat /\ 0 < Radix BY RadixAssumption
    <3>2. QED BY <3>1, VarIntDef
  <2>3. 0 \in Bytes BY RadixAssumption DEF Bytes
  <2>4. c \in Seq(Bytes) BY <2>3
  <2>5. WellFormed(c) BY <2>2, <2>4 DEF WellFormed
  <2>6. QED BY <2>1, <2>5
<1>3. CASE threshold >= 0 /\ packing # "plain"
  <2> DEFINE announced == CASE packing = "tooShort" -> Len(b) - 1
                            [] packing = "tooLong" -> Len(b) + 2
                            [] OTHER -> Len(b)
             d == Deflate(b, packing # "damaged")
             c == VarInt[announced] \o d
  <2>1. Frame(b, packing) = Counted(c) BY <1>3 DEF Frame
  <2>2. announced \in Nat
    <3>1. Len(b) \in Nat /\ (packing = "tooShort" => Len(b) > 0) OBVIOUS
    <3>2. QED BY <3>1
  <2>3. 0 \in Bytes /\ 1 \in Bytes BY RadixAssumption DEF Bytes
  <2>4. d \in Seq(Bytes) /\ d # << >>
    <3>1. \A x \in Bytes : <<x>> \o b \in Seq(Bytes) /\ <<x>> \o b # << >> OBVIOUS
    <3>2. d = <<IF packing # "damaged" THEN 1 ELSE 0>> \o b BY DEF Deflate
    <3> HIDE DEF d
    <3>3. QED BY <2>3, <3>1, <3>2
  <2> HIDE DEF announced, d
  <2>5. VarInt[announced] \in Seq(Bytes) BY <2>2, VarIntDef
  <2>6. c \in Seq(Bytes) BY <2>4, <2>5
  <2>7. WellFormed(c) BY <2>2, <2>4, <2>6 DEF WellFormed
  <2>8. QED BY <2>1, <2>7
<1>4. QED BY <1>1, <1>2, <1>3

-----------------------------------------------------------------------------
(* Receiving: what a packet becomes.                                       *)
(* A number and what is behind it.                                         *)
LEMMA ReadNumber ==
    ASSUME NEW n \in Nat, NEW d \in Seq(Bytes)
    PROVE  /\ VarInt[n] \o d \in Seq(Bytes)
           /\ ReadVarInt(Reader(VarInt[n] \o d)) = [ok |-> TRUE, left |-> d, got |-> <<n>>]
<1>1. VarInt[n] \in Seq(Bytes) BY VarIntDef
<1>2. VarInt[n] \o d \in Seq(Bytes) BY <1>1
<1>3. PICK b \in Seq(Bytes) : b = VarInt[n] \o d BY <1>2
<1>4. ReadVarInt(Reader(b)) = Took(Reader(b), d, n) BY <1>3, ReaderType, ReadWrittenVarInt
<1>5. Append(<< >>, n) = <<n>> OBVIOUS
<1>6. Took(Reader(b), d, n) = [ok |-> TRUE, left |-> d, got |-> <<n>>] BY <1>5 DEF Took, Reader
<1>7. QED BY <1>2, <1>3, <1>4, <1>6

(* Reading a number takes a complete one off.                              *)
LEMMA NumberRead ==
    ASSUME NEW b \in Seq(Bytes), ReadVarInt(Reader(b)).ok
    PROVE  \E c, d \in Seq(Bytes) :
              /\ Complete(c) /\ b = c \o d /\ Value[c] \in Nat
              /\ ReadVarInt(Reader(b)) = [ok |-> TRUE, left |-> d, got |-> <<Value[c]>>]
<1>1. Reader(b) \in Readers /\ Reader(b).left = b BY ReaderType
<1>2. ReadVarInt(Reader(b)) # OutOfData(Reader(b)) BY <1>1, OutOfDataType
<1>3. PICK c \in Seq(Bytes), d \in Seq(Bytes) :
         Complete(c) /\ b = c \o d /\ ReadVarInt(Reader(b)) = Took(Reader(b), d, Value[c])
  BY <1>1, <1>2, ReadVarIntCases
<1>4. Value[c] \in Nat BY ValueDef, BytesAreNat
<1>5. PICK v \in Nat : v = Value[c] BY <1>4
<1>6. Append(<< >>, v) = <<v>> OBVIOUS
<1>7. Took(Reader(b), d, v) = [ok |-> TRUE, left |-> d, got |-> <<v>>] BY <1>6 DEF Took, Reader
<1>8. QED BY <1>3, <1>5, <1>7

(* No number is read of nothing.                                           *)
LEMMA NothingRead == ~ReadVarInt(Reader(<< >>)).ok
<1>1. << >> \in Seq(Bytes) OBVIOUS
<1>2. SUFFICES ASSUME ReadVarInt(Reader(<< >>)).ok PROVE FALSE OBVIOUS
<1>3. PICK c \in Seq(Bytes), d \in Seq(Bytes) : Complete(c) /\ << >> = c \o d BY <1>1, <1>2, NumberRead
<1>4. c # << >> BY <1>3 DEF Complete
<1>5. QED BY <1>3, <1>4

(* When a part of what begins with a number is enough to read one, it is   *)
(* that number, and the rest of the part is the rest.                      *)
NumberIn(b, n, t, x) ==
    \E d \in Seq(Bytes) : ReadVarInt(Reader(b)) = [ok |-> TRUE, left |-> d, got |-> <<n>>] /\ d \o t = x

(* Then no more is read than the number.                                   *)
LEMMA PartOfNumber ==
    ASSUME NEW b \in Seq(Bytes), NEW t \in Seq(Bytes), NEW n \in Nat, NEW x \in Seq(Bytes),
           ReadVarInt(Reader(b)).ok, b \o t = VarInt[n] \o x
    PROVE  NumberIn(b, n, t, x)
<1>1. PICK c \in Seq(Bytes), d \in Seq(Bytes) :
         /\ Complete(c) /\ b = c \o d
         /\ ReadVarInt(Reader(b)) = [ok |-> TRUE, left |-> d, got |-> <<Value[c]>>]
  BY NumberRead
<1>2. d \o t \in Seq(Bytes) /\ b \o t \in Seq(Bytes) /\ b \o t = c \o (d \o t)
  <2>1. \A u, v, w \in Seq(Bytes) : u \o v \in Seq(Bytes) /\ (u \o v) \o w = u \o (v \o w) OBVIOUS
  <2>2. d \o t \in Seq(Bytes) /\ (c \o d) \o t = c \o (d \o t) BY <2>1, SMTT(30)
  <2>3. c \o (d \o t) \in Seq(Bytes) BY <2>1, <2>2
  <2>4. QED BY <1>1, <2>2, <2>3
<1>3. PICK r : r = Reader(b \o t) OBVIOUS
<1>4. r \in Readers /\ r.left = c \o (d \o t) BY <1>2, <1>3, ReaderType
<1>5. ReadVarInt(r) = Took(r, d \o t, Value[c]) BY <1>1, <1>2, <1>4, ReadComplete
<1>6. ReadVarInt(r) = [ok |-> TRUE, left |-> x, got |-> <<n>>] BY <1>3, ReadNumber
<1>7. d \o t = x /\ Append(r.got, Value[c]) = <<n>>
  <2>1. PICK v, y : v = Append(r.got, Value[c]) /\ y = d \o t OBVIOUS
  <2>2. [ok |-> r.ok, left |-> y, got |-> v] = [ok |-> TRUE, left |-> x, got |-> <<n>>]
    BY <1>5, <1>6, <2>1 DEF Took
  <2>3. y = x /\ v = <<n>> BY <2>2
  <2>4. QED BY <2>1, <2>3
<1>8. Value[c] = n
  <2>1. r.got = << >> BY <1>2, <1>3, ReaderType
  <2>2. \A v \in Nat : Append(<< >>, v) = <<v>> OBVIOUS
  <2>3. Value[c] \in Nat BY ValueDef, BytesAreNat
  <2>4. <<Value[c]>> = <<n>> BY <1>7, <2>1, <2>2, <2>3
  <2>5. QED BY <2>4
<1>9. ReadVarInt(Reader(b)) = [ok |-> TRUE, left |-> d, got |-> <<n>>] BY <1>1, <1>8
<1>10. QED BY <1>7, <1>9 DEF NumberIn

-----------------------------------------------------------------------------
\* What ReceivePacket returns or throws.
Packets == [class : DOMAIN Fields \cup {"null", "exception"}, values : Seq(FieldValues)]

\* The values of a packet that is answered.
Fits(p) == p.class \in Answered =>
              /\ Len(p.values) = Len(Fields[p.class])
              /\ \A i \in 1..Len(Fields[p.class]) : p.values[i] \in FieldOf(Fields[p.class][i])

(* The classes of a state are ones FromStream knows, and one of them has   *)
(* the id 0.                                                               *)
LEMMA ParsedType == \A s \in {"Status", "Login", "Play"} :
                       /\ Parsed(s) \subseteq DOMAIN Fields \ {"null", "exception"}
                       /\ \E c \in Parsed(s) : Id[c] = 0
<1>1. Parsed("Status") \subseteq DOMAIN Fields /\ Parsed("Login") \subseteq DOMAIN Fields
  BY DEF Parsed, Fields, ++, LoginFields
<1>2. ParsePacketPlay \subseteq DOMAIN Fields
  <2>1. \A f, g : DOMAIN (f ++ g) = DOMAIN f \cup DOMAIN g BY DEF ++
  <2>2. DOMAIN Fields = DOMAIN LoginFields \cup DOMAIN SpawnFields \cup DOMAIN WorldFields
                           \cup DOMAIN PlayerFields \cup DOMAIN WindowFields \cup DOMAIN EntityFields
    <3>1. PICK a : a = LoginFields ++ SpawnFields OBVIOUS
    <3>2. PICK b : b = a ++ WorldFields OBVIOUS
    <3>3. PICK c : c = b ++ PlayerFields OBVIOUS
    <3>4. PICK d : d = c ++ WindowFields OBVIOUS
    <3>5. Fields = d ++ EntityFields BY <3>1, <3>2, <3>3, <3>4 DEF Fields
    <3>6. DOMAIN a = DOMAIN LoginFields \cup DOMAIN SpawnFields BY <2>1, <3>1
    <3>7. DOMAIN b = DOMAIN a \cup DOMAIN WorldFields BY <2>1, <3>2
    <3>8. DOMAIN c = DOMAIN b \cup DOMAIN PlayerFields BY <2>1, <3>3
    <3>9. DOMAIN d = DOMAIN c \cup DOMAIN WindowFields BY <2>1, <3>4
    <3>10. DOMAIN Fields = DOMAIN d \cup DOMAIN EntityFields BY <2>1, <3>5
    <3>11. QED BY <3>6, <3>7, <3>8, <3>9, <3>10
  <2>3. {"SpawnEntity", "SpawnPlayer", "BlockChange", "ChatMessageCB", "MultiBlockChange",
         "WindowConfirmationCB", "CloseWindowCB", "WindowItems", "WindowProperty", "SetSlot",
         "SetCooldown", "DisconnectPlay", "UnloadChunk", "KeepAliveCB"} \subseteq DOMAIN Fields
    BY <2>2 DEF SpawnFields, WorldFields, WindowFields
  <2>4. {"ChunkData", "Effect", "JoinGame", "EntityPosition", "EntityPositionAndRotation", "EntityRotation",
         "PlayerPositionAndLookCB", "DestroyEntities", "EntityVelocity", "UpdateHealth",
         "SpawnPosition", "TimeUpdate", "SoundEffect", "EntityTeleport"} \subseteq DOMAIN Fields
    BY <2>2 DEF WorldFields, PlayerFields, WindowFields, EntityFields
  <2>5. QED BY <2>3, <2>4 DEF ParsePacketPlay
<1>3. Parsed("Play") = ParsePacketPlay BY DEF Parsed
<1>4. \A s \in {"Status", "Login", "Play"} : Parsed(s) \cap {"null", "exception"} = {}
  BY DEF Parsed, ParsePacketPlay
<1>5. /\ Id["Response"] = 0 /\ Id["Disconnect"] = 0 /\ Id["SpawnEntity"] = 0
      /\ "Response" \in Parsed("Status") /\ "Disconnect" \in Parsed("Login")
      /\ "SpawnEntity" \in Parsed("Play")
  BY DEF Id, Parsed, ParsePacketPlay
<1>6. QED BY <1>1, <1>2, <1>3, <1>4, <1>5

(* Reading on, behind other fields.                                        *)
LEMMA ReadOn == ASSUME NEW r \in Readers, NEW kinds \in Seq(Kind) PROVE ReadFields(r, kinds) \in Readers
<1>1. PICK f : ReadsFields(f, r, kinds) /\ ReadFields(r, kinds) = f[Len(kinds)] BY ReadFieldsDef
<1>2. Len(kinds) \in 0..Len(kinds) OBVIOUS
<1>3. QED BY <1>1, <1>2 DEF ReadsFields

(* Reading all fields returns a reader, and where no list follows the      *)
(* values of the fields.                                                   *)
LEMMA AllFieldsType ==
    ASSUME NEW class \in DOMAIN Fields, NEW bytes \in Seq(Bytes)
    PROVE  /\ AllFields(class, bytes) \in Readers
           /\ AllFields(class, bytes).ok /\ class \notin DOMAIN Element =>
                 /\ Len(AllFields(class, bytes).got) = Len(Fields[class])
                 /\ \A i \in 1..Len(Fields[class]) :
                       AllFields(class, bytes).got[i] \in FieldOf(Fields[class][i])
<1> DEFINE kinds == Fields[class]
           fixed == ReadFields(Reader(bytes), kinds)
<1>1. kinds \in Seq(Kind) BY FieldsType
<1>2. /\ fixed \in Readers
      /\ fixed.ok => /\ Len(fixed.got) = Len(kinds)
                     /\ \A i \in 1..Len(kinds) : fixed.got[i] \in FieldOf(kinds[i])
  <2> HIDE DEF kinds
  <2>1. QED BY <1>1, ReaderType, ReadFieldsType
<1>3. CASE ~(fixed.ok /\ class \in DOMAIN Element)
  <2>1. AllFields(class, bytes) = fixed BY <1>3 DEF AllFields
  <2>2. QED BY <1>2, <2>1
<1>4. CASE fixed.ok /\ class \in DOMAIN Element
  <2> DEFINE n == Count(class, Last(fixed.got))
             rest == Repeat(n, Element[class])
  <2>1. AllFields(class, bytes) = ReadFields(fixed, rest) BY <1>4 DEF AllFields
  <2>2. n \in Nat
    <3>1. class \in {"MultiBlockChange", "WindowItems", "DestroyEntities"} BY <1>4 DEF Element
    <3>2. /\ Fields["MultiBlockChange"] = <<"Int", "Int", "VarInt">>
          /\ Fields["WindowItems"] = <<"UByte", "Short">> /\ Fields["DestroyEntities"] = <<"VarInt">>
      BY DEF Fields, ++, LoginFields, SpawnFields, WorldFields, PlayerFields, WindowFields, EntityFields
    <3>3. FieldOf("VarInt") = Nat /\ FieldOf("Short") = Wide(2)
      <4>1. "Short" \in DOMAIN Width /\ Width["Short"] = 2 /\ "VarInt" \notin DOMAIN Width BY DEF Width
      <4>2. QED BY <4>1 DEF FieldOf
    <3>4. PICK g \in Seq(FieldValues) : g = fixed.got BY <1>2 DEF Readers
    <3>5. Last(fixed.got) = g[Len(g)] BY <3>4 DEF Last
    <3>6. Len(g) = Len(kinds) /\ \A i \in 1..Len(kinds) : g[i] \in FieldOf(kinds[i]) BY <1>2, <1>4, <3>4
    <3> HIDE DEF fixed
    <3>7. CASE class = "WindowItems"
      <4>1. kinds = <<"UByte", "Short">> BY <3>2, <3>7
      <4>2. Len(kinds) = 2 /\ kinds[2] = "Short" BY <4>1
      <4> HIDE DEF kinds
      <4>3. g[2] \in Wide(2) BY <3>3, <3>6, <4>2
      <4>4. PICK a \in Bytes, b \in Bytes : a = g[2][1] /\ b = g[2][2] BY <4>3 DEF Wide
      <4>5. n = IF a >= Radix THEN 0 ELSE 2 * Radix * a + b BY <3>5, <3>6, <3>7, <4>2, <4>4 DEF Count
      <4>6. a \in Nat /\ b \in Nat BY BytesAreNat
      <4>7. QED BY <4>5, <4>6, RadixAssumption
    <3>8. CASE class # "WindowItems"
      <4>1. n = Last(fixed.got) BY <3>8 DEF Count
      <4>2. kinds[Len(kinds)] = "VarInt" /\ Len(kinds) \in 1..Len(kinds) 
        <5>1. CASE class = "MultiBlockChange"
          <6>1. kinds = <<"Int", "Int", "VarInt">> BY <3>2, <5>1
          <6>2. QED BY <6>1
        <5>2. CASE class = "DestroyEntities"
          <6>1. kinds = <<"VarInt">> BY <3>2, <5>2
          <6>2. QED BY <6>1
        <5>3. QED BY <3>1, <3>8, <5>1, <5>2
      <4> HIDE DEF kinds, n
      <4>3. QED BY <3>3, <3>5, <3>6, <4>1, <4>2
    <3>9. QED BY <3>7, <3>8
  <2>3. rest \in Seq(Kind)
    <3> HIDE DEF n
    <3>1. QED BY <1>4, <2>2, ElementType, RepeatType
  <2> HIDE DEF fixed, rest
  <2>4. ReadFields(fixed, rest) \in Readers BY <1>2, <2>3, ReadOn
  <2>5. QED BY <1>4, <2>1, <2>4
<1>5. QED BY <1>3, <1>4

(* The int of a long is a long.                                            *)
LEMMA ToIntType == ASSUME NEW l \in Wide(8) PROVE ToInt(l) \in Wide(8)
<1>1. l \in Seq(Bytes) /\ Len(l) = 8 BY DEF Wide
<1>2. {0, 2 * Radix - 1} \subseteq Bytes BY RadixAssumption DEF Bytes
<1>3. PICK sign \in Bytes : sign = IF l[5] >= Radix THEN 2 * Radix - 1 ELSE 0 BY <1>2
<1>4. SubSeq(l, 5, 8) \in Seq(Bytes) /\ Len(SubSeq(l, 5, 8)) = 4
  <2>1. \A i \in 5..8 : l[i] \in Bytes
    <3>1. PICK b \in Seq(Bytes) : b = l /\ Len(b) = 8 BY <1>1
    <3>2. \A i \in 1..Len(b) : b[i] \in Bytes OBVIOUS
    <3>3. \A i \in 5..8 : i \in 1..8 OBVIOUS
    <3>4. QED BY <3>1, <3>2, <3>3
  <2>2. 5 \in Int /\ 8 \in Int OBVIOUS
  <2>3. QED BY <2>1, <2>2, SubSeqProperties
<1>5. PICK low \in Seq(Bytes) : low = SubSeq(l, 5, 8) /\ Len(low) = 4 BY <1>4
<1>6. ToInt(l) = <<sign, sign, sign, sign>> \o low BY <1>3, <1>5 DEF ToInt
<1>7. <<sign, sign, sign, sign>> \in Seq(Bytes) /\ Len(<<sign, sign, sign, sign>>) = 4 OBVIOUS
<1>8. PICK high \in Seq(Bytes) : high = <<sign, sign, sign, sign>> /\ Len(high) = 4 BY <1>7
<1>9. high \o low \in Seq(Bytes) /\ Len(high \o low) = Len(high) + Len(low) BY Associative
<1>10. QED BY <1>5, <1>6, <1>8, <1>9 DEF Wide

(* What FromStream makes of the fields.                                    *)
LEMMA FromAllFields ==
    ASSUME NEW class, NEW bytes
    PROVE  LET r == AllFields(class, bytes)
           IN /\ ~r.ok => FromStream(class, bytes) = r
              /\ r.ok /\ Rejected(class, r.got) => FromStream(class, bytes) = OutOfData(r)
              /\ r.ok /\ ~Rejected(class, r.got) =>
                    FromStream(class, bytes) = WithValues(r, Kept(class, r.got))
<1>1. PICK r : r = AllFields(class, bytes) OBVIOUS
<1>2. QED BY <1>1 DEF FromStream, Assigned

(* Of a class without a text and other than pong it is the fields.         *)
LEMMA FieldsAsTheyAre ==
    ASSUME NEW class, NEW bytes, class \notin WithChat, class \notin {"Ping", "Pong"},
           AllFields(class, bytes) \in Readers
    PROVE  FromStream(class, bytes) = AllFields(class, bytes)
<1>1. PICK r \in Readers : r = AllFields(class, bytes) OBVIOUS
<1>2. ~Rejected(class, r.got) /\ Kept(class, r.got) = r.got BY DEF Rejected, Kept
<1>3. WithValues(r, r.got) = r BY DEF WithValues, Readers
<1>4. QED BY <1>1, <1>2, <1>3, FromAllFields

(* FromStream returns a reader, and of a packet that is answered the       *)
(* values of its fields.                                                   *)
LEMMA FromStreamType ==
    ASSUME NEW class \in DOMAIN Fields, NEW bytes \in Seq(Bytes)
    PROVE  /\ FromStream(class, bytes) \in Readers
           /\ FromStream(class, bytes).ok /\ class \in Answered =>
                 /\ Len(FromStream(class, bytes).got) = Len(Fields[class])
                 /\ \A i \in 1..Len(Fields[class]) :
                       FromStream(class, bytes).got[i] \in FieldOf(Fields[class][i])
<1>1. PICK r \in Readers : r = AllFields(class, bytes) BY AllFieldsType
<1>2. CASE class \notin WithChat /\ class # "Pong"
  <2>1. class # "Ping"
    BY DEF Fields, ++, LoginFields, SpawnFields, WorldFields, PlayerFields, WindowFields, EntityFields
  <2>2. FromStream(class, bytes) = r BY <1>1, <1>2, <2>1, FieldsAsTheyAre
  <2>3. class \in Answered => class \notin DOMAIN Element BY AnswerLayouts
  <2>4. QED BY <1>1, <2>2, <2>3, AllFieldsType
<1>3. CASE class \in WithChat \/ class = "Pong"
  <2>1. class \notin Answered BY <1>3, AnswerLayouts
  <2>2. CASE ~r.ok BY <1>1, <2>1, <2>2, FromAllFields
  <2>3. CASE r.ok /\ Rejected(class, r.got)
    <3>1. FromStream(class, bytes) = OutOfData(r) BY <1>1, <2>3, FromAllFields
    <3>2. QED BY <2>1, <3>1, OutOfDataType
  <2>4. CASE r.ok /\ ~Rejected(class, r.got)
    <3>1. FromStream(class, bytes) = WithValues(r, Kept(class, r.got)) BY <1>1, <2>4, FromAllFields
    <3>2. Kept(class, r.got) \in Seq(FieldValues)
      <4>1. CASE class = "Pong"
        <5>1. Fields["Pong"] = <<"Long">> /\ "Pong" \notin DOMAIN Element
          BY DEF Element, Fields, ++, LoginFields
        <5>2. \A i \in 1..Len(<<"Long">>) : r.got[i] \in FieldOf(<<"Long">>[i])
          BY <1>1, <2>4, <4>1, <5>1, AllFieldsType
        <5>3. FieldOf("Long") = Wide(8) BY DEF FieldOf, Width
        <5>4. r.got[1] \in Wide(8) BY <5>2, <5>3
        <5>5. PICK l \in FieldValues : l = ToInt(r.got[1]) BY <5>4, ToIntType DEF FieldValues, Wide
        <5>6. Kept(class, r.got) = <<l>> BY <4>1, <5>5 DEF Kept
        <5>7. QED BY <5>6
      <4>2. CASE class # "Pong"
        <5>1. class # "Ping" BY <1>3, <4>2 DEF WithChat
        <5>2. Kept(class, r.got) = r.got BY <4>2, <5>1 DEF Kept
        <5>3. QED BY <5>2 DEF Readers
      <4>3. QED BY <4>1, <4>2
    <3>3. PICK v \in Seq(FieldValues) : v = Kept(class, r.got) BY <3>2
    <3>4. WithValues(r, v) \in Readers BY DEF WithValues, Readers
    <3>5. QED BY <2>1, <3>1, <3>3, <3>4
  <2>5. QED BY <2>2, <2>3, <2>4
<1>4. QED BY <1>2, <1>3

(* What becomes of the bytes of a packet.                                  *)
LEMMA ReceivedType ==
    ASSUME NEW bytes \in Seq(Bytes), state \in {"Status", "Login", "Play"}
    PROVE  LET p == ReceivePacketByPacketId(bytes)
           IN /\ p \in Packets /\ p.class \in Parsed(state) \cup {"null", "exception"} /\ Fits(p)
              /\ p.class = "exception" => p = Exception
<1> DEFINE id == ReadVarInt(Reader(bytes))
           classes == {c \in Parsed(state) : Id[c] = id.got[1]}
           class == CHOOSE c \in classes : TRUE
           fields == FromStream(class, id.left)
           p == ReceivePacketByPacketId(bytes)
<1>1. /\ Exception \in Packets /\ Exception.class = "exception"
      /\ NoPacket \in Packets /\ NoPacket.class = "null"
  BY DEF Exception, NoPacket, Packets
<1>2. "exception" \notin Answered /\ "null" \notin Answered BY DEF Answered
<1>3. CASE p = Exception \/ p = NoPacket BY <1>1, <1>2, <1>3 DEF Fits
<1>4. CASE id.ok /\ classes # {} /\ fields.ok
  <2>1. p = [class |-> class, values |-> fields.got] BY <1>4 DEF ReceivePacketByPacketId
  <2>2. class \in Parsed(state) BY <1>4
  <2>3. class \in DOMAIN Fields /\ class \notin {"null", "exception"} BY <2>2, ParsedType
  <2>4. id.left \in Seq(Bytes)
    <3>1. PICK d \in Seq(Bytes) : id.left = d BY <1>4, NumberRead
    <3>2. QED BY <3>1
  <2> HIDE DEF class, id
  <2>5. /\ fields \in Readers
        /\ class \in Answered => /\ Len(fields.got) = Len(Fields[class])
                                 /\ \A i \in 1..Len(Fields[class]) : fields.got[i] \in FieldOf(Fields[class][i])
    BY <1>4, <2>3, <2>4, FromStreamType
  <2> HIDE DEF fields, p
  <2>6. p \in Packets BY <2>1, <2>3, <2>5 DEF Packets, Readers
  <2>7. p.class = class /\ p.values = fields.got BY <2>1
  <2>8. Fits(p) BY <2>5, <2>7 DEF Fits
  <2>9. QED BY <2>2, <2>3, <2>6, <2>7, <2>8 DEF p
<1>5. CASE id.ok /\ classes # {} /\ ~fields.ok
  <2>1. p = Exception BY <1>5 DEF ReceivePacketByPacketId
  <2>2. QED BY <1>3, <2>1
<1>6. CASE ~id.ok
  <2>1. p = Exception BY <1>6 DEF ReceivePacketByPacketId
  <2>2. QED BY <1>3, <2>1
<1>7. CASE id.ok /\ classes = {}
  <2>1. p = NoPacket BY <1>7 DEF ReceivePacketByPacketId
  <2>2. QED BY <1>3, <2>1
<1>8. QED BY <1>4, <1>5, <1>6, <1>7

(* What inflate leaves in the buffer for the packet is bytes.              *)
LEMMA InflatedType ==
    ASSUME NEW data \in Seq(Bytes), data # << >>, NEW announced \in Nat
    PROVE  Inflated(data, announced) \subseteq Seq(Bytes)
<1>0. Tail(data) \in Seq(Bytes) OBVIOUS
<1>1. PICK bytes \in Seq(Bytes) : bytes = Tail(data) BY <1>0
<1> DEFINE parts == {SubSeq(bytes, 1, k) : k \in 0..Len(bytes)}
           any == {Padded(b, announced) : b \in {c \in parts \cup Scraps : Len(c) <= announced}}
<1>2. ASSUME NEW b \in Seq(Bytes), Len(b) <= announced PROVE Padded(b, announced) \in Seq(Bytes)
  <2>1. 0 \in Bytes BY RadixAssumption DEF Bytes
  <2>2. announced - Len(b) \in Nat BY <1>2
  <2>3. [j \in 1..(announced - Len(b)) |-> 0] \in Seq(Bytes) BY <2>1, <2>2
  <2>4. QED BY <2>3 DEF Padded
<1>3. parts \cup Scraps \subseteq Seq(Bytes)
  <2>1. \A k \in 0..Len(bytes) : SubSeq(bytes, 1, k) \in Seq(Bytes) OBVIOUS
  <2>2. QED BY <2>1, FramingAssumption
<1>4. any \subseteq Seq(Bytes) BY <1>2, <1>3
<1>5. Inflated(data, announced) = CASE Head(data) = 0 -> any
                                    [] Head(data) = 1 /\ Len(bytes) <= announced -> {Padded(bytes, announced)}
                                    [] OTHER -> {}
  BY <1>1 DEF Inflated
<1> HIDE DEF any
<1>6. CASE Head(data) = 0 BY <1>4, <1>5, <1>6
<1>7. CASE Head(data) = 1 /\ Len(bytes) <= announced
  <2>1. Inflated(data, announced) = {Padded(bytes, announced)} BY <1>5, <1>7
  <2>2. QED BY <1>2, <1>7, <2>1
<1>8. CASE Head(data) # 0 /\ ~(Head(data) = 1 /\ Len(bytes) <= announced)
  <2>1. Inflated(data, announced) = {} BY <1>5, <1>8
  <2>2. QED BY <2>1
<1>9. QED BY <1>6, <1>7, <1>8

(* So is a packet that is unpacked.                                        *)
LEMMA UnpackedType ==
    ASSUME NEW b, WellFormed(b), threshold \in Int
    PROVE  Unpacked(b) \subseteq Seq(Bytes)
<1>1. CASE threshold < 0
  <2>1. Unpacked(b) = {b} BY <1>1 DEF Unpacked
  <2>2. QED BY <2>1 DEF WellFormed
<1>2. CASE threshold >= 0
  <2>1. PICK m \in Nat, d \in Seq(Bytes) : b = VarInt[m] \o d /\ (m # 0 => d # << >>)
    BY <1>2 DEF WellFormed
  <2> DEFINE l == ReadVarInt(Reader(b))
  <2>2. l = [ok |-> TRUE, left |-> d, got |-> <<m>>] BY <2>1, ReadNumber
  <2>3. l.ok /\ l.left = d /\ l.got = <<m>> /\ l.got[1] = m BY <2>2
  <2>4. Unpacked(b) = IF l.got = <<0>> THEN {l.left} ELSE Inflated(l.left, l.got[1])
    BY <1>2, <2>3 DEF Unpacked
  <2> HIDE DEF l
  <2>5. CASE m = 0 BY <2>3, <2>4, <2>5
  <2>6. CASE m # 0
    <3>1. l.got # <<0>> BY <2>3, <2>6
    <3>2. QED BY <2>1, <2>3, <2>4, <2>6, <3>1, InflatedType
  <2>7. QED BY <2>5, <2>6
<1>3. QED BY <1>1, <1>2

\* A buffer that the error left as it was.
Blank(n) == [j \in 1..n |-> 0]

(* Of such a buffer a number is read as 0, if there is a byte.             *)
LEMMA BlankRead ==
    ASSUME NEW n \in Nat
    PROVE  /\ Blank(n) \in Seq(Bytes)
           /\ n = 0 => ~ReadVarInt(Reader(Blank(n))).ok
           /\ n # 0 => ReadVarInt(Reader(Blank(n))) = [ok |-> TRUE, left |-> Blank(n - 1), got |-> <<0>>]
<1>1. 0 \in Bytes BY RadixAssumption DEF Bytes
<1>2. \A k \in Nat : Blank(k) \in Seq(Bytes) BY <1>1 DEF Blank
<1>3. CASE n = 0
  <2>1. Blank(n) = << >> BY <1>3 DEF Blank
  <2>2. QED BY <1>2, <1>3, <2>1, NothingRead
<1>4. CASE n # 0
  <2>1. n - 1 \in Nat BY <1>4
  <2>2. Blank(n) = <<0>> \o Blank(n - 1) BY <1>4, <2>1 DEF Blank
  <2>3. VarInt[0] = <<0>>
    <3>1. 0 \in Nat /\ 0 < Radix BY RadixAssumption
    <3>2. QED BY <3>1, VarIntDef
  <2>4. QED BY <1>2, <1>4, <2>1, <2>2, <2>3, ReadNumber
<1>5. QED BY <1>3, <1>4

(* It is unpacked to zeros.                                                *)
LEMMA BlankUnpacked ==
    ASSUME NEW n \in Nat, NEW bytes \in Unpacked(Blank(n)), threshold \in Int
    PROVE  \E k \in Nat : bytes = Blank(k) /\ (n = 0 => k = 0)
<1>1. CASE threshold < 0
  <2>1. Unpacked(Blank(n)) = {Blank(n)} BY <1>1 DEF Unpacked
  <2>2. QED BY <2>1
<1>2. CASE threshold >= 0 /\ n = 0
  <2>1. Unpacked(Blank(n)) = {} BY <1>2, BlankRead DEF Unpacked
  <2>2. QED BY <2>1
<1>3. CASE threshold >= 0 /\ n # 0
  <2> DEFINE l == ReadVarInt(Reader(Blank(n)))
  <2>1. l = [ok |-> TRUE, left |-> Blank(n - 1), got |-> <<0>>] BY <1>3, BlankRead
  <2>2. l.ok /\ l.left = Blank(n - 1) /\ l.got = <<0>> BY <2>1
  <2>3. Unpacked(Blank(n)) = {l.left} BY <1>3, <2>2 DEF Unpacked
  <2>4. n - 1 \in Nat BY <1>3
  <2> HIDE DEF l
  <2>5. QED BY <1>3, <2>2, <2>3, <2>4
<1>4. QED BY <1>1, <1>2, <1>3

(* It holds no packet, or one with the id 0.                               *)
LEMMA BlankReceived ==
    ASSUME NEW n \in Nat, NEW bytes \in Unpacked(Blank(n)), state \in {"Status", "Login", "Play"},
           threshold \in Int
    PROVE  LET p == ReceivePacketByPacketId(bytes)
           IN /\ p \in Packets /\ Fits(p) /\ p.class \in Parsed(state) \cup {"exception"}
              /\ p.class \notin Answered
              /\ n = 0 => p = Exception
<1>2. PICK k \in Nat : bytes = Blank(k) /\ (n = 0 => k = 0) BY BlankUnpacked
<1> DEFINE p == ReceivePacketByPacketId(bytes)
           id == ReadVarInt(Reader(bytes))
           classes == {c \in Parsed(state) : Id[c] = id.got[1]}
           class == CHOOSE c \in classes : TRUE
           fields == FromStream(class, id.left)
<1>3. bytes \in Seq(Bytes) BY <1>2, BlankRead
<1>4. /\ p \in Packets /\ Fits(p) /\ p.class \in Parsed(state) \cup {"null", "exception"}
  BY <1>3, ReceivedType
<1>5. Exception.class = "exception" /\ "exception" \notin Answered BY DEF Exception, Answered
<1>6. CASE k = 0
  <2>1. ~id.ok BY <1>2, <1>6, BlankRead
  <2>2. p = Exception BY <2>1 DEF ReceivePacketByPacketId
  <2>3. QED BY <1>4, <1>5, <2>2
<1>7. CASE k # 0
  <2>1. id = [ok |-> TRUE, left |-> Blank(k - 1), got |-> <<0>>] BY <1>2, <1>7, BlankRead
  <2>2. id.ok /\ id.got[1] = 0 BY <2>1
  <2>3. classes # {}
    <3> HIDE DEF id
    <3>1. QED BY <2>2, ParsedType
  <2>4. class \in classes BY <2>3
  <2>5. class \in Parsed(state) /\ Id[class] = 0
    <3> HIDE DEF id, class
    <3>1. QED BY <2>2, <2>4
  <2>6. p = Exception \/ p = [class |-> class, values |-> fields.got]
    BY <2>2, <2>3 DEF ReceivePacketByPacketId
  <2>7. class \notin Answered BY <2>5, AnswerLayouts
  <2> HIDE DEF p, class, fields
  <2>8. p.class \in Parsed(state) \cup {"exception"} /\ p.class \notin Answered
    BY <1>5, <2>5, <2>6, <2>7
  <2>9. QED BY <1>2, <1>4, <1>7, <2>8 DEF p
<1>8. QED BY <1>6, <1>7

-----------------------------------------------------------------------------
(* The stream.  What follows the first n of a list of pieces of it.        *)
Behind(pieces, n) == FlattenSeq(SubSeq(pieces, n + 1, Len(pieces)))

(* The pieces behind the first n are the next one and those behind it.     *)
LEMMA BehindTake ==
    ASSUME NEW p \in Seq(Seq(Bytes)), NEW n \in Nat
    PROVE  /\ n <= Len(p) => Behind(p, n) \in Seq(Bytes)
           /\ n < Len(p) => Behind(p, n) = p[n + 1] \o Behind(p, n + 1)
           /\ Behind(p, Len(p)) = << >>
<1>1. \A i \in Nat : i <= Len(p) => SubSeq(p, i + 1, Len(p)) \in Seq(Seq(Bytes))
  <2>1. \A i \in Nat : \A j \in (i + 1)..Len(p) : p[j] \in Seq(Bytes) OBVIOUS
  <2>2. \A i \in Nat : i + 1 \in Int /\ Len(p) \in Int OBVIOUS
  <2>3. QED BY <2>1, <2>2, SubSeqProperties
<1>2. \A i \in Nat : i <= Len(p) => Behind(p, i) \in Seq(Bytes) BY <1>1, FlattenType DEF Behind
<1>3. ASSUME n < Len(p) PROVE Behind(p, n) = p[n + 1] \o Behind(p, n + 1)
  <2>1. SubSeq(p, n + 1, Len(p)) = <<p[n + 1]>> \o SubSeq(p, (n + 1) + 1, Len(p))
    <3>1. \A S : \A w \in Seq(S) : \A k \in 1..Len(w) :
             SubSeq(w, k, Len(w)) = <<w[k]>> \o SubSeq(w, k + 1, Len(w))
      OBVIOUS
    <3>2. n + 1 \in 1..Len(p) BY <1>3
    <3>3. QED BY <3>1, <3>2
  <2>2. p[n + 1] \in Seq(Bytes) BY <1>3
  <2>3. <<p[n + 1]>> \in Seq(Seq(Bytes)) BY <2>2
  <2>4. n + 1 \in Nat /\ n + 1 <= Len(p) BY <1>3
  <2>5. SubSeq(p, (n + 1) + 1, Len(p)) \in Seq(Seq(Bytes)) BY <1>1, <2>4
  <2>6. Behind(p, n) = FlattenSeq(<<p[n + 1]>>) \o Behind(p, n + 1)
    BY <2>1, <2>3, <2>5, FlattenConcat DEF Behind
  <2>7. QED BY <2>2, <2>6, FlattenOne
<1>4. Behind(p, Len(p)) = << >>
  <2>1. SubSeq(p, Len(p) + 1, Len(p)) = << >> OBVIOUS
  <2>2. QED BY <2>1, FlattenEmpty DEF Behind
<1>5. QED BY <1>2, <1>3, <1>4

(* One piece more is that piece at the end.                                *)
LEMMA BehindAppend ==
    ASSUME NEW p \in Seq(Seq(Bytes)), NEW b \in Seq(Bytes), NEW n \in Nat, n <= Len(p)
    PROVE  Append(p, b) \in Seq(Seq(Bytes)) /\ Behind(Append(p, b), n) = Behind(p, n) \o b
<1>1. Append(p, b) \in Seq(Seq(Bytes)) /\ Len(Append(p, b)) = Len(p) + 1 OBVIOUS
<1>2. SubSeq(Append(p, b), n + 1, Len(p) + 1) = Append(SubSeq(p, n + 1, Len(p)), b)
  <2>0. \A j \in Nat : \A w \in Seq(Seq(Bytes)) : n + j = Len(w) =>
           /\ SubSeq(w, n + 1, n + j) \in Seq(Seq(Bytes)) /\ Len(SubSeq(w, n + 1, n + j)) = j
           /\ \A i \in 1..j : SubSeq(w, n + 1, n + j)[i] = w[n + i]
    OBVIOUS
  <2>1. PICK l \in Nat : l = Len(p) OBVIOUS
  <2>2. PICK k \in Nat : l = n + k
    <3>1. l - n \in Nat /\ l = n + (l - n) BY <2>1
    <3>2. QED BY <3>1
  <2>3. PICK x : x = SubSeq(Append(p, b), n + 1, n + k + 1) OBVIOUS
  <2>4. PICK y : y = SubSeq(p, n + 1, n + k) OBVIOUS
  <2>5. /\ x \in Seq(Seq(Bytes)) /\ Len(x) = k + 1
        /\ \A i \in 1..(k + 1) : x[i] = Append(p, b)[n + i]
    <3>1. PICK j \in Nat : j = k + 1 OBVIOUS
    <3>a. n + k + 1 = n + j BY <3>1
    <3>b. n + j = Len(Append(p, b)) BY <1>1, <2>1, <2>2, <3>1
    <3>2. n + j = Len(Append(p, b)) /\ x = SubSeq(Append(p, b), n + 1, n + j) BY <2>3, <3>a, <3>b
    <3>3. x \in Seq(Seq(Bytes)) /\ Len(x) = j /\ \A i \in 1..j : x[i] = Append(p, b)[n + i]
      BY <1>1, <2>0, <3>2
    <3>4. QED BY <3>1, <3>3
  <2>6. y \in Seq(Seq(Bytes)) /\ Len(y) = k /\ \A i \in 1..k : y[i] = p[n + i]
    <3>1. n + k = Len(p) BY <2>1, <2>2
    <3>2. QED BY <2>0, <2>4, <3>1
  <2>7. \A i \in 1..(k + 1) : x[i] = Append(y, b)[i]
    <3> SUFFICES ASSUME NEW i \in 1..(k + 1) PROVE x[i] = Append(y, b)[i] OBVIOUS
    <3>1. CASE i \in 1..k
      <4>1. n + i \in 1..Len(p) BY <2>1, <2>2, <3>1
      <4>2. Append(p, b)[n + i] = p[n + i] BY <4>1
      <4>3. Append(y, b)[i] = y[i] BY <2>6, <3>1
      <4>4. QED BY <2>5, <2>6, <3>1, <4>2, <4>3
    <3>2. CASE i = k + 1
      <4>1. n + i = Len(p) + 1 /\ i = Len(y) + 1 BY <2>1, <2>2, <2>6, <3>2
      <4>2. Append(p, b)[n + i] = b /\ Append(y, b)[i] = b BY <2>6, <4>1
      <4>3. QED BY <2>5, <4>2
    <3>3. i \in 1..k \/ i = k + 1 OBVIOUS
    <3>4. QED BY <3>1, <3>2, <3>3
  <2>8. Append(y, b) \in Seq(Seq(Bytes)) /\ Len(Append(y, b)) = k + 1 BY <2>6
  <2>9. x = Append(y, b) BY <2>5, <2>7, <2>8
  <2>10. QED BY <2>1, <2>2, <2>3, <2>4, <2>9
<1>3. SubSeq(p, n + 1, Len(p)) \in Seq(Seq(Bytes))
  <2>1. \A j \in (n + 1)..Len(p) : p[j] \in Seq(Bytes) OBVIOUS
  <2>2. n + 1 \in Int /\ Len(p) \in Int OBVIOUS
  <2>3. QED BY <2>1, <2>2, SubSeqProperties
<1>4. QED BY <1>1, <1>2, <1>3, FlattenAppend DEF Behind

-----------------------------------------------------------------------------
(* The inductive invariant of the receiving side.                          *)
FrameRecords == [class : DOMAIN Id, values : Seq(FieldValues), bytes : Seq(Bytes),
                 content : Contents, packing : Packings]

ReceivingTypes ==
    /\ state \in States /\ threshold \in Thresholds
    /\ pc \in {"length", "body", "reply", "ended"} /\ length \in Nat
    /\ conn \in {"open", "closed", "reset", "reported"}
    /\ toClient \in Seq(Bytes)
    /\ frames \in Seq(FrameRecords)
    /\ received \in Seq(Packets) /\ afterEnd \in Seq(Packets)

\* Every frame is a packet behind its length, every packet that is answered
\* has the values to answer it, and behind the error there is nothing.
FramesCounted == \A k \in DOMAIN frames : \E c : WellFormed(c) /\ frames[k].bytes = Counted(c)

ReceivedFit == \A k \in DOMAIN received : /\ received[k].class \in Parsed(state) \cup {"null", "exception"}
                                          /\ Fits(received[k])

ReceivingStages ==
    /\ FramesCounted /\ ReceivedFit
    /\ \A k \in DOMAIN afterEnd : afterEnd[k].class \in Parsed(state) \cup {"exception"}
    /\ pc = "reply" => received # << >> /\ Last(received).class \in Answered
    /\ conn = "reported" => toClient = << >>
    /\ afterEnd # << >> => conn # "open" /\ toClient = << >> /\ (conn = "reported" \/ pc = "ended")

\* What is under way, and the length that was read in front of it, is where
\* the frames begin that nothing was received of; only when the connection
\* has ended a part of them is missing at the end.
FrameBytes == [k \in 1..Len(frames) |-> frames[k].bytes]

Unread == IF pc = "body" THEN VarInt[length] \o toClient ELSE toClient

ReceivingAligned ==
    /\ Len(received) <= Len(frames)
    /\ afterEnd = << >> /\ conn # "reported" =>
          \E t \in Seq(Bytes) : /\ Unread \o t = Behind(FrameBytes, Len(received))
                                /\ conn = "open" => t = << >>

ReceivingInv == ReceivingTypes /\ ReceivingStages /\ ReceivingAligned

(* It holds in the beginning.                                              *)
LEMMA ReceivingInit == Init => ReceivingInv
<1> SUFFICES ASSUME Init PROVE ReceivingInv OBVIOUS
<1>1. /\ state \in States /\ threshold \in Thresholds /\ pc = "length" /\ length = 0
      /\ toClient = << >> /\ conn = "open" /\ afterEnd = << >> /\ frames = << >> /\ received = << >>
  BY DEF Init
<1>2. ReceivingTypes BY <1>1 DEF ReceivingTypes
<1>3. ReceivingStages BY <1>1 DEF ReceivingStages, FramesCounted, ReceivedFit
<1>4. ReceivingAligned
  <2>1. FrameBytes = << >> BY <1>1 DEF FrameBytes
  <2>2. Behind(<< >>, 0) = << >>
    <3>1. << >> \in Seq(Seq(Bytes)) /\ Len(<< >>) = 0 OBVIOUS
    <3>2. QED BY <3>1, BehindTake
  <2>3. Unread \o << >> = << >> BY <1>1 DEF Unread
  <2>4. << >> \in Seq(Bytes) /\ Len(received) = 0 /\ Len(frames) = 0 BY <1>1
  <2>5. Unread \o << >> = Behind(FrameBytes, Len(received)) BY <2>1, <2>2, <2>3, <2>4
  <2>6. \E t \in Seq(Bytes) : /\ Unread \o t = Behind(FrameBytes, Len(received))
                              /\ conn = "open" => t = << >>
    BY <2>4, <2>5
  <2>7. QED BY <2>4, <2>6 DEF ReceivingAligned
<1>5. QED BY <1>2, <1>3, <1>4 DEF ReceivingInv

(* The bytes of the frames are a list of as many sequences of bytes.       *)
LEMMA FrameBytesType ==
    ASSUME ReceivingTypes
    PROVE  FrameBytes \in Seq(Seq(Bytes)) /\ Len(FrameBytes) = Len(frames) /\ Len(frames) \in Nat
                /\ Len(received) \in Nat
<1>1. Len(frames) \in Nat /\ Len(received) \in Nat BY DEF ReceivingTypes
<1>2. \A k \in 1..Len(frames) : frames[k].bytes \in Seq(Bytes)
  <2>1. \A k \in 1..Len(frames) : frames[k] \in FrameRecords BY DEF ReceivingTypes
  <2>2. QED BY <2>1 DEF FrameRecords
<1>3. QED BY <1>1, <1>2 DEF FrameBytes

(* The constants the state and the threshold are taken from.               *)
LEMMA StatesType == ASSUME ReceivingTypes PROVE state \in {"Status", "Login", "Play"} /\ threshold \in Int
BY FramingAssumption DEF ReceivingTypes

(* The bytes a zero of the error is put behind.                            *)
LEMMA ZeroEnds ==
    ASSUME NEW b \in Seq(Bytes)
    PROVE  /\ Append(b, 0) \in Seq(Bytes)
           /\ ReadVarInt(Reader(Append(b, 0))).ok /\ Last(ReadVarInt(Reader(Append(b, 0))).got) \in Nat
<1>1. 0 \in Bytes /\ 0 < Radix /\ Radix \in Nat BY RadixAssumption DEF Bytes
<1>2. PICK a : a = Append(b, 0) OBVIOUS
<1>3. a \in Seq(Bytes) /\ Len(b) + 1 \in DOMAIN a /\ a[Len(b) + 1] = 0 BY <1>1, <1>2
<1>4. Reader(a) \in Readers /\ Reader(a).left = a BY <1>3, ReaderType
<1>5. ~(a[Len(b) + 1] >= Radix) BY <1>1, <1>3
<1>6. ReadVarInt(Reader(a)).ok
  <2>1. ~\A i \in DOMAIN a : a[i] >= Radix BY <1>3, <1>5
  <2>2. PICK c \in Seq(Bytes), d \in Seq(Bytes) : ReadVarInt(Reader(a)) = Took(Reader(a), d, Value[c])
    BY <1>4, <2>1, ReadVarIntCases
  <2>3. QED BY <2>2 DEF Took, Reader
<1>7. PICK c \in Seq(Bytes), d \in Seq(Bytes) :
         Value[c] \in Nat /\ ReadVarInt(Reader(a)) = [ok |-> TRUE, left |-> d, got |-> <<Value[c]>>]
  BY <1>3, <1>6, NumberRead
<1>8. Last(ReadVarInt(Reader(a)).got) = Value[c]
  <2>1. ReadVarInt(Reader(a)).got = <<Value[c]>> BY <1>7
  <2>2. QED BY <2>1 DEF Last
<1>9. QED BY <1>2, <1>3, <1>6, <1>7, <1>8

-----------------------------------------------------------------------------
(* Each action preserves the invariant of the receiving side.              *)
Receiving == <<state, threshold, pc, length, toClient, conn, frames, received, afterEnd>>

(* A step that changes nothing of the receiving side preserves it.         *)
LEMMA ReceivingUnchanged == ASSUME ReceivingInv, UNCHANGED Receiving PROVE ReceivingInv'
<1>1. /\ state' = state /\ threshold' = threshold /\ pc' = pc /\ length' = length
      /\ toClient' = toClient /\ conn' = conn /\ frames' = frames /\ received' = received
      /\ afterEnd' = afterEnd
  BY DEF Receiving
<1>2. \A b : WellFormed(b)' <=> WellFormed(b) BY <1>1 DEF WellFormed
<1>3. Parsed(state)' = Parsed(state) BY <1>1
<1>4. FrameBytes' = FrameBytes /\ Unread' = Unread BY <1>1 DEF FrameBytes, Unread
<1>5. ReceivingTypes' BY <1>1 DEF ReceivingInv, ReceivingTypes
<1>6. ReceivingStages' BY <1>1, <1>2, <1>3 DEF ReceivingInv, ReceivingStages, FramesCounted, ReceivedFit
<1>7. ReceivingAligned' BY <1>1, <1>4 DEF ReceivingInv, ReceivingAligned
<1>8. QED BY <1>5, <1>6, <1>7 DEF ReceivingInv


(* Frames stay well-formed in the same format.                             *)
LEMMA FramesKept == ASSUME FramesCounted, UNCHANGED <<threshold, frames>>
                    PROVE  FramesCounted' /\ FrameBytes' = FrameBytes
<1>1. \A b : WellFormed(b)' <=> WellFormed(b) BY DEF WellFormed
<1>2. QED BY <1>1 DEF FramesCounted, FrameBytes

(* One packet more is returned.                                            *)
LEMMA ReceivedMore ==
    ASSUME ReceivingTypes, ReceivedFit, NEW p \in Packets,
           p.class \in Parsed(state) \cup {"null", "exception"}, Fits(p),
           received' = Append(received, p), state' = state
    PROVE  /\ ReceivedFit' /\ received' \in Seq(Packets) /\ received' # << >> /\ Last(received') = p
           /\ Len(received') = Len(received) + 1
<1>1. received \in Seq(Packets) BY DEF ReceivingTypes
<1>2. /\ Append(received, p) \in Seq(Packets) /\ Len(Append(received, p)) = Len(received) + 1
      /\ Append(received, p)[Len(received) + 1] = p
      /\ \A k \in 1..Len(received) : Append(received, p)[k] = received[k]
  BY <1>1
<1>3. received' # << >> /\ Last(received') = p BY <1>1, <1>2 DEF Last
<1>4. \A k \in DOMAIN received' : received'[k] = p \/ \E j \in DOMAIN received : received'[k] = received[j]
  BY <1>1, <1>2
<1>5. \A k \in DOMAIN received' : /\ received'[k].class \in Parsed(state) \cup {"null", "exception"}
                                  /\ Fits(received'[k])
  BY <1>4 DEF ReceivedFit
<1>6. ReceivedFit' BY <1>5 DEF ReceivedFit
<1>7. QED BY <1>1, <1>2, <1>3, <1>6

(* No packet is returned.                                                  *)
LEMMA ReceivedSame == ASSUME ReceivedFit, UNCHANGED <<received, state>> PROVE ReceivedFit'
<1>1. UNCHANGED Parsed(state) OBVIOUS
<1>2. QED BY <1>1 DEF ReceivedFit

(* One packet more is returned behind the end of the connection.           *)
LEMMA EndMore ==
    ASSUME ReceivingTypes, ReceivingStages, NEW p \in Packets, p.class \in Parsed(state) \cup {"exception"},
           afterEnd' = Append(afterEnd, p), state' = state
    PROVE  afterEnd' \in Seq(Packets) /\ \A k \in DOMAIN afterEnd' : afterEnd'[k].class \in Parsed(state') \cup {"exception"}
<1>1. afterEnd \in Seq(Packets) BY DEF ReceivingTypes
<1>2. /\ Append(afterEnd, p) \in Seq(Packets) /\ Len(Append(afterEnd, p)) = Len(afterEnd) + 1
      /\ Append(afterEnd, p)[Len(afterEnd) + 1] = p
      /\ \A k \in 1..Len(afterEnd) : Append(afterEnd, p)[k] = afterEnd[k]
  BY <1>1
<1>3. \A k \in DOMAIN afterEnd' : afterEnd'[k] = p \/ \E j \in DOMAIN afterEnd : afterEnd'[k] = afterEnd[j]
  BY <1>1, <1>2
<1>4. QED BY <1>2, <1>3 DEF ReceivingStages

(* What follows a packet: an answer only to one that is answered, the end  *)
(* to an exception.                                                        *)
LEMMA AfterType == ASSUME NEW p PROVE /\ After(p) \in {"length", "reply", "ended"}
                                      /\ After(p) = "reply" => p.class \in Answered
                                      /\ p = Exception => After(p) = "ended"
<1>1. Exception.class \notin Answered BY DEF Exception, Answered
<1>2. CASE p = Exception
  <2>1. After(p) = "ended" BY <1>1, <1>2 DEF After
  <2>2. QED BY <2>1
<1>3. CASE p # Exception
  <2>1. After(p) = IF p.class \in Answered THEN "reply" ELSE "length" BY <1>3 DEF After
  <2>2. QED BY <1>3, <2>1
<1>4. QED BY <1>2, <1>3

(* An exception is not answered.                                           *)
LEMMA ExceptionType == /\ Exception \in Packets /\ Exception.class = "exception" /\ Fits(Exception)
                       /\ Exception.class \notin Answered
BY DEF Exception, Packets, Fits, Answered

(* What is unread begins with a frame.                                     *)
LEMMA FirstUnread ==
    ASSUME ReceivingInv
    PROVE  /\ Len(received) \in Nat /\ Len(frames) \in Nat
           /\ Behind(FrameBytes, Len(received)) \in Seq(Bytes)
           /\ Behind(FrameBytes, Len(received)) # << >> =>
                 /\ Len(received) < Len(frames)
                 /\ \E c : /\ WellFormed(c) /\ c \in Seq(Bytes)
                           /\ frames[Len(received) + 1].bytes = Counted(c)
                           /\ Behind(FrameBytes, Len(received) + 1) \in Seq(Bytes)
                           /\ Behind(FrameBytes, Len(received))
                                 = VarInt[Len(c)] \o (c \o Behind(FrameBytes, Len(received) + 1))
<1> DEFINE n == Len(received)
<1>1. /\ FrameBytes \in Seq(Seq(Bytes)) /\ Len(FrameBytes) = Len(frames) /\ Len(frames) \in Nat
      /\ n \in Nat /\ n <= Len(frames)
  BY FrameBytesType DEF ReceivingInv, ReceivingAligned
<1> HIDE DEF n
<1>2. Behind(FrameBytes, n) \in Seq(Bytes) BY <1>1, BehindTake
<1>3. ASSUME Behind(FrameBytes, n) # << >>
      PROVE  /\ n < Len(frames)
             /\ \E c : /\ WellFormed(c) /\ c \in Seq(Bytes)
                       /\ frames[n + 1].bytes = Counted(c)
                       /\ Behind(FrameBytes, n + 1) \in Seq(Bytes)
                       /\ Behind(FrameBytes, n) = VarInt[Len(c)] \o (c \o Behind(FrameBytes, n + 1))
  <2>1. Behind(FrameBytes, Len(FrameBytes)) = << >> BY <1>1, BehindTake
  <2>2. n # Len(frames) BY <1>1, <1>3, <2>1
  <2>3. n < Len(FrameBytes) /\ n + 1 \in Nat /\ n + 1 <= Len(FrameBytes) BY <1>1, <2>2
  <2>4. Behind(FrameBytes, n) = FrameBytes[n + 1] \o Behind(FrameBytes, n + 1)
    BY <1>1, <2>3, BehindTake
  <2>5. PICK rest \in Seq(Bytes) : rest = Behind(FrameBytes, n + 1) BY <1>1, <2>3, BehindTake
  <2>6. n + 1 \in DOMAIN frames BY <1>1, <2>3
  <2>7. FrameBytes[n + 1] = frames[n + 1].bytes BY <1>1, <2>3 DEF FrameBytes
  <2>8. PICK c : WellFormed(c) /\ frames[n + 1].bytes = Counted(c)
    BY <2>6 DEF ReceivingInv, ReceivingStages, FramesCounted
  <2>9. c \in Seq(Bytes) /\ Len(c) \in Nat BY <2>8 DEF WellFormed
  <2>10. VarInt[Len(c)] \in Seq(Bytes) BY <2>9, VarIntDef
  <2>11. Behind(FrameBytes, n) = (VarInt[Len(c)] \o c) \o rest BY <2>4, <2>5, <2>7, <2>8 DEF Counted
  <2>12. Behind(FrameBytes, n) = VarInt[Len(c)] \o (c \o rest) BY <2>5, <2>9, <2>10, <2>11, Associative
  <2>13. QED BY <2>1, <2>2, <2>3, <1>1, <2>5, <2>8, <2>9, <2>12
<1>4. QED BY <1>1, <1>2, <1>3 DEF n

(* Reading the length preserves it: the length is that of the first unread *)
(* frame.                                                                  *)
LEMMA LengthReceived == ASSUME ReceivingInv, ReceiveLength PROVE ReceivingInv'
<1> DEFINE r == ReadVarInt(Reader(toClient))
<1>1. /\ pc = "length" /\ r.ok /\ length' = Last(r.got) /\ toClient' = r.left /\ pc' = "body"
      /\ UNCHANGED <<state, threshold, toServer, conn, frames, received, afterEnd, sent, serverGot>>
  BY DEF ReceiveLength
<1>2. toClient \in Seq(Bytes) /\ toClient # << >> /\ afterEnd = << >> /\ conn # "reported"
  <2>1. toClient \in Seq(Bytes) BY DEF ReceivingInv, ReceivingTypes
  <2>2. toClient # << >> BY <1>1, NothingRead
  <2>3. QED BY <2>1, <2>2 DEF ReceivingInv, ReceivingStages
<1>3. PICK t \in Seq(Bytes) : /\ toClient \o t = Behind(FrameBytes, Len(received))
                              /\ conn = "open" => t = << >>
  BY <1>1, <1>2 DEF ReceivingInv, ReceivingAligned, Unread
<1>4. Behind(FrameBytes, Len(received)) # << >> BY <1>2, <1>3
<1>5. PICK c \in Seq(Bytes), rest \in Seq(Bytes) :
         Behind(FrameBytes, Len(received)) = VarInt[Len(c)] \o (c \o rest)
  BY <1>4, FirstUnread
<1>6. Len(c) \in Nat /\ c \o rest \in Seq(Bytes) BY Associative
<1> HIDE DEF r
<1>7. PICK d \in Seq(Bytes) : r = [ok |-> TRUE, left |-> d, got |-> <<Len(c)>>] /\ d \o t = c \o rest
  <2>1. PICK l \in Nat, x \in Seq(Bytes) : l = Len(c) /\ x = c \o rest BY <1>6
  <2>2. PICK b \in Seq(Bytes) : b = toClient BY <1>2
  <2>3. ReadVarInt(Reader(b)).ok BY <1>1, <2>2 DEF r
  <2>4. b \o t = VarInt[l] \o x BY <1>3, <1>5, <2>1, <2>2
  <2>5. NumberIn(b, l, t, x) BY <2>3, <2>4, PartOfNumber
  <2>6. QED BY <2>1, <2>2, <2>5 DEF r, NumberIn
<1>8. toClient' = d /\ length' = Len(c)
  <2>1. r.got = <<Len(c)>> /\ r.left = d BY <1>7
  <2>2. Last(<<Len(c)>>) = Len(c) BY DEF Last
  <2>3. QED BY <1>1, <2>1, <2>2
<1>9. ReceivingTypes' BY <1>1, <1>6, <1>8 DEF ReceivingInv, ReceivingTypes
<1>10. FramesCounted' /\ FrameBytes' = FrameBytes /\ ReceivedFit'
  BY <1>1, FramesKept, ReceivedSame DEF ReceivingInv, ReceivingStages
<1>11. ReceivingStages' BY <1>1, <1>2, <1>10 DEF ReceivingStages
<1>12. Unread' \o t = Behind(FrameBytes, Len(received))
  <2>1. Unread' = VarInt[Len(c)] \o d BY <1>1, <1>8 DEF Unread
  <2>2. VarInt[Len(c)] \in Seq(Bytes) BY <1>6, VarIntDef
  <2>3. (VarInt[Len(c)] \o d) \o t = VarInt[Len(c)] \o (d \o t) BY <2>2, Associative
  <2>4. QED BY <1>5, <1>7, <2>1, <2>3
<1>13. \E u \in Seq(Bytes) : /\ Unread' \o u = Behind(FrameBytes', Len(received'))
                             /\ conn' = "open" => u = << >>
  BY <1>1, <1>3, <1>10, <1>12
<1>14. ReceivingAligned' BY <1>1, <1>13 DEF ReceivingInv, ReceivingAligned
<1>15. QED BY <1>9, <1>11, <1>14 DEF ReceivingInv


(* The body of a frame is behind its length: it is what the server packed, *)
(* and behind it is the next frame.                                        *)
LEMMA BodyOfFrame ==
    ASSUME ReceivingInv, pc = "body", Len(toClient) >= length, conn # "reported"
    PROVE  /\ afterEnd = << >> /\ Len(received) < Len(frames)
           /\ WellFormed(SubSeq(toClient, 1, length))
           /\ frames[Len(received) + 1].bytes = Counted(SubSeq(toClient, 1, length))
           /\ SubSeq(toClient, length + 1, Len(toClient)) \in Seq(Bytes)
           /\ \E t \in Seq(Bytes) :
                 /\ SubSeq(toClient, length + 1, Len(toClient)) \o t = Behind(FrameBytes, Len(received) + 1)
                 /\ conn = "open" => t = << >>
<1>1. PICK s \in Seq(Bytes), n \in Nat : s = toClient /\ n = length BY DEF ReceivingInv, ReceivingTypes
<1>2. afterEnd = << >> BY DEF ReceivingInv, ReceivingStages
<1>3. PICK t \in Seq(Bytes) : /\ (VarInt[n] \o s) \o t = Behind(FrameBytes, Len(received))
                              /\ conn = "open" => t = << >>
  BY <1>1, <1>2 DEF ReceivingInv, ReceivingAligned, Unread
<1>4. VarInt[n] \in Seq(Bytes) /\ VarInt[n] # << >> BY <1>1, VarIntComplete DEF Complete
<1>5. s \o t \in Seq(Bytes) /\ Behind(FrameBytes, Len(received)) = VarInt[n] \o (s \o t)
  BY <1>3, <1>4, Associative
<1>6. Behind(FrameBytes, Len(received)) # << >> BY <1>4, <1>5
<1>7. PICK c \in Seq(Bytes), rest \in Seq(Bytes) :
         /\ WellFormed(c) /\ rest = Behind(FrameBytes, Len(received) + 1)
         /\ frames[Len(received) + 1].bytes = Counted(c)
         /\ Behind(FrameBytes, Len(received)) = VarInt[Len(c)] \o (c \o rest)
  BY <1>6, FirstUnread
<1>8. Len(c) \in Nat /\ c \o rest \in Seq(Bytes) BY Associative
<1>9. n = Len(c) /\ s \o t = c \o rest
  <2>1. PICK l \in Nat, x \in Seq(Bytes), y \in Seq(Bytes) : l = Len(c) /\ x = c \o rest /\ y = s \o t
    BY <1>5, <1>8
  <2>2. VarInt[n] \o y = VarInt[l] \o x BY <1>5, <1>7, <2>1
  <2>3. ReadVarInt(Reader(VarInt[n] \o y)) = [ok |-> TRUE, left |-> y, got |-> <<n>>] BY ReadNumber
  <2>4. ReadVarInt(Reader(VarInt[l] \o x)) = [ok |-> TRUE, left |-> x, got |-> <<l>>] BY ReadNumber
  <2>5. [ok |-> TRUE, left |-> y, got |-> <<n>>] = [ok |-> TRUE, left |-> x, got |-> <<l>>]
    BY <2>2, <2>3, <2>4
  <2>6. y = x /\ n = l BY <2>5
  <2>7. QED BY <2>1, <2>6
<1>10. n \in 0..Len(s) BY <1>1
<1>11. PICK body \in Seq(Bytes), left \in Seq(Bytes) :
          /\ body = SubSeq(s, 1, n) /\ left = SubSeq(s, n + 1, Len(s)) /\ Len(body) = n /\ s = body \o left
  <2>1. /\ SubSeq(s, 1, n) \in Seq(Bytes) /\ Len(SubSeq(s, 1, n)) = n
        /\ SubSeq(s, n + 1, Len(s)) \in Seq(Bytes)
        /\ s = SubSeq(s, 1, n) \o SubSeq(s, n + 1, Len(s))
    BY <1>10, Cut
  <2>2. QED BY <2>1
<1>12. left \o t \in Seq(Bytes) /\ body \o (left \o t) = c \o rest
  <2>1. left \o t \in Seq(Bytes) BY Associative
  <2>2. (body \o left) \o t = body \o (left \o t) BY AnyThree, ZenonT(30)
  <2>3. QED BY <1>9, <1>11, <2>1, <2>2
<1>13. body = c /\ left \o t = rest
  <2>1. PICK u \in Seq(Bytes) : u = left \o t BY <1>12
  <2>2. body \o u = c \o rest /\ Len(body) = Len(c) BY <1>9, <1>11, <1>12, <2>1
  <2>3. body = c /\ u = rest BY <2>2, SameLength
  <2>4. QED BY <2>1, <2>3
<1>14. Len(received) < Len(frames) BY <1>6, FirstUnread
<1>15. QED BY <1>1, <1>2, <1>3, <1>7, <1>11, <1>13, <1>14

(* What the body becomes; behind the error, an exception.                  *)
LEMMA BodyOutcome ==
    ASSUME ReceivingInv, ReceiveBody
    PROVE  \E p \in Packets : /\ Outcome(p) /\ Fits(p)
                              /\ p.class \in Parsed(state) \cup {"null", "exception"}
                              /\ conn = "reported" => p = Exception
<1> DEFINE body == SubSeq(toClient, 1, length)
<1>1. pc = "body" /\ Len(toClient) >= length BY DEF ReceiveBody
<1>2. PICK p : Outcome(p) /\ (p = Exception \/ \E bytes \in Unpacked(body) : p = ReceivePacketByPacketId(bytes))
  BY DEF ReceiveBody
<1>3. state \in {"Status", "Login", "Play"} /\ threshold \in Int BY StatesType DEF ReceivingInv
<1>4. CASE p = Exception BY <1>2, <1>4, ExceptionType
<1>5. CASE conn = "reported"
  <2>1. toClient = << >> /\ length = 0
    <3>1. toClient = << >> BY <1>5 DEF ReceivingInv, ReceivingStages
    <3>2. length \in Nat BY DEF ReceivingInv, ReceivingTypes
    <3>3. QED BY <1>1, <3>1, <3>2
  <2>2. body = Blank(0) BY <2>1 DEF Blank
  <2> HIDE DEF body
  <2>3. p = Exception BY <1>2, <1>3, <2>2, BlankReceived
  <2>4. QED BY <1>4, <2>3
<1>6. CASE conn # "reported" /\ \E bytes \in Unpacked(body) : p = ReceivePacketByPacketId(bytes)
  <2>1. WellFormed(body) BY <1>1, <1>6, BodyOfFrame
  <2> HIDE DEF body
  <2>2. Unpacked(body) \subseteq Seq(Bytes) BY <1>3, <2>1, UnpackedType
  <2>3. PICK bytes \in Seq(Bytes) : p = ReceivePacketByPacketId(bytes) BY <1>6, <2>2
  <2>4. p \in Packets /\ p.class \in Parsed(state) \cup {"null", "exception"} /\ Fits(p)
    BY <1>3, <2>3, ReceivedType
  <2>5. QED BY <1>2, <1>6, <2>4
<1>7. QED BY <1>2, <1>4, <1>5, <1>6

(* Taking the body out of the stream preserves it.                         *)
LEMMA BodyReceived == ASSUME ReceivingInv, ReceiveBody PROVE ReceivingInv'
<1> DEFINE body == SubSeq(toClient, 1, length)
           left == SubSeq(toClient, length + 1, Len(toClient))
<1>1. /\ pc = "body" /\ Len(toClient) >= length /\ toClient' = left
      /\ UNCHANGED <<state, threshold, length, toServer, conn, frames, sent, serverGot>>
  BY DEF ReceiveBody
<1>2. PICK p \in Packets : /\ Outcome(p) /\ Fits(p)
                           /\ p.class \in Parsed(state) \cup {"null", "exception"}
                           /\ conn = "reported" => p = Exception
  BY BodyOutcome
<1>4. FramesCounted' /\ FrameBytes' = FrameBytes BY <1>1, FramesKept DEF ReceivingInv, ReceivingStages
<1>5. pc' = After(p) /\ pc' # "body" /\ pc' \in {"length", "reply", "ended"} BY <1>2, AfterType DEF Outcome
<1>6. CASE conn = "reported"
  <2>1. toClient = << >> /\ length = 0
    <3>1. toClient = << >> BY <1>6 DEF ReceivingInv, ReceivingStages
    <3>2. length \in Nat BY DEF ReceivingInv, ReceivingTypes
    <3>3. QED BY <1>1, <3>1, <3>2
  <2>2. left = << >> BY <2>1
  <2>3. p = Exception BY <1>2, <1>6
  <2>4. pc' = "ended" /\ afterEnd' = Append(afterEnd, p) /\ received' = received
    BY <1>2, <1>5, <1>6, <2>3, AfterType DEF Outcome
  <2>5. /\ afterEnd' \in Seq(Packets)
        /\ \A k \in DOMAIN afterEnd' : afterEnd'[k].class \in Parsed(state') \cup {"exception"}
    BY <1>1, <2>3, <2>4, ExceptionType, EndMore DEF ReceivingInv
  <2> HIDE DEF body, left
  <2>6. toClient' = << >> BY <1>1, <2>2
  <2>7. ReceivingTypes' BY <1>1, <2>4, <2>5, <2>6 DEF ReceivingInv, ReceivingTypes
  <2>8. ReceivedFit' BY <1>1, <2>4, ReceivedSame DEF ReceivingInv, ReceivingStages
  <2>9. ReceivingStages' BY <1>1, <1>4, <1>6, <2>4, <2>5, <2>6, <2>8 DEF ReceivingInv, ReceivingStages
  <2>10. ReceivingAligned' BY <1>1, <1>6, <2>4 DEF ReceivingInv, ReceivingAligned
  <2>11. QED BY <2>7, <2>9, <2>10 DEF ReceivingInv
<1>7. CASE conn # "reported"
  <2>1. received' = Append(received, p) /\ afterEnd' = afterEnd BY <1>2, <1>7 DEF Outcome
  <2> HIDE DEF body, left
  <2>2. /\ afterEnd = << >> /\ Len(received) < Len(frames) /\ WellFormed(body) /\ left \in Seq(Bytes)
        /\ \E t \in Seq(Bytes) : /\ left \o t = Behind(FrameBytes, Len(received) + 1)
                                 /\ conn = "open" => t = << >>
    BY <1>1, <1>7, BodyOfFrame DEF body, left
  <2>4. /\ ReceivedFit' /\ received' \in Seq(Packets) /\ received' # << >> /\ Last(received') = p
        /\ Len(received') = Len(received) + 1
    BY <1>1, <1>2, <2>1, ReceivedMore DEF ReceivingInv, ReceivingStages
  <2>5. ReceivingTypes' BY <1>1, <1>5, <2>1, <2>2, <2>4 DEF ReceivingInv, ReceivingTypes
  <2>6. pc' = "reply" => Last(received').class \in Answered BY <1>5, <2>4, AfterType
  <2>7. ReceivingStages' BY <1>1, <1>4, <1>7, <2>1, <2>2, <2>4, <2>6 DEF ReceivingInv, ReceivingStages
  <2>8. Unread' = left BY <1>1, <1>5 DEF Unread
  <2>9. \E u \in Seq(Bytes) : /\ Unread' \o u = Behind(FrameBytes', Len(received'))
                              /\ conn' = "open" => u = << >>
    BY <1>1, <1>4, <2>2, <2>4, <2>8
  <2>10. Len(received') <= Len(frames')
    <3>1. Len(received) \in Nat /\ Len(frames) \in Nat BY FirstUnread
    <3>2. QED BY <1>1, <2>2, <2>4, <3>1
  <2>11. ReceivingAligned' BY <2>9, <2>10 DEF ReceivingAligned
  <2>12. QED BY <2>5, <2>7, <2>11 DEF ReceivingInv
<1>8. QED BY <1>6, <1>7

(* Behind the error a packet is returned that is not answered.             *)
LEMMA ErrorOutcome ==
    ASSUME ReceivingInv, ReceiveAtError, pc = "body"
    PROVE  \E p \in Packets : /\ p.class \in Parsed(state) \cup {"exception"} /\ p.class \notin Answered
                              /\ OutcomeAtEnd(p) /\ pc' \in {"length", "ended"}
<1>1. PICK p : /\ OutcomeAtEnd(p)
               /\ \/ p = Exception
                  \/ \E bytes \in Unpacked([j \in 1..length |-> 0]) : p = ReceivePacketByPacketId(bytes)
  BY DEF ReceiveAtError
<1>2. state \in {"Status", "Login", "Play"} /\ threshold \in Int BY StatesType DEF ReceivingInv
<1>3. length \in Nat BY DEF ReceivingInv, ReceivingTypes
<1>4. p \in Packets /\ p.class \in Parsed(state) \cup {"exception"} /\ p.class \notin Answered
  <2>1. CASE p = Exception BY <2>1, ExceptionType
  <2>2. CASE \E bytes \in Unpacked(Blank(length)) : p = ReceivePacketByPacketId(bytes)
    BY <1>2, <1>3, <2>2, BlankReceived
  <2>3. QED BY <1>1, <2>1, <2>2 DEF Blank
<1>5. pc' = After(p) BY <1>1 DEF OutcomeAtEnd
<1>6. pc' \in {"length", "ended"} BY <1>4, <1>5, AfterType
<1>7. QED BY <1>1, <1>4, <1>6

(* The error preserves it.                                                 *)
LEMMA ErrorReceived == ASSUME ReceivingInv, ReceiveAtError PROVE ReceivingInv'
<1>1. /\ conn = "reset" /\ conn' = "reported" /\ toClient' = << >>
      /\ UNCHANGED <<state, threshold, toServer, frames, received, sent, serverGot>>
  BY DEF ReceiveAtError
<1>3. FramesCounted' /\ ReceivedFit' BY <1>1, FramesKept, ReceivedSame DEF ReceivingInv, ReceivingStages
<1>4. ReceivingAligned' BY <1>1 DEF ReceivingInv, ReceivingAligned
<1>5. CASE pc = "length"
  <2>1. /\ pc' = "body" /\ length' = Last(ReadVarInt(Reader(Append(toClient, 0))).got)
        /\ afterEnd' = afterEnd
    BY <1>5 DEF ReceiveAtError
  <2>2. toClient \in Seq(Bytes) BY DEF ReceivingInv, ReceivingTypes
  <2>3. length' \in Nat BY <2>1, <2>2, ZeroEnds
  <2>4. ReceivingTypes' BY <1>1, <2>1, <2>3 DEF ReceivingInv, ReceivingTypes
  <2>5. ReceivingStages' BY <1>1, <1>3, <1>5, <2>1 DEF ReceivingInv, ReceivingStages
  <2>6. QED BY <1>4, <2>4, <2>5 DEF ReceivingInv
<1>6. CASE pc = "body"
  <2>1. PICK p \in Packets : /\ p.class \in Parsed(state) \cup {"exception"}
                             /\ OutcomeAtEnd(p) /\ pc' \in {"length", "ended"}
    BY <1>6, ErrorOutcome
  <2>2. length' = length BY <1>6 DEF ReceiveAtError
  <2>5. afterEnd' = Append(afterEnd, p) BY <2>1 DEF OutcomeAtEnd
  <2>7. /\ afterEnd' \in Seq(Packets)
        /\ \A k \in DOMAIN afterEnd' : afterEnd'[k].class \in Parsed(state') \cup {"exception"}
    BY <1>1, <2>1, <2>5, EndMore DEF ReceivingInv
  <2>8. ReceivingTypes' BY <1>1, <2>1, <2>2, <2>7 DEF ReceivingInv, ReceivingTypes
  <2>9. ReceivingStages' BY <1>1, <1>3, <2>1, <2>7 DEF ReceivingInv, ReceivingStages
  <2>10. QED BY <1>4, <2>8, <2>9 DEF ReceivingInv
<1>7. QED BY <1>5, <1>6 DEF ReceiveAtError

(* The end of the stream preserves it.                                     *)
LEMMA EndReceived == ASSUME ReceivingInv, ReceiveAtEnd PROVE ReceivingInv'
<1>1. /\ conn \in {"closed", "reported", "reset"} /\ toClient' = << >> /\ OutcomeAtEnd(Exception)
      /\ UNCHANGED <<state, threshold, length, toServer, conn, frames, received, sent, serverGot>>
  BY DEF ReceiveAtEnd
<1>2. afterEnd' = Append(afterEnd, Exception) /\ pc' = "ended" BY <1>1, AfterType DEF OutcomeAtEnd
<1>3. /\ afterEnd' \in Seq(Packets)
      /\ \A k \in DOMAIN afterEnd' : afterEnd'[k].class \in Parsed(state') \cup {"exception"}
  BY <1>1, <1>2, ExceptionType, EndMore DEF ReceivingInv
<1>4. afterEnd' # << >>
  <2>1. afterEnd \in Seq(Packets) BY DEF ReceivingInv, ReceivingTypes
  <2>2. QED BY <1>2, <2>1
<1>5. FramesCounted' /\ ReceivedFit' BY <1>1, FramesKept, ReceivedSame DEF ReceivingInv, ReceivingStages
<1>6. ReceivingTypes' BY <1>1, <1>2, <1>3 DEF ReceivingInv, ReceivingTypes
<1>7. ReceivingStages' BY <1>1, <1>2, <1>3, <1>5 DEF ReceivingInv, ReceivingStages
<1>8. ReceivingAligned' BY <1>1, <1>4 DEF ReceivingInv, ReceivingAligned
<1>9. QED BY <1>6, <1>7, <1>8 DEF ReceivingInv


(* Sending leaves the other direction alone, and ends it or reads on.      *)
LEMMA SendingKeeps ==
    ASSUME ReceivingInv, pc \in {"length", "reply"}, pc' \in {"length", "ended"},
           UNCHANGED <<state, threshold, length, toClient, conn, frames, received, afterEnd>>
    PROVE  ReceivingInv'
<1>1. FramesCounted' /\ FrameBytes' = FrameBytes /\ ReceivedFit'
  BY FramesKept, ReceivedSame DEF ReceivingInv, ReceivingStages
<1>2. Unread' = Unread BY DEF Unread
<1>3. Parsed(state)' = Parsed(state) OBVIOUS
<1>4. ReceivingTypes' BY DEF ReceivingInv, ReceivingTypes
<1>5. ReceivingStages' BY <1>1, <1>3 DEF ReceivingInv, ReceivingStages
<1>6. ReceivingAligned' BY <1>1, <1>2 DEF ReceivingInv, ReceivingAligned
<1>7. QED BY <1>4, <1>5, <1>6 DEF ReceivingInv

(* What the server sends is one of the frames.                             *)
LEMMA FrameIsRecord ==
    ASSUME ReceivingTypes, NEW class, NEW n \in Ns, NEW content \in Contents, NEW packing \in Packings,
           class \in Parsed(state) \cup {"EntityAnimationCB"},
           content # "whole" => packing \in {"plain", "zlib"}
    PROVE  /\ class \in DOMAIN Id /\ Values(class, n) \in Seq(FieldValues)
           /\ Frame(Body(class, n, content), packing) \in Seq(Bytes)
           /\ \E c : WellFormed(c) /\ Frame(Body(class, n, content), packing) = Counted(c)
<1>1. class \in DOMAIN Id BY StatesType, IdType
<1>2. Values(class, n) \in Seq(FieldValues)
  <2>1. CASE class \in DOMAIN Fields BY <2>1, ValuesFit DEF Fitting
  <2>2. CASE class \notin DOMAIN Fields
    <3> DEFINE p == Pattern(1, n)
    <3>1. Values(class, n) = <<p>>
      <4>1. "WindowItems" \in DOMAIN Element BY DEF Element
      <4>2. QED BY <2>2, <4>1, ElementType DEF Values
    <3>2. p \in Seq(Bytes) BY FramingAssumption, PatternType DEF Wide
    <3> HIDE DEF p
    <3>3. p \in FieldValues BY <3>2 DEF FieldValues
    <3>4. QED BY <3>1, <3>3
  <2>3. QED BY <2>1, <2>2
<1>3. PICK b \in Seq(Bytes) : b = Body(class, n, content) /\ (content # "cut" => b # << >>)
  BY <1>1, BodyType
<1>4. packing = "tooShort" => b # << >> BY <1>3
<1>5. PICK c : WellFormed(c) /\ Frame(b, packing) = Counted(c) BY <1>4, StatesType, FrameIsCounted
<1>6. Frame(b, packing) \in Seq(Bytes) BY <1>5, CountedType DEF WellFormed
<1>7. QED BY <1>1, <1>2, <1>3, <1>5, <1>6

(* A frame sent preserves it: its bytes are behind the others.             *)
LEMMA FrameSent ==
    ASSUME ReceivingInv, NEW class, NEW n \in Ns, NEW content \in Contents, NEW packing \in Packings,
           ServerSend(class, n, content, packing)
    PROVE  ReceivingInv'
<1> DEFINE new == Frame(Body(class, n, content), packing)
           frame == [class |-> class, values |-> Values(class, n), bytes |-> new,
                     content |-> content, packing |-> packing]
<1>1. /\ conn = "open" /\ class \in Parsed(state) \cup {"EntityAnimationCB"}
      /\ content # "whole" => packing \in {"plain", "zlib"}
      /\ toClient' = toClient \o new /\ frames' = Append(frames, frame)
      /\ UNCHANGED <<state, threshold, pc, length, toServer, conn, received, afterEnd, sent, serverGot>>
  BY DEF ServerSend
<1>2. /\ class \in DOMAIN Id /\ Values(class, n) \in Seq(FieldValues)
      /\ new \in Seq(Bytes) /\ \E c : WellFormed(c) /\ new = Counted(c)
  BY <1>1, FrameIsRecord DEF ReceivingInv
<1> HIDE DEF new
<1>3. frame \in FrameRecords /\ frame.bytes = new BY <1>2 DEF FrameRecords
<1> HIDE DEF frame
<1>4. /\ frames \in Seq(FrameRecords) /\ toClient \in Seq(Bytes) /\ received \in Seq(Packets)
      /\ length \in Nat /\ afterEnd = << >>
  BY <1>1 DEF ReceivingInv, ReceivingTypes, ReceivingStages
<1>5. /\ Len(frames) \in Nat /\ Append(frames, frame) \in Seq(FrameRecords)
      /\ Len(Append(frames, frame)) = Len(frames) + 1
      /\ Append(frames, frame)[Len(frames) + 1] = frame
      /\ \A k \in 1..Len(frames) : Append(frames, frame)[k] = frames[k]
  BY <1>3, <1>4
<1>6. FramesCounted'
  <2>1. \A b : WellFormed(b)' <=> WellFormed(b) BY <1>1 DEF WellFormed
  <2>2. \A k \in DOMAIN frames' : frames'[k] = frame \/ \E j \in DOMAIN frames : frames'[k] = frames[j]
    BY <1>1, <1>4, <1>5
  <2>3. \A k \in DOMAIN frames' : \E c : WellFormed(c) /\ frames'[k].bytes = Counted(c)
    BY <1>2, <1>3, <2>2 DEF ReceivingInv, ReceivingStages, FramesCounted
  <2>4. QED BY <2>1, <2>3 DEF FramesCounted
<1>7. ReceivedFit' BY <1>1, ReceivedSame DEF ReceivingInv, ReceivingStages
<1>8. ReceivingTypes'
  <2>1. toClient \o new \in Seq(Bytes) BY <1>2, <1>4
  <2>2. QED BY <1>1, <1>5, <2>1 DEF ReceivingInv, ReceivingTypes
<1>9. ReceivingStages' BY <1>1, <1>4, <1>6, <1>7 DEF ReceivingInv, ReceivingStages
<1>10. Behind(FrameBytes', Len(received)) = Behind(FrameBytes, Len(received)) \o new
  <2>1. PICK p \in Seq(Seq(Bytes)) : p = FrameBytes /\ Len(p) = Len(frames)
    BY FrameBytesType DEF ReceivingInv
  <2>2. FrameBytes' = Append(p, new)
    <3>1. FrameBytes' = [k \in 1..(Len(frames) + 1) |-> frames'[k].bytes] BY <1>1, <1>5 DEF FrameBytes
    <3>2. \A k \in 1..Len(frames) : frames'[k].bytes = p[k] BY <1>1, <1>5, <2>1 DEF FrameBytes
    <3>3. frames'[Len(frames) + 1].bytes = new BY <1>1, <1>3, <1>5
    <3> DEFINE q == [k \in 1..(Len(frames) + 1) |-> frames'[k].bytes]
    <3>4. /\ DOMAIN q = 1..(Len(frames) + 1) /\ q[Len(frames) + 1] = new
          /\ \A k \in 1..Len(frames) : q[k] = p[k]
      BY <1>5, <3>2, <3>3
    <3>5. q = [k \in 1..(Len(frames) + 1) |-> q[k]] OBVIOUS
    <3> HIDE DEF q
    <3>6. Len(frames) = Len(p) BY <2>1
    <3>7. \A k \in 1..(Len(frames) + 1) : q[k] = Append(p, new)[k]
      <4> SUFFICES ASSUME NEW k \in 1..(Len(frames) + 1) PROVE q[k] = Append(p, new)[k] OBVIOUS
      <4>1. CASE k \in 1..Len(p) BY <3>4, <3>6, <4>1
      <4>2. CASE k = Len(p) + 1 BY <3>4, <3>6, <4>2
      <4>3. QED BY <1>5, <3>6, <4>1, <4>2
    <3>8. Append(p, new) = [k \in 1..(Len(frames) + 1) |-> Append(p, new)[k]]
      <4>1. Append(p, new) \in Seq(Seq(Bytes)) /\ Len(Append(p, new)) = Len(frames) + 1 BY <1>2, <3>6
      <4>2. \A w \in Seq(Seq(Bytes)) : w = [k \in 1..Len(w) |-> w[k]] BY ByIndex
      <4>3. PICK w \in Seq(Seq(Bytes)) : w = Append(p, new) BY <4>1
      <4>4. w = [k \in 1..(Len(frames) + 1) |-> w[k]] BY <4>1, <4>2, <4>3
      <4>5. QED BY <4>3, <4>4
    <3>9. q = Append(p, new) BY <3>5, <3>7, <3>8
    <3>10. QED BY <3>1, <3>9 DEF q
  <2>3. Len(received) \in Nat /\ Len(received) <= Len(p)
    BY <1>4, <2>1 DEF ReceivingInv, ReceivingAligned
  <2>4. Behind(Append(p, new), Len(received)) = Behind(p, Len(received)) \o new
    BY <1>2, <2>3, BehindAppend
  <2>5. QED BY <2>1, <2>2, <2>4
<1>11. Unread' = Unread \o new /\ Unread \in Seq(Bytes)
  <2>1. CASE pc = "body"
    <3>1. VarInt[length] \in Seq(Bytes) BY <1>4, VarIntDef
    <3>2. Unread = VarInt[length] \o toClient /\ Unread' = VarInt[length] \o (toClient \o new)
      BY <1>1, <2>1 DEF Unread
    <3>3. QED BY <1>2, <1>4, <3>1, <3>2, Associative
  <2>2. CASE pc # "body" BY <1>1, <1>4, <2>2 DEF Unread
  <2>3. QED BY <2>1, <2>2
<1>12. Unread = Behind(FrameBytes, Len(received))
  <2>1. Unread \o << >> = Behind(FrameBytes, Len(received))
    BY <1>1, <1>4 DEF ReceivingInv, ReceivingAligned
  <2>2. \A u \in Seq(Bytes) : u \o << >> = u BY Neutral
  <2>3. QED BY <1>11, <2>1, <2>2
<1>13. \E t \in Seq(Bytes) : /\ Unread' \o t = Behind(FrameBytes', Len(received'))
                             /\ conn' = "open" => t = << >>
  <2>1. PICK u \in Seq(Bytes) : u = Unread \o new BY <1>2, <1>11, Associative
  <2>2. u \o << >> = u OBVIOUS
  <2>3. Unread' \o << >> = Behind(FrameBytes', Len(received')) BY <1>1, <1>10, <1>11, <1>12, <2>1, <2>2
  <2>4. << >> \in Seq(Bytes) BY Neutral
  <2>5. QED BY <2>3, <2>4
<1>14. ReceivingAligned'
  <2>1. Len(received) <= Len(frames) BY DEF ReceivingInv, ReceivingAligned
  <2>2. Len(received') <= Len(frames') BY <1>1, <1>4, <1>5, <2>1
  <2>3. QED BY <1>13, <2>2 DEF ReceivingAligned
<1>15. QED BY <1>8, <1>9, <1>14 DEF ReceivingInv

(* The end of the connection preserves it: a part of what is unread is     *)
(* left.                                                                   *)
LEMMA EndKeeps ==
    ASSUME ReceivingInv, NEW how \in {"closed", "reset"}, ConnectionEnds(how)
    PROVE  ReceivingInv'
<1>1. /\ conn = "open" /\ conn' = how
      /\ UNCHANGED <<state, threshold, pc, length, toServer, frames, received, afterEnd, sent, serverGot>>
  BY DEF ConnectionEnds
<1>2. PICK k \in 0..Len(toClient) : toClient' = SubSeq(toClient, 1, k) BY DEF ConnectionEnds
<1>3. toClient \in Seq(Bytes) /\ length \in Nat /\ afterEnd = << >>
  BY <1>1 DEF ReceivingInv, ReceivingTypes, ReceivingStages
<1>4. PICK s \in Seq(Bytes), a \in Seq(Bytes), t \in Seq(Bytes) :
         s = toClient /\ s = a \o t /\ toClient' = a
  <2>1. PICK s \in Seq(Bytes) : s = toClient BY <1>3
  <2>2. /\ SubSeq(s, 1, k) \in Seq(Bytes) /\ SubSeq(s, k + 1, Len(s)) \in Seq(Bytes)
        /\ s = SubSeq(s, 1, k) \o SubSeq(s, k + 1, Len(s))
    BY <2>1, Cut
  <2>3. QED BY <1>2, <2>1, <2>2
<1>5. Unread = Unread' \o t
  <2>1. CASE pc = "body"
    <3>1. VarInt[length] \in Seq(Bytes) BY <1>3, VarIntDef
    <3>2. Unread = VarInt[length] \o (a \o t) /\ Unread' = VarInt[length] \o a
      BY <1>1, <1>4, <2>1 DEF Unread
    <3>3. QED BY <3>1, <3>2, Associative
  <2>2. CASE pc # "body" BY <1>1, <1>4, <2>2 DEF Unread
  <2>3. QED BY <2>1, <2>2
<1>6. FramesCounted' /\ FrameBytes' = FrameBytes /\ ReceivedFit'
  BY <1>1, FramesKept, ReceivedSame DEF ReceivingInv, ReceivingStages
<1>7. ReceivingTypes' BY <1>1, <1>4 DEF ReceivingInv, ReceivingTypes
<1>8. ReceivingStages' BY <1>1, <1>3, <1>6 DEF ReceivingInv, ReceivingStages
<1>9. Unread = Behind(FrameBytes, Len(received))
  <2>1. Unread \o << >> = Behind(FrameBytes, Len(received))
    BY <1>1, <1>3 DEF ReceivingInv, ReceivingAligned
  <2>2. Unread \in Seq(Bytes)
    <3>1. VarInt[length] \in Seq(Bytes) BY <1>3, VarIntDef
    <3>2. QED BY <1>3, <3>1, Associative DEF Unread
  <2>3. \A u \in Seq(Bytes) : u \o << >> = u BY Neutral
  <2>4. QED BY <2>1, <2>2, <2>3
<1>10. Unread' \o t = Behind(FrameBytes', Len(received')) /\ conn' # "open" BY <1>1, <1>5, <1>6, <1>9
<1>11. ReceivingAligned' BY <1>1, <1>10 DEF ReceivingInv, ReceivingAligned
<1>12. QED BY <1>7, <1>8, <1>11 DEF ReceivingInv

(* Sending changes only what is sent.                                      *)
LEMMA SendPacketKeeps ==
    ASSUME NEW class, NEW values, NEW next \in {"length", "ended"}, SendPacket(class, values, next)
    PROVE  /\ pc' \in {"length", "ended"}
           /\ UNCHANGED <<state, threshold, length, toClient, conn, frames, received, afterEnd, serverGot>>
BY DEF SendPacket

(* Every step preserves it.                                                *)
LEMMA ReceivingStep == ReceivingInv /\ [Next]_vars => ReceivingInv'
<1> SUFFICES ASSUME ReceivingInv, [Next]_vars PROVE ReceivingInv' OBVIOUS
<1>1. CASE ReceiveLength BY <1>1, LengthReceived
<1>2. CASE ReceiveBody BY <1>2, BodyReceived
<1>3. CASE ReceiveAtError BY <1>3, ErrorReceived
<1>4. CASE ReceiveAtEnd BY <1>4, EndReceived
<1>5. CASE Reply
  <2>1. pc = "reply" /\ \E class, values : SendPacket(class, values, "length") BY <1>5 DEF Reply
  <2>2. QED BY <2>1, SendPacketKeeps, SendingKeeps
<1>6. ASSUME NEW class \in Sendable, NEW n \in Ns, Send(class, n) PROVE ReceivingInv'
  <2>1. pc = "length" /\ SendPacket(class, Kept(class, Samples(Written[class], n)), "length") BY <1>6 DEF Send
  <2>2. QED BY <2>1, SendPacketKeeps, SendingKeeps
<1>7. CASE ServerReceive
  <2>1. UNCHANGED Receiving BY <1>7 DEF ServerReceive, Receiving
  <2>2. QED BY <2>1, ReceivingUnchanged
<1>8. ASSUME NEW how \in {"closed", "reset"}, ConnectionEnds(how) PROVE ReceivingInv' BY <1>8, EndKeeps
<1>9. ASSUME NEW class \in First \cup Later, NEW n \in Ns, NEW content \in Contents, NEW packing \in Packings,
             ServerSend(class, n, content, packing)
      PROVE  ReceivingInv'
  BY <1>9, FrameSent
<1>10. CASE UNCHANGED vars
  <2>1. UNCHANGED Receiving BY <1>10 DEF vars, Receiving
  <2>2. QED BY <2>1, ReceivingUnchanged
<1>11. QED BY <1>1, <1>2, <1>3, <1>4, <1>5, <1>6, <1>7, <1>8, <1>9, <1>10 DEF Next, Client, Server

(* Every byte on its way to the client belongs to a frame it has not yet   *)
(* taken: what is unread, with the length of a body already begun put back *)
(* in front, is the frames behind the ones returned, cut short only by the *)
(* end of the connection (ReceivePacket, network.cpp:21-76).               *)
THEOREM ReceivingInvariant == Spec => []ReceivingInv
<1>1. QED BY ReceivingInit, ReceivingStep, PTL DEF Spec


(* A beginning is a prefix.                                                *)
LEMMA BeginningIsPrefix ==
    ASSUME NEW s \in Seq(Bytes), NEW t \in Seq(Bytes), NEW u, u = s \o t
    PROVE  IsPrefix(s, u)
<1>1. \A a, b \in Seq(Bytes) : /\ Len(a) <= Len(a \o b) /\ SubSeq(a \o b, 1, Len(a)) = a
                               /\ SubSeq(a, 1, Len(a)) = a
  OBVIOUS
<1>2. QED BY <1>1 DEF IsPrefix

(* Between two packets the client stands at the first byte of the next     *)
(* frame, whatever the packet before it held and whatever was thrown       *)
(* because of it: the body is taken out of the stream whole before it is   *)
(* looked at (network.cpp:21-76).                                          *)
THEOREM StandsBetweenFrames == Spec => []FrameAligned
<1>1. ReceivingInv => FrameAligned
  <2> SUFFICES ASSUME ReceivingInv, pc # "body", afterEnd = << >>
               PROVE  LET left == FlattenSeq([k \in 1..(Len(frames) - Len(received)) |->
                                                 frames[Len(received) + k].bytes])
                      IN IF conn = "open" THEN toClient = left ELSE IsPrefix(toClient, left)
    BY DEF FrameAligned
  <2> DEFINE parts == [k \in 1..(Len(frames) - Len(received)) |-> frames[Len(received) + k].bytes]
  <2>1. PICK n \in Nat, m \in Nat : n = Len(received) /\ m = Len(frames) /\ n <= m
    BY FirstUnread DEF ReceivingInv, ReceivingAligned
  <2>2. PICK p \in Seq(Seq(Bytes)) : p = FrameBytes /\ Len(p) = m
    BY <2>1, FrameBytesType DEF ReceivingInv
  <2>3. SubSeq(p, n + 1, m) = parts
    <3>1. \A w \in Seq(Seq(Bytes)) : m = Len(w) =>
             SubSeq(w, n + 1, m) = [k \in 1..(m - n) |-> w[n + k]]
      <4> SUFFICES ASSUME NEW w \in Seq(Seq(Bytes)), m = Len(w)
                   PROVE  SubSeq(w, n + 1, m) = [k \in 1..(m - n) |-> w[n + k]]
        OBVIOUS
      <4>a. \A i \in (n + 1)..m : i \in 1..Len(w) OBVIOUS
      <4>b. \A i \in (n + 1)..m : w[i] \in Seq(Bytes) BY <4>a
      <4>1. (\A i \in (n + 1)..m : w[i] \in Seq(Bytes)) /\ n + 1 \in Int /\ m \in Int BY <4>b
      <4>2. PICK x : x = SubSeq(w, n + 1, m) OBVIOUS
      <4>3. x \in Seq(Seq(Bytes)) BY <4>1, <4>2, SubSeqProperties
      <4>4. Len(x) = IF n + 1 <= m THEN m - (n + 1) + 1 ELSE 0 BY <4>1, <4>2, SubSeqProperties
      <4>5. \A i \in 1..(m - (n + 1) + 1) : x[i] = w[n + 1 + i - 1] BY <4>1, <4>2, SubSeqProperties
      <4>6. Len(x) = m - n BY <2>1, <4>4
      <4>7. \A i \in 1..(m - n) : x[i] = w[n + i]
        <5> TAKE i \in 1..(m - n)
        <5>1. i \in 1..(m - (n + 1) + 1) /\ n + 1 + i - 1 = n + i BY <2>1
        <5>2. QED BY <4>5, <5>1
      <4>8. \A y \in Seq(Seq(Bytes)) : y = [i \in 1..Len(y) |-> y[i]] BY ByIndex
      <4>9. x = [i \in 1..(m - n) |-> x[i]] BY <4>3, <4>6, <4>8
      <4>10. QED BY <4>2, <4>7, <4>9
    <3>2. \A k \in 1..(m - n) : p[n + k] = frames[n + k].bytes BY <2>1, <2>2 DEF FrameBytes
    <3>3. SubSeq(p, n + 1, m) = [k \in 1..(m - n) |-> p[n + k]] BY <2>2, <3>1
    <3>4. QED BY <2>1, <3>2, <3>3
  <2>4. FlattenSeq(parts) = Behind(FrameBytes, Len(received)) BY <2>1, <2>2, <2>3 DEF Behind
  <2> HIDE DEF parts
  <2>5. Behind(FrameBytes, Len(received)) \in Seq(Bytes) BY FirstUnread
  <2>6. toClient \in Seq(Bytes) BY DEF ReceivingInv, ReceivingTypes
  <2>7. CASE conn = "reported"
    <3>1. toClient = << >> BY <2>7 DEF ReceivingInv, ReceivingStages
    <3>2. \A u \in Seq(Bytes) : u = << >> \o u BY Neutral
    <3>3. IsPrefix(toClient, FlattenSeq(parts)) BY <2>4, <2>5, <2>6, <3>1, <3>2, BeginningIsPrefix
    <3>4. QED BY <2>7, <3>3 DEF parts
  <2>8. CASE conn # "reported"
    <3>1. PICK t \in Seq(Bytes) : /\ toClient \o t = Behind(FrameBytes, Len(received))
                                  /\ conn = "open" => t = << >>
      BY <2>8 DEF ReceivingInv, ReceivingAligned, Unread
    <3>2. IsPrefix(toClient, FlattenSeq(parts)) BY <2>4, <2>6, <3>1, BeginningIsPrefix
    <3>3. \A u \in Seq(Bytes) : u \o << >> = u BY Neutral
    <3>4. conn = "open" => toClient = FlattenSeq(parts) BY <2>4, <2>6, <3>1, <3>3
    <3>5. QED BY <3>2, <3>4 DEF parts
  <2>9. QED BY <2>7, <2>8
<1>2. QED BY <1>1, ReceivingInvariant, PTL


-----------------------------------------------------------------------------
(* Sending.  A packet the client sends, and what of it is counted.         *)
Messages == [class : Sendable, values : Seq(FieldValues)]

FitsWritten(p) == Fitting(Written[p.class], p.values)

SentBody(p) == IF threshold < 0 THEN VarInt[Id[p.class]] \o ToStream(p.class, p.values)
               ELSE VarInt[0] \o (VarInt[Id[p.class]] \o ToStream(p.class, p.values))

(* Three pieces one behind the other.                                      *)
LEMMA FlattenThree ==
    ASSUME NEW a \in Seq(Bytes), NEW b \in Seq(Bytes), NEW c \in Seq(Bytes)
    PROVE  FlattenSeq(<<a, b, c>>) = a \o (b \o c)
<1>1. /\ <<a>> \in Seq(Seq(Bytes)) /\ <<a, b>> \in Seq(Seq(Bytes))
      /\ <<a, b>> = Append(<<a>>, b) /\ <<a, b, c>> = Append(<<a, b>>, c)
  OBVIOUS
<1>2. FlattenSeq(<<a>>) = a BY FlattenOne
<1>3. FlattenSeq(<<a, b>>) = a \o b BY <1>1, <1>2, FlattenAppend
<1>4. FlattenSeq(<<a, b, c>>) = (a \o b) \o c BY <1>1, <1>3, FlattenAppend
<1>5. QED BY <1>4, Associative

(* A packet the client may send has an id, and is bytes.                   *)
LEMMA MessageType ==
    ASSUME NEW p \in Messages, FitsWritten(p)
    PROVE  /\ p.class \in Sendable /\ p.class \in DOMAIN Written /\ Id[p.class] \in Nat
           /\ Written[p.class] \in Seq(Kind) /\ p.values \in Seq(FieldValues)
           /\ VarInt[Id[p.class]] \in Seq(Bytes) /\ ToStream(p.class, p.values) \in Seq(Bytes)
           /\ p = Packet(p.class, p.values)
<1>1. p.class \in Sendable /\ p.values \in Seq(FieldValues) /\ p = Packet(p.class, p.values)
  BY DEF Messages, Packet
<1>2. p.class \in DOMAIN Written /\ Id[p.class] \in Nat /\ Written[p.class] \in Seq(Kind)
  BY <1>1, FramingAssumption, IdType, WrittenType
<1>3. VarInt[Id[p.class]] \in Seq(Bytes) BY <1>2, VarIntDef
<1>4. ToStream(p.class, p.values) \in Seq(Bytes) BY <1>2, WriteFieldsType DEF ToStream, FitsWritten
<1>5. QED BY <1>1, <1>2, <1>3, <1>4

(* The empty data length is one byte.                                      *)
LEMMA ZeroIsOneByte == VarInt[0] = <<0>> /\ VarInt[0] \in Seq(Bytes) /\ Len(VarInt[0]) = 1
<1>1. 0 \in Nat /\ 0 < Radix /\ 0 \in Bytes BY RadixAssumption DEF Bytes
<1>2. VarInt[0] = <<0>> BY <1>1, VarIntDef
<1>3. QED BY <1>1, <1>2

(* The size that is written in front is that of what follows.              *)
LEMMA PiecesCounted ==
    ASSUME NEW p \in Messages, FitsWritten(p), threshold \in Int
    PROVE  /\ SentBody(p) \in Seq(Bytes)
           /\ FlattenSeq(Pieces(p.class, p.values)) = Counted(SentBody(p))
<1>1. PICK id \in Seq(Bytes), fields \in Seq(Bytes) :
         id = VarInt[Id[p.class]] /\ fields = ToStream(p.class, p.values)
  BY MessageType
<1>2. Len(id) \in Nat /\ Len(fields) \in Nat OBVIOUS
<1>3. PICK content \in Seq(Bytes) : content = id \o fields /\ Len(content) = Len(id) + Len(fields)
  BY Associative
<1>4. CASE threshold < 0
  <2>1. PICK size \in Nat : size = Len(id) + Len(fields) BY <1>2
  <2>2. VarInt[size] \in Seq(Bytes) BY VarIntDef
  <2>3. Pieces(p.class, p.values) = <<VarInt[size], id, fields>> BY <1>1, <1>4, <2>1 DEF Pieces
  <2>4. FlattenSeq(<<VarInt[size], id, fields>>) = VarInt[size] \o (id \o fields) BY <2>2, FlattenThree
  <2>5. SentBody(p) = content BY <1>1, <1>3, <1>4 DEF SentBody
  <2>6. QED BY <1>3, <2>1, <2>3, <2>4, <2>5 DEF Counted
<1>5. CASE threshold >= 0
  <2>1. PICK size \in Nat : size = Len(id) + 1 + Len(fields) BY <1>2
  <2>2. VarInt[size] \in Seq(Bytes) BY VarIntDef
  <2>3. ~(threshold < 0) BY <1>5
  <2>4. Pieces(p.class, p.values) = <<VarInt[size], VarInt[0], id, fields>>
    BY <1>1, <2>1, <2>3 DEF Pieces
  <2>5. FlattenSeq(<<VarInt[size], VarInt[0], id, fields>>) = VarInt[size] \o (VarInt[0] \o (id \o fields))
    <3>1. PICK z \in Seq(Bytes) : z = VarInt[0] BY ZeroIsOneByte
    <3>2. PICK n \in Seq(Bytes) : n = VarInt[size] BY <2>2
    <3>3. <<n, z, id>> \in Seq(Seq(Bytes)) /\ <<n, z, id, fields>> = Append(<<n, z, id>>, fields) OBVIOUS
    <3>4. PICK e \in Seq(Bytes) : e = z \o id BY Associative
    <3>5. FlattenSeq(<<n, z, id>>) = n \o e BY <3>4, FlattenThree
    <3>6. FlattenSeq(<<n, z, id, fields>>) = (n \o e) \o fields BY <3>3, <3>5, FlattenAppend
    <3>7. (n \o e) \o fields = n \o (e \o fields) BY Associative
    <3>8. e \o fields = z \o (id \o fields) BY <3>4, Associative
    <3>9. QED BY <3>1, <3>2, <3>6, <3>7, <3>8
  <2>6. SentBody(p) = VarInt[0] \o content BY <1>1, <1>3, <2>3 DEF SentBody
  <2>7. VarInt[0] \o content \in Seq(Bytes) /\ Len(VarInt[0] \o content) = 1 + Len(content)
    BY ZeroIsOneByte, Associative
  <2>8. Len(VarInt[0] \o content) = size BY <1>2, <1>3, <2>1, <2>7
  <2>9. QED BY <1>3, <2>4, <2>5, <2>6, <2>7, <2>8 DEF Counted
<1>6. QED BY <1>4, <1>5

(* What the server makes of it.                                            *)
LEMMA ServerReads ==
    ASSUME NEW p \in Messages, FitsWritten(p), threshold \in Int, ~TooLarge(p.class, p.values)
    PROVE  LET body == Reader(SentBody(p))
               packet == IF threshold < 0 THEN body ELSE ReadVarInt(body)
               head == ReadVarInt(packet)
               class == ServerClass(Last(head.got))
               fields == ReadFields(Reader(head.left), Written[class])
           IN /\ threshold < 0 \/ Len(packet.left) < threshold
              /\ fields.ok /\ fields.left = << >> /\ Packet(class, fields.got) = p
<1> DEFINE body == Reader(SentBody(p))
           packet == IF threshold < 0 THEN body ELSE ReadVarInt(body)
           head == ReadVarInt(packet)
           class == ServerClass(Last(head.got))
           fields == ReadFields(Reader(head.left), Written[class])
<1>1. PICK id \in Nat, bytes \in Seq(Bytes) : id = Id[p.class] /\ bytes = ToStream(p.class, p.values)
  BY MessageType
<1>2. VarInt[id] \in Seq(Bytes) /\ VarInt[id] \o bytes \in Seq(Bytes) BY VarIntDef, ReadNumber
<1>3. head.left = bytes /\ Last(head.got) = id /\ (threshold < 0 \/ Len(packet.left) < threshold)
  <2>1. CASE threshold < 0
    <3>1. head = ReadVarInt(Reader(VarInt[id] \o bytes)) BY <1>1, <2>1 DEF SentBody
    <3>2. head = [ok |-> TRUE, left |-> bytes, got |-> <<id>>] BY <3>1, ReadNumber
    <3> HIDE DEF head
    <3>3. head.left = bytes /\ head.got = <<id>> BY <3>2
    <3>4. Last(<<id>>) = id BY DEF Last
    <3>5. QED BY <2>1, <3>3, <3>4
  <2>2. CASE threshold >= 0
    <3>1. ~(threshold < 0) BY <2>2
    <3>2. PICK d \in Seq(Bytes) : d = VarInt[id] \o bytes BY <1>2
    <3>3. SentBody(p) = VarInt[0] \o d BY <1>1, <3>1, <3>2 DEF SentBody
    <3>4. 0 \in Nat OBVIOUS
    <3>5. packet = [ok |-> TRUE, left |-> d, got |-> <<0>>] BY <3>1, <3>3, <3>4, ReadNumber
    <3>6. <<0>> \in Seq(FieldValues) BY DEF FieldValues
    <3> HIDE DEF packet
    <3>7. packet \in Readers /\ packet.left = VarInt[id] \o bytes /\ packet.ok /\ packet.got = <<0>>
      BY <3>2, <3>5, <3>6 DEF Readers
    <3> HIDE DEF head
    <3>8. head = Took(packet, bytes, id) BY <3>7, ReadWrittenVarInt DEF head
    <3>9. id \in FieldValues BY DEF FieldValues
    <3>10. Len(packet.left) < threshold
      <4>1. PICK v \in Seq(Bytes) : v = VarInt[id] BY <1>2
      <4>2. ~(Len(v) + 1 + Len(bytes) >= threshold)
        BY <1>1, <2>2, <4>1 DEF TooLarge, CountedSize
      <4>3. Len(v \o bytes) = Len(v) + Len(bytes) BY Associative
      <4>4. packet.left = v \o bytes BY <3>7, <4>1
      <4>5. Len(v) \in Nat /\ Len(bytes) \in Nat OBVIOUS
      <4>6. QED BY <4>2, <4>3, <4>4, <4>5
    <3>11. QED BY <3>7, <3>8, <3>9, <3>10, TookType
  <2>3. QED BY <2>1, <2>2
<1>4. class = p.class
  <2>1. p.class \in DOMAIN Written /\ p.class \in Sendable BY MessageType
  <2>2. \E c \in DOMAIN Written : c \in Sendable /\ Id[c] = id BY <1>1, <2>1
  <2>3. class = CHOOSE c \in DOMAIN Written : c \in Sendable /\ Id[c] = id BY <1>3 DEF ServerClass
  <2> HIDE DEF class
  <2>4. class \in Sendable /\ Id[class] = id BY <2>2, <2>3
  <2>5. QED BY <1>1, <2>1, <2>4, FramingAssumption
<1> HIDE DEF packet, head, class
<1>5. ReadFields(Reader(bytes \o << >>), Written[p.class]) = [ok |-> TRUE, left |-> << >>, got |-> p.values]
  <2>1. << >> \in Seq(Bytes) BY Neutral
  <2>2. Written[p.class] \in Seq(Kind) /\ Fitting(Written[p.class], p.values)
    BY MessageType DEF FitsWritten
  <2>3. QED BY <1>1, <2>1, <2>2, FieldsUndone DEF ToStream
<1>6. bytes \o << >> = bytes OBVIOUS
<1>7. fields = [ok |-> TRUE, left |-> << >>, got |-> p.values] BY <1>3, <1>4, <1>5, <1>6
<1> HIDE DEF fields
<1>8. fields.ok /\ fields.left = << >> /\ fields.got = p.values BY <1>7
<1>9. Packet(class, fields.got) = p BY <1>4, <1>8, MessageType
<1>10. QED BY <1>3, <1>8, <1>9 DEF fields, class, head, packet


-----------------------------------------------------------------------------
(* The inductive invariant of the sending side.                            *)
SentRecords == [packet : Messages, outcome : {"sent", "refused", "failed"}]

SendingTypes == /\ toServer \in Seq(Bytes)
                /\ sent \in Seq(SentRecords) /\ serverGot \in Seq(Messages)

\* Every packet has the values its class writes, and is refused when it is
\* too large.
SentFit ==
    \A k \in DOMAIN sent :
       /\ FitsWritten(sent[k].packet)
       /\ (sent[k].outcome = "refused") <=> TooLarge(sent[k].packet.class, sent[k].packet.values)

\* How many packets are sent completely: all, or all but the last, whose
\* exception has ended the thread.
Whole == IF sent # << >> /\ Last(sent).outcome # "sent" THEN Len(sent) - 1 ELSE Len(sent)

SentBytes == [k \in 1..Whole |-> Counted(SentBody(sent[k].packet))]

\* A piece of a packet that lacks some of its end.
Piece(t) == \E b \in Seq(Bytes), u \in Seq(Bytes) : u # << >> /\ t \o u = Counted(b)

\* The server gets the packets one by one, and what is under way to it is
\* where the packets begin that it has not got; behind them is a piece of the
\* one that failed.
SendingStages ==
    /\ \A k \in 1..Whole : sent[k].outcome = "sent"
    /\ Whole # Len(sent) => pc = "ended"
    /\ Len(serverGot) <= Whole
    /\ \A k \in 1..Len(serverGot) : serverGot[k] = sent[k].packet

SendingAligned ==
    \E t \in Seq(Bytes) : /\ toServer = Behind(SentBytes, Len(serverGot)) \o t
                          /\ t # << >> => Whole # Len(sent) /\ Piece(t)

SendingInv == SendingTypes /\ SentFit /\ SendingStages /\ SendingAligned

(* It holds in the beginning.                                              *)
LEMMA SendingInit == Init => SendingInv
<1> SUFFICES ASSUME Init PROVE SendingInv OBVIOUS
<1>1. sent = << >> /\ serverGot = << >> /\ toServer = << >> /\ Len(sent) = 0 /\ Len(serverGot) = 0
  BY DEF Init
<1>2. Whole = 0 BY <1>1 DEF Whole
<1>3. SentBytes = << >> BY <1>2 DEF SentBytes
<1>4. Behind(<< >>, 0) = << >>
  <2>1. << >> \in Seq(Seq(Bytes)) /\ Len(<< >>) = 0 OBVIOUS
  <2>2. QED BY <2>1, BehindTake
<1>5. SendingTypes BY <1>1 DEF SendingTypes
<1>6. SentFit BY <1>1 DEF SentFit
<1>7. SendingStages BY <1>1, <1>2 DEF SendingStages
<1>8. SendingAligned
  <2>1. << >> \in Seq(Bytes) /\ << >> \o << >> = << >> OBVIOUS
  <2>2. toServer = Behind(SentBytes, Len(serverGot)) \o << >> BY <1>1, <1>3, <1>4, <2>1
  <2>3. QED BY <2>1, <2>2 DEF SendingAligned
<1>9. QED BY <1>5, <1>6, <1>7, <1>8 DEF SendingInv

(* All packets sent are whole but perhaps the last.                        *)
LEMMA WholeType ==
    ASSUME SendingTypes
    PROVE  /\ Len(sent) \in Nat /\ Whole \in 0..Len(sent) /\ Len(serverGot) \in Nat
           /\ \A k \in 1..Len(sent) : sent[k] \in SentRecords /\ sent[k].packet \in Messages
<1>1. Len(sent) \in Nat /\ Len(serverGot) \in Nat BY DEF SendingTypes
<1>2. \A k \in 1..Len(sent) : sent[k] \in SentRecords BY DEF SendingTypes
<1>3. \A k \in 1..Len(sent) : sent[k].packet \in Messages BY <1>2 DEF SentRecords
<1>4. Whole \in 0..Len(sent)
  <2>1. CASE sent = << >> BY <1>1, <2>1 DEF Whole
  <2>2. CASE sent # << >>
    <3>1. Len(sent) > 0 BY <2>2 DEF SendingTypes
    <3>2. QED BY <1>1, <3>1 DEF Whole
  <2>3. QED BY <2>1, <2>2
<1>5. QED BY <1>1, <1>2, <1>3, <1>4

(* The whole packets as bytes.                                             *)
LEMMA SentBytesType ==
    ASSUME SendingTypes, SentFit, threshold \in Int
    PROVE  /\ SentBytes \in Seq(Seq(Bytes)) /\ Len(SentBytes) = Whole
           /\ \A k \in 1..Whole : /\ SentBytes[k] = Counted(SentBody(sent[k].packet))
                                  /\ SentBody(sent[k].packet) \in Seq(Bytes)
                                  /\ FitsWritten(sent[k].packet) /\ sent[k].packet \in Messages
<1>1. ASSUME NEW k \in 1..Whole
      PROVE  /\ SentBody(sent[k].packet) \in Seq(Bytes) /\ Counted(SentBody(sent[k].packet)) \in Seq(Bytes)
             /\ FitsWritten(sent[k].packet) /\ sent[k].packet \in Messages
  <2>1. k \in 1..Len(sent) BY WholeType
  <2>2. sent[k].packet \in Messages /\ FitsWritten(sent[k].packet) BY <2>1, WholeType DEF SentFit
  <2>3. SentBody(sent[k].packet) \in Seq(Bytes) BY <2>2, PiecesCounted
  <2>4. QED BY <2>2, <2>3, CountedType
<1>2. Whole \in Nat BY WholeType
<1>3. QED BY <1>1, <1>2 DEF SentBytes

(* The first packet the server has not got.                                *)
LEMMA FirstOnTheWay ==
    ASSUME SendingTypes, SentFit, SendingStages, threshold \in Int, Len(serverGot) < Whole
    PROVE  LET p == sent[Len(serverGot) + 1].packet
           IN /\ p \in Messages /\ FitsWritten(p) /\ SentBody(p) \in Seq(Bytes)
              /\ Behind(SentBytes, Len(serverGot) + 1) \in Seq(Bytes)
              /\ Behind(SentBytes, Len(serverGot))
                    = Counted(SentBody(p)) \o Behind(SentBytes, Len(serverGot) + 1)
<1>1. PICK n \in Nat, m \in Nat : n = Len(serverGot) /\ m = Whole /\ n < m BY WholeType
<1>2. PICK b \in Seq(Seq(Bytes)) : b = SentBytes /\ Len(b) = m BY <1>1, SentBytesType
<1>3. n + 1 \in Nat /\ n + 1 <= Len(b) /\ n + 1 \in 1..Whole BY <1>1, <1>2
<1>4. Behind(b, n) = b[n + 1] \o Behind(b, n + 1) BY <1>1, <1>2, BehindTake
<1>5. Behind(b, n + 1) \in Seq(Bytes) BY <1>3, BehindTake
<1>6. QED BY <1>1, <1>2, <1>3, <1>4, <1>5, SentBytesType


-----------------------------------------------------------------------------
(* Each action preserves the invariant of the sending side.                *)
LEMMA BodiesKept ==
    ASSUME threshold' = threshold
    PROVE  /\ \A p : SentBody(p)' = SentBody(p)
           /\ \A c, v : TooLarge(c, v)' <=> TooLarge(c, v)
BY DEF SentBody, TooLarge

(* A step that changes nothing of the sending side preserves it.           *)
LEMMA SendingKept ==
    ASSUME SendingInv, UNCHANGED <<threshold, toServer, sent, serverGot>>, pc = "ended" => pc' = "ended"
    PROVE  SendingInv'
<1>1. /\ \A p : SentBody(p)' = SentBody(p)
      /\ \A c, v : TooLarge(c, v)' <=> TooLarge(c, v)
  BY BodiesKept
<1>2. Whole' = Whole BY DEF Whole
<1>3. SentBytes' = SentBytes BY <1>1, <1>2 DEF SentBytes
<1>4. SendingTypes' BY DEF SendingInv, SendingTypes
<1>5. SentFit' BY <1>1 DEF SendingInv, SentFit
<1>6. SendingStages' BY <1>2 DEF SendingInv, SendingStages
<1>7. SendingAligned' BY <1>2, <1>3 DEF SendingInv, SendingAligned
<1>8. QED BY <1>4, <1>5, <1>6, <1>7 DEF SendingInv

(* One packet more is given to SendPacket.                                 *)
LEMMA SentMore ==
    ASSUME SendingTypes, SentFit, SendingStages, pc # "ended", threshold' = threshold,
           NEW p \in Messages, FitsWritten(p), NEW outcome \in {"sent", "refused", "failed"},
           outcome = "refused" <=> TooLarge(p.class, p.values),
           sent' = Append(sent, [packet |-> p, outcome |-> outcome])
    PROVE  /\ sent' \in Seq(SentRecords) /\ SentFit'
           /\ Whole = Len(sent) /\ Len(sent') = Len(sent) + 1
           /\ Whole' = IF outcome = "sent" THEN Len(sent) + 1 ELSE Len(sent)
           /\ \A k \in 1..Len(sent) : sent'[k] = sent[k]
           /\ sent'[Len(sent) + 1] = [packet |-> p, outcome |-> outcome]
<1> DEFINE new == [packet |-> p, outcome |-> outcome]
<1>1. new \in SentRecords /\ new.packet = p /\ new.outcome = outcome BY DEF SentRecords
<1> HIDE DEF new
<1>2. sent \in Seq(SentRecords) BY DEF SendingTypes
<1>3. /\ Append(sent, new) \in Seq(SentRecords) /\ Len(Append(sent, new)) = Len(sent) + 1
      /\ Len(sent) \in Nat /\ Append(sent, new)[Len(sent) + 1] = new
      /\ \A k \in 1..Len(sent) : Append(sent, new)[k] = sent[k]
  BY <1>1, <1>2
<1>4. sent' = Append(sent, new) BY DEF new
<1>5. SentFit'
  <2>1. \A c, v : TooLarge(c, v)' <=> TooLarge(c, v) BY BodiesKept
  <2>2. \A k \in DOMAIN sent' : sent'[k] = new \/ \E j \in DOMAIN sent : sent'[k] = sent[j]
    BY <1>2, <1>3, <1>4
  <2>3. \A k \in DOMAIN sent' :
           /\ FitsWritten(sent'[k].packet)
           /\ (sent'[k].outcome = "refused") <=> TooLarge(sent'[k].packet.class, sent'[k].packet.values)
    BY <1>1, <2>2 DEF SentFit
  <2>4. QED BY <2>1, <2>3 DEF SentFit
<1>6. Whole = Len(sent) BY DEF SendingStages
<1>7. Whole' = IF outcome = "sent" THEN Len(sent) + 1 ELSE Len(sent)
  <2>1. sent' # << >> /\ Last(sent') = new BY <1>3, <1>4 DEF Last
  <2>2. Whole' = IF outcome # "sent" THEN Len(sent') - 1 ELSE Len(sent') BY <1>1, <2>1 DEF Whole
  <2>3. QED BY <1>3, <1>4, <2>2
<1>8. QED BY <1>3, <1>4, <1>5, <1>6, <1>7 DEF new

(* A packet more that is not sent completely.                              *)
LEMMA SameSentBytes ==
    ASSUME SendingTypes, threshold' = threshold, Whole = Len(sent), Whole' = Len(sent),
           \A k \in 1..Len(sent) : sent'[k] = sent[k]
    PROVE  SentBytes' = SentBytes
<1>1. \A p : SentBody(p)' = SentBody(p) BY BodiesKept
<1>2. \A k \in 1..Whole : Counted(SentBody(sent'[k].packet)) = Counted(SentBody(sent[k].packet)) OBVIOUS
<1>3. SentBytes' = [k \in 1..Len(sent) |-> Counted(SentBody(sent'[k].packet))] BY <1>1 DEF SentBytes
<1>4. QED BY <1>2, <1>3 DEF SentBytes

(* A packet more that is sent completely.                                  *)
LEMMA MoreSentBytes ==
    ASSUME SendingTypes, SentFit, threshold \in Int, threshold' = threshold, NEW b \in Seq(Bytes),
           Whole = Len(sent), Whole' = Len(sent) + 1,
           \A k \in 1..Len(sent) : sent'[k] = sent[k],
           b = Counted(SentBody(sent'[Len(sent) + 1].packet))
    PROVE  SentBytes' = Append(SentBytes, b)
<1>1. \A p : SentBody(p)' = SentBody(p) BY BodiesKept
<1>2. PICK n \in Nat, s \in Seq(Seq(Bytes)) : n = Len(sent) /\ s = SentBytes /\ Len(s) = n
  BY WholeType, SentBytesType
<1>3. \A k \in 1..n : Counted(SentBody(sent'[k].packet)) = s[k] BY <1>2 DEF SentBytes
<1> DEFINE q == [k \in 1..(n + 1) |-> Counted(SentBody(sent'[k].packet))]
<1>4. SentBytes' = q BY <1>1, <1>2 DEF SentBytes
<1>5. q = [k \in 1..(n + 1) |-> q[k]] /\ q[n + 1] = b /\ \A k \in 1..n : q[k] = s[k] BY <1>2, <1>3
<1> HIDE DEF q
<1>6. /\ Append(s, b) \in Seq(Seq(Bytes)) /\ Len(Append(s, b)) = n + 1 /\ Append(s, b)[n + 1] = b
      /\ \A k \in 1..n : Append(s, b)[k] = s[k]
  BY <1>2
<1>7. \A k \in 1..(n + 1) : q[k] = Append(s, b)[k]
  <2> SUFFICES ASSUME NEW k \in 1..(n + 1) PROVE q[k] = Append(s, b)[k] OBVIOUS
  <2>1. k \in 1..n \/ k = n + 1 OBVIOUS
  <2>2. QED BY <1>5, <1>6, <2>1
<1>8. \A w \in Seq(Seq(Bytes)) : w = [k \in 1..Len(w) |-> w[k]] BY ByIndex
<1>9. PICK w \in Seq(Seq(Bytes)) : w = Append(s, b) /\ Len(w) = n + 1 BY <1>6
<1>10. w = [k \in 1..(n + 1) |-> w[k]] BY <1>8, <1>9
<1>11. q = w BY <1>5, <1>7, <1>9, <1>10
<1>12. QED BY <1>2, <1>4, <1>9, <1>11

(* SendPacket preserves it, whichever way it ends.                         *)
LEMMA PacketSent ==
    ASSUME SendingInv, threshold \in Int, pc # "ended", NEW p \in Messages, FitsWritten(p),
           NEW next, SendPacket(p.class, p.values, next)
    PROVE  SendingInv'
<1> DEFINE bytes == FlattenSeq(Pieces(p.class, p.values))
<1>1. /\ UNCHANGED <<state, threshold, length, toClient, conn, frames, received, afterEnd, serverGot>>
      /\ p = Packet(p.class, p.values)
  BY MessageType DEF SendPacket
<1>2. PICK b \in Seq(Bytes) : b = bytes /\ b = Counted(SentBody(p)) /\ SentBody(p) \in Seq(Bytes)
  BY PiecesCounted, CountedType
<1> HIDE DEF bytes
<1>3. SendingTypes /\ SentFit /\ SendingStages /\ SendingAligned BY DEF SendingInv
<1>4. PICK n \in Nat, g \in Nat, s \in Seq(Seq(Bytes)) :
         n = Len(sent) /\ g = Len(serverGot) /\ s = SentBytes /\ Len(s) = n /\ Whole = n /\ g <= n
  BY <1>3, WholeType, SentBytesType DEF SendingStages
<1>5. toServer = Behind(s, g) /\ Behind(s, g) \in Seq(Bytes)
  <2>1. Behind(s, g) \in Seq(Bytes) BY <1>4, BehindTake
  <2>2. toServer = Behind(s, g) \o << >> BY <1>3, <1>4 DEF SendingAligned
  <2>3. \A u \in Seq(Bytes) : u \o << >> = u BY Neutral
  <2>4. QED BY <2>1, <2>2, <2>3
<1>6. toServer \in Seq(Bytes) /\ serverGot \in Seq(Messages) BY <1>3 DEF SendingTypes
<1>7. \A k \in 1..n : sent[k].outcome = "sent" BY <1>3, <1>4 DEF SendingStages
<1>8. \A k \in 1..g : serverGot[k] = sent[k].packet BY <1>3, <1>4 DEF SendingStages
<1>9. CASE /\ ~TooLarge(p.class, p.values) /\ toServer' = toServer \o bytes
           /\ sent' = Append(sent, [packet |-> p, outcome |-> "sent"])
  <2>1. /\ sent' \in Seq(SentRecords) /\ SentFit' /\ Len(sent') = n + 1 /\ Whole' = n + 1
        /\ \A k \in 1..n : sent'[k] = sent[k]
        /\ sent'[n + 1] = [packet |-> p, outcome |-> "sent"]
    BY <1>1, <1>3, <1>4, <1>9, SentMore
  <2>2. sent'[n + 1].packet = p /\ sent'[n + 1].outcome = "sent" BY <2>1
  <2>3. SentBytes' = Append(s, b) BY <1>1, <1>2, <1>3, <1>4, <2>1, <2>2, MoreSentBytes
  <2>4. Behind(Append(s, b), g) = Behind(s, g) \o b BY <1>4, BehindAppend
  <2>5. toServer' = Behind(SentBytes', Len(serverGot')) /\ toServer' \in Seq(Bytes)
    <3>1. toServer' = Behind(s, g) \o b BY <1>2, <1>5, <1>9
    <3>2. Behind(s, g) \o b \in Seq(Bytes) BY <1>5
    <3>3. QED BY <1>1, <1>4, <2>3, <2>4, <3>1, <3>2
  <2>6. SendingTypes' BY <1>1, <1>6, <2>1, <2>5 DEF SendingTypes
  <2>7. SendingStages'
    <3>1. \A k \in 1..(n + 1) : sent'[k].outcome = "sent"
      <4> SUFFICES ASSUME NEW k \in 1..(n + 1) PROVE sent'[k].outcome = "sent" OBVIOUS
      <4>1. k \in 1..n \/ k = n + 1 OBVIOUS
      <4>2. QED BY <1>7, <2>1, <2>2, <4>1
    <3>2. \A k \in 1..g : k \in 1..n BY <1>4
    <3>3. \A k \in 1..g : serverGot'[k] = sent'[k].packet BY <1>1, <1>8, <2>1, <3>2
    <3>4. QED BY <1>1, <1>4, <2>1, <3>1, <3>3 DEF SendingStages
  <2>8. SendingAligned'
    <3>1. \A u \in Seq(Bytes) : u \o << >> = u BY Neutral
    <3>2. toServer' = toServer' \o << >> BY <2>5, <3>1
    <3>3. << >> \in Seq(Bytes) BY Neutral
    <3>4. QED BY <2>5, <3>2, <3>3 DEF SendingAligned
  <2>9. QED BY <2>1, <2>6, <2>7, <2>8 DEF SendingInv
<1>10. ASSUME NEW outcome \in {"refused", "failed"}, NEW t \in Seq(Bytes),
              outcome = "refused" <=> TooLarge(p.class, p.values),
              toServer' = toServer \o t, t # << >> => Piece(t), pc' = "ended",
              sent' = Append(sent, [packet |-> p, outcome |-> outcome])
       PROVE  SendingInv'
  <2>1. /\ sent' \in Seq(SentRecords) /\ SentFit' /\ Len(sent') = n + 1 /\ Whole' = n
        /\ \A k \in 1..n : sent'[k] = sent[k]
    BY <1>1, <1>3, <1>4, <1>10, SentMore
  <2>2. SentBytes' = s BY <1>1, <1>3, <1>4, <2>1, SameSentBytes
  <2>3. toServer' = Behind(SentBytes', Len(serverGot')) \o t /\ toServer' \in Seq(Bytes)
    BY <1>1, <1>4, <1>5, <1>10, <2>2
  <2>4. SendingTypes' BY <1>1, <1>6, <2>1, <2>3 DEF SendingTypes
  <2>5. SendingStages'
    <3>1. \A k \in 1..g : k \in 1..n BY <1>4
    <3>2. \A k \in 1..g : serverGot'[k] = sent'[k].packet BY <1>1, <1>8, <2>1, <3>1
    <3>3. \A k \in 1..n : sent'[k].outcome = "sent" BY <1>7, <2>1
    <3>4. QED BY <1>1, <1>4, <1>10, <2>1, <3>2, <3>3 DEF SendingStages
  <2>6. Whole' # Len(sent') BY <2>1
  <2>7. SendingAligned' BY <1>10, <2>3, <2>6 DEF SendingAligned, Piece
  <2>8. QED BY <2>1, <2>4, <2>5, <2>7 DEF SendingInv
<1>11. CASE /\ TooLarge(p.class, p.values) /\ toServer' = toServer /\ pc' = "ended"
            /\ sent' = Append(sent, [packet |-> p, outcome |-> "refused"])
  <2>1. \A u \in Seq(Bytes) : u \o << >> = u BY Neutral
  <2>2. toServer' = toServer \o << >> /\ << >> \in Seq(Bytes) BY <1>6, <1>11, <2>1
  <2>3. QED BY <1>10, <1>11, <2>2
<1>12. ASSUME ~TooLarge(p.class, p.values), pc' = "ended",
              NEW k \in 0..(Len(bytes) - 1), toServer' = toServer \o SubSeq(bytes, 1, k),
              sent' = Append(sent, [packet |-> p, outcome |-> "failed"])
       PROVE  SendingInv'
  <2>1. Len(b) \in Nat /\ k \in 0..Len(b) /\ k < Len(b) BY <1>2, <1>12
  <2>2. PICK t \in Seq(Bytes), u \in Seq(Bytes) :
           t = SubSeq(b, 1, k) /\ u = SubSeq(b, k + 1, Len(b)) /\ Len(t) = k /\ b = t \o u
    <3>1. /\ SubSeq(b, 1, k) \in Seq(Bytes) /\ Len(SubSeq(b, 1, k)) = k
          /\ SubSeq(b, k + 1, Len(b)) \in Seq(Bytes)
          /\ b = SubSeq(b, 1, k) \o SubSeq(b, k + 1, Len(b))
      BY <2>1, Cut
    <3>2. QED BY <3>1
  <2>3. u # << >>
    <3>1. \A v \in Seq(Bytes) : v \o << >> = v BY Neutral
    <3>2. t # b
      <4>1. PICK l \in Nat : l = Len(b) /\ k < l BY <2>1
      <4>2. k # l BY <4>1
      <4>3. Len(t) = k BY <2>2
      <4>4. QED BY <4>1, <4>2, <4>3
    <3>3. QED BY <2>2, <3>1, <3>2
  <2>4. Piece(t) BY <1>2, <2>2, <2>3 DEF Piece
  <2>5. QED BY <1>2, <1>10, <1>12, <2>2, <2>4
<1>13. QED BY <1>1, <1>9, <1>11, <1>12 DEF SendPacket, bytes


(* What is behind the body of a packet.                                    *)
LEMMA BehindBody ==
    ASSUME NEW b \in Seq(Bytes), NEW t \in Seq(Bytes)
    PROVE  /\ SubSeq(b \o t, 1, Len(b)) = b
           /\ SubSeq(b \o t, Len(b) + 1, Len(b \o t)) = t
<1>1. \A u, v \in Seq(Bytes) : /\ SubSeq(u \o v, 1, Len(u)) = u
                               /\ SubSeq(u \o v, Len(u) + 1, Len(u \o v)) = v
  OBVIOUS
<1>2. QED BY <1>1

(* A packet the server takes out of the stream preserves it.               *)
LEMMA PacketGot == ASSUME SendingInv, threshold \in Int, ServerReceive PROVE SendingInv'
<1> DEFINE size == ReadVarInt(Reader(toServer))
<1>1. /\ size.ok /\ Last(size.got) <= Len(size.left)
      /\ toServer' = SubSeq(size.left, Last(size.got) + 1, Len(size.left))
      /\ UNCHANGED <<state, threshold, pc, length, toClient, conn, frames, received, afterEnd, sent>>
  BY DEF ServerReceive
<1>2. SendingTypes /\ SentFit /\ SendingStages /\ SendingAligned BY DEF SendingInv
<1>3. PICK g \in Nat, m \in Nat : g = Len(serverGot) /\ m = Whole /\ g <= m
  BY <1>2, WholeType DEF SendingStages
<1>4. PICK t \in Seq(Bytes) : /\ toServer = Behind(SentBytes, g) \o t
                              /\ t # << >> => Whole # Len(sent) /\ Piece(t)
  BY <1>2, <1>3 DEF SendingAligned
<1>5. g < m
  <2>1. SUFFICES ASSUME g = m PROVE FALSE BY <1>3
  <2>2. Behind(SentBytes, g) = << >>
    <3>1. SentBytes \in Seq(Seq(Bytes)) /\ Len(SentBytes) = g BY <1>2, <1>3, <2>1, SentBytesType
    <3>2. QED BY <3>1, BehindTake
  <2>3. toServer = t
    <3>1. \A u \in Seq(Bytes) : << >> \o u = u BY Neutral
    <3>2. QED BY <1>4, <2>2, <3>1
  <2>4. t # << >> BY <1>1, <2>3, NothingRead
  <2>5. PICK b \in Seq(Bytes), u \in Seq(Bytes) : u # << >> /\ t \o u = Counted(b)
    BY <1>4, <2>4 DEF Piece
  <2>6. PICK n \in Nat : n = Len(b) OBVIOUS
  <2>7. t \o u = VarInt[n] \o b BY <2>5, <2>6 DEF Counted
  <2>8. ReadVarInt(Reader(t)).ok BY <1>1, <2>3
  <2>9. NumberIn(t, n, u, b) BY <2>7, <2>8, PartOfNumber
  <2>10. PICK d \in Seq(Bytes) : ReadVarInt(Reader(t)) = [ok |-> TRUE, left |-> d, got |-> <<n>>] /\ d \o u = b
    BY <2>9 DEF NumberIn
  <2>11. size.left = d /\ Last(size.got) = n
    <3>1. size = [ok |-> TRUE, left |-> d, got |-> <<n>>] BY <2>3, <2>10
    <3> HIDE DEF size
    <3>2. size.left = d /\ size.got = <<n>> BY <3>1
    <3>3. Last(<<n>>) = n BY DEF Last
    <3>4. QED BY <3>2, <3>3
  <2>12. Len(b) = Len(d) + Len(u) BY <2>10, Associative
  <2>13. Len(u) \in Nat \ {0} /\ Len(d) \in Nat BY <2>5
  <2> HIDE DEF size
  <2>14. QED BY <1>1, <2>6, <2>11, <2>12, <2>13
<1> DEFINE p == sent[g + 1].packet
<1>6. PICK b \in Seq(Bytes), rest \in Seq(Bytes) :
         /\ b = SentBody(p) /\ rest = Behind(SentBytes, g + 1)
         /\ Behind(SentBytes, g) = Counted(b) \o rest
         /\ p \in Messages /\ FitsWritten(p)
  BY <1>2, <1>3, <1>5, FirstOnTheWay
<1> HIDE DEF p
<1>7. PICK n \in Nat, x \in Seq(Bytes), y \in Seq(Bytes) : n = Len(b) /\ x = rest \o t /\ y = b \o x
  <2>1. PICK x \in Seq(Bytes) : x = rest \o t BY Associative
  <2>2. b \o x \in Seq(Bytes) /\ Len(b) \in Nat BY Associative
  <2>3. QED BY <2>1, <2>2
<1>8. toServer = VarInt[n] \o y
  <2>1. PICK v \in Seq(Bytes) : v = VarInt[n] BY VarIntDef
  <2>2. toServer = ((v \o b) \o rest) \o t BY <1>4, <1>6, <1>7, <2>1 DEF Counted
  <2>3. Regrouped(v, b, rest, t) BY FourPieces
  <2>4. ((v \o b) \o rest) \o t = v \o (b \o (rest \o t)) BY <2>3 DEF Regrouped
  <2>5. QED BY <1>7, <2>1, <2>2, <2>4
<1>9. size.left = y /\ Last(size.got) = n
  <2>1. size = [ok |-> TRUE, left |-> y, got |-> <<n>>] BY <1>8, ReadNumber
  <2> HIDE DEF size
  <2>2. size.left = y /\ size.got = <<n>> BY <2>1
  <2>3. Last(<<n>>) = n BY DEF Last
  <2>4. QED BY <2>2, <2>3
<1>10. SubSeq(y, 1, n) = b /\ SubSeq(y, n + 1, Len(y)) = x BY <1>7, BehindBody
<1>11. serverGot' = Append(serverGot, p)
  <2> DEFINE body == Reader(b)
             packet == IF threshold < 0 THEN body ELSE ReadVarInt(body)
             head == ReadVarInt(packet)
             small == threshold < 0 \/ Len(packet.left) < threshold
             class == ServerClass(Last(head.got))
             fields == ReadFields(Reader(head.left), Written[class])
  <2>1. ~TooLarge(p.class, p.values)
    <3>1. g + 1 \in 1..Whole /\ Whole \in 0..Len(sent) BY <1>2, <1>3, <1>5, WholeType
    <3>2. sent[g + 1].outcome = "sent" BY <1>2, <3>1 DEF SendingStages
    <3>3. g + 1 \in DOMAIN sent BY <1>2, <3>1 DEF SendingTypes
    <3>4. QED BY <1>2, <3>2, <3>3 DEF SentFit, p
  <2>2. small /\ fields.ok /\ fields.left = << >> /\ Packet(class, fields.got) = p
    BY <1>6, <2>1, ServerReads
  <2>3. Reader(SubSeq(size.left, 1, Last(size.got))) = body BY <1>9, <1>10
  <2>4. serverGot' = Append(serverGot, IF small /\ fields.ok /\ fields.left = << >>
                                       THEN Packet(class, fields.got) ELSE Exception)
    BY <2>3 DEF ServerReceive
  <2> HIDE DEF fields, class, small
  <2>5. QED BY <2>2, <2>4
<1>12. toServer' = x BY <1>1, <1>9, <1>10
<1> HIDE DEF size
<1>13. serverGot \in Seq(Messages) /\ sent \in Seq(SentRecords) BY <1>2 DEF SendingTypes
<1>14. /\ serverGot' \in Seq(Messages) /\ Len(serverGot') = g + 1 /\ serverGot'[g + 1] = p
       /\ \A k \in 1..g : serverGot'[k] = serverGot[k]
  BY <1>3, <1>6, <1>11, <1>13
<1>15. Whole' = Whole BY <1>1 DEF Whole
<1>16. SentBytes' = SentBytes
  <2>1. \A q : SentBody(q)' = SentBody(q) BY <1>1, BodiesKept
  <2>2. QED BY <1>1, <1>15, <2>1 DEF SentBytes
<1>17. SendingTypes' BY <1>1, <1>12, <1>13, <1>14 DEF SendingTypes
<1>18. SentFit'
  <2>1. \A c, v : TooLarge(c, v)' <=> TooLarge(c, v) BY <1>1, BodiesKept
  <2>2. QED BY <1>1, <1>2, <2>1 DEF SentFit
<1>19. SendingStages'
  <2>1. \A k \in 1..(g + 1) : serverGot'[k] = sent[k].packet
    <3> SUFFICES ASSUME NEW k \in 1..(g + 1) PROVE serverGot'[k] = sent[k].packet OBVIOUS
    <3>1. CASE k \in 1..g BY <1>2, <1>3, <1>14, <3>1 DEF SendingStages
    <3>2. CASE k = g + 1 BY <1>14, <3>2 DEF p
    <3>3. k \in 1..g \/ k = g + 1 OBVIOUS
    <3>4. QED BY <3>1, <3>2, <3>3
  <2>2. g + 1 <= Whole BY <1>3, <1>5
  <2>3. QED BY <1>1, <1>2, <1>14, <1>15, <2>1, <2>2 DEF SendingStages
<1>20. SendingAligned'
  <2>1. toServer' = Behind(SentBytes', Len(serverGot')) \o t BY <1>6, <1>7, <1>12, <1>14, <1>16
  <2>2. QED BY <1>1, <1>4, <1>15, <2>1 DEF SendingAligned, Piece
<1>21. QED BY <1>17, <1>18, <1>19, <1>20 DEF SendingInv


(* The answer to a packet fits what its class writes.                      *)
LEMMA AnswerFits ==
    ASSUME NEW p \in Packets, p.class \in Answered, Fits(p), "KeepAliveSB" \in Sendable
    PROVE  Answer(p) \in Messages /\ FitsWritten(Answer(p)) /\ Answer(p).class \in Answers
<1>1. "Long" \in Kind /\ "Long" \in DOMAIN Width /\ Width["Long"] = 8 BY KindNames DEF Width
<1>2. FieldOf("Long") = Wide(8) /\ ValuesOf("Long") = Wide(8) BY <1>1, ValuesOfType DEF FieldOf
<1>3. PICK v \in Seq(FieldValues) : v = p.values BY DEF Packets
<1>4. v[1] \in Wide(8)
  <2>1. Fields["KeepAliveCB"] = <<"Long">> BY AnswerLayouts
  <2>2. \A i \in 1..Len(<<"Long">>) : v[i] \in FieldOf(<<"Long">>[i])
    BY <1>3, <2>1 DEF Fits, Answered
  <2>3. QED BY <1>2, <2>2
<1>5. PICK a \in Wide(8) : a = ToInt(v[1]) BY <1>4, ToIntType
<1>6. Answer(p) = [class |-> "KeepAliveSB", values |-> <<a>>] BY <1>3, <1>5 DEF Answer, Packet
<1>7. a \in FieldValues BY DEF FieldValues, Wide
<1>8. Answer(p) \in Messages /\ Answer(p).class = "KeepAliveSB" /\ Answer(p).values = <<a>>
  BY <1>6, <1>7 DEF Messages
<1>9. Written["KeepAliveSB"] = <<"Long">> BY AnswerLayouts
<1>10. Fitting(<<"Long">>, <<a>>) BY <1>2, <1>7 DEF Fitting
<1>11. QED BY <1>8, <1>9, <1>10 DEF FitsWritten, Answers

(* What is answered is the last packet that was received.                  *)
LEMMA LastIsAnswered ==
    ASSUME ReceivingInv, pc = "reply"
    PROVE  LET p == Last(received)
           IN /\ p \in Packets /\ p.class \in Answered /\ Fits(p)
              /\ Answer(p) \in Messages /\ FitsWritten(Answer(p)) /\ Answer(p).class \in Answers
<1>1. received # << >> /\ Last(received).class \in Answered /\ received \in Seq(Packets)
  BY DEF ReceivingInv, ReceivingStages, ReceivingTypes
<1>2. Len(received) \in DOMAIN received /\ Last(received) = received[Len(received)] BY <1>1 DEF Last
<1>3. PICK p \in Packets : p = Last(received) BY <1>1, <1>2
<1>4. p.class \in Parsed(state) \cup {"null", "exception"} /\ Fits(p)
  BY <1>2, <1>3 DEF ReceivingInv, ReceivingStages, ReceivedFit
<1>5. p.class \in Parsed(state) BY <1>1, <1>3, <1>4 DEF Answered
<1>6. state = "Play" /\ state \in States
  BY <1>1, <1>3, <1>5, StatesType, AnswerLayouts DEF ReceivingInv, ReceivingTypes
<1>7. "KeepAliveSB" \in Sendable BY <1>6, FramingAssumption
<1>8. QED BY <1>1, <1>3, <1>4, <1>7, AnswerFits

(* What Send sends is a packet with the values of its class.               *)
LEMMA SampleIsMessage ==
    ASSUME NEW class \in Sendable, NEW n \in Ns
    PROVE  LET p == Packet(class, Kept(class, Samples(Written[class], n)))
           IN /\ p \in Messages /\ FitsWritten(p)
              /\ p.class = class /\ p.values = Kept(class, Samples(Written[class], n))
<1>1. class \in DOMAIN Written /\ Written[class] \in Seq(Kind) BY FramingAssumption, WrittenType
<1>2. n \in Nat
  <2>1. n \in 0..(2 * Radix * Radix - 1) BY FramingAssumption
  <2>2. QED BY <2>1
<1>3. PICK w : w = Samples(Written[class], n) OBVIOUS
<1>4. Fitting(Written[class], w) BY <1>1, <1>2, <1>3, SamplesFit
<1>5. PICK v : v = Kept(class, w) OBVIOUS
<1>6. Fitting(Written[class], v)
  <2>1. CASE class \in {"Ping", "Pong"}
    <3>1. class = "Ping"
      BY <1>1, <2>1 DEF Written, ++, HelloFields, StatusRequestFields, LoginStartFields, AnswerFields,
                        ActionFields, UseItemFields
    <3>2. Written["Ping"] = <<"Long">> BY DEF Written, ++, HelloFields, StatusRequestFields
    <3>3. ValuesOf("Long") = Wide(8)
      <4>1. "Long" \in Kind /\ "Long" \in DOMAIN Width /\ Width["Long"] = 8 BY KindNames DEF Width
      <4>2. QED BY <4>1, ValuesOfType
    <3>4. \A i \in 1..Len(<<"Long">>) : w[i] \in ValuesOf(<<"Long">>[i])
      BY <1>4, <3>1, <3>2 DEF Fitting
    <3>5. w[1] \in Wide(8) BY <3>3, <3>4
    <3>6. PICK a \in Wide(8) : a = ToInt(w[1]) BY <3>5, ToIntType
    <3>7. a \in FieldValues BY DEF FieldValues, Wide
    <3>8. v = <<a>> BY <1>5, <2>1, <3>6 DEF Kept
    <3>9. Fitting(<<"Long">>, <<a>>) BY <3>3, <3>7 DEF Fitting
    <3>10. QED BY <3>1, <3>2, <3>8, <3>9
  <2>2. CASE class \notin {"Ping", "Pong"} BY <1>4, <1>5, <2>2 DEF Kept
  <2>3. QED BY <2>1, <2>2
<1>7. v \in Seq(FieldValues) BY <1>6 DEF Fitting
<1>8. /\ Packet(class, v) \in Messages /\ Packet(class, v).class = class
      /\ Packet(class, v).values = v
  BY <1>7 DEF Packet, Messages
<1>9. QED BY <1>3, <1>5, <1>6, <1>8 DEF FitsWritten

(* Every step preserves it.                                                *)
LEMMA SendingStep == ReceivingInv /\ SendingInv /\ [Next]_vars => SendingInv'
<1> SUFFICES ASSUME ReceivingInv, SendingInv, [Next]_vars PROVE SendingInv' OBVIOUS
<1>0. threshold \in Int BY StatesType DEF ReceivingInv
<1>1. CASE ReceiveLength
  <2>1. UNCHANGED <<threshold, toServer, sent, serverGot>> /\ pc = "length" BY <1>1 DEF ReceiveLength
  <2>2. QED BY <2>1, SendingKept
<1>2. CASE ReceiveBody
  <2>1. UNCHANGED <<threshold, toServer, sent, serverGot>> /\ pc = "body" BY <1>2 DEF ReceiveBody
  <2>2. QED BY <2>1, SendingKept
<1>3. CASE ReceiveAtError
  <2>1. UNCHANGED <<threshold, toServer, sent, serverGot>> /\ pc # "ended" BY <1>3 DEF ReceiveAtError
  <2>2. QED BY <2>1, SendingKept
<1>4. CASE ReceiveAtEnd
  <2>1. UNCHANGED <<threshold, toServer, sent, serverGot>> /\ pc # "ended"
    BY <1>4 DEF ReceiveAtEnd, Missing
  <2>2. QED BY <2>1, SendingKept
<1>5. CASE Reply
  <2>1. PICK a : a = Answer(Last(received)) OBVIOUS
  <2>2. pc = "reply" /\ SendPacket(a.class, a.values, "length") BY <1>5, <2>1 DEF Reply
  <2>3. a \in Messages /\ FitsWritten(a) BY <2>1, <2>2, LastIsAnswered
  <2>4. QED BY <1>0, <2>2, <2>3, PacketSent
<1>6. ASSUME NEW class \in Sendable, NEW n \in Ns, Send(class, n) PROVE SendingInv'
  <2>1. PICK p : p = Packet(class, Kept(class, Samples(Written[class], n))) OBVIOUS
  <2>2. /\ p \in Messages /\ FitsWritten(p) /\ p.class = class
        /\ p.values = Kept(class, Samples(Written[class], n))
    BY <2>1, SampleIsMessage
  <2>3. pc = "length" /\ SendPacket(p.class, p.values, "length") BY <1>6, <2>2 DEF Send
  <2>4. QED BY <1>0, <2>2, <2>3, PacketSent
<1>7. CASE ServerReceive BY <1>0, <1>7, PacketGot
<1>8. ASSUME NEW how \in {"closed", "reset"}, ConnectionEnds(how) PROVE SendingInv'
  <2>1. UNCHANGED <<threshold, toServer, sent, serverGot, pc>> BY <1>8 DEF ConnectionEnds
  <2>2. QED BY <2>1, SendingKept
<1>9. ASSUME NEW class \in First \cup Later, NEW n \in Ns, NEW content \in Contents, NEW packing \in Packings,
             ServerSend(class, n, content, packing)
      PROVE  SendingInv'
  <2>1. UNCHANGED <<threshold, toServer, sent, serverGot, pc>> BY <1>9 DEF ServerSend
  <2>2. QED BY <2>1, SendingKept
<1>10. CASE UNCHANGED vars
  <2>1. UNCHANGED <<threshold, toServer, sent, serverGot, pc>> BY <1>10 DEF vars
  <2>2. QED BY <2>1, SendingKept
<1>11. QED BY <1>1, <1>2, <1>3, <1>4, <1>5, <1>6, <1>7, <1>8, <1>9, <1>10 DEF Next, Client, Server

(* Every byte on its way to the server belongs to a packet it has not yet  *)
(* got: they are the frames of the packets that were sent, each behind its *)
(* own size, and behind them at most the incomplete frame of the one whose *)
(* write failed (SendPacket, network.cpp:78-102).                          *)
THEOREM SendingInvariant == Spec => []SendingInv
BY ReceivingInvariant, SendingInit, SendingStep, PTL DEF Spec


-----------------------------------------------------------------------------
(* What the two invariants say of the packets.                             *)

(* Every variable of Framing keeps its type, and no more packets are       *)
(* returned than frames were sent, for any packets, thresholds and bounds  *)
(* (network.cpp:21-102).                                                   *)
THEOREM FramingTyped == Spec => []TypeOK
<1>1. ReceivingInv /\ SendingInv => TypeOK
  <2> SUFFICES ASSUME ReceivingInv, SendingInv PROVE TypeOK OBVIOUS
  <2>1. ReceivingTypes /\ ReceivingStages /\ ReceivingAligned BY DEF ReceivingInv
  <2>2. SendingTypes BY DEF SendingInv
  <2>3. {toClient, toServer} \subseteq Seq(Bytes) BY <2>1, <2>2 DEF ReceivingTypes, SendingTypes
  <2>4. \A k \in DOMAIN sent : sent[k].outcome \in {"sent", "refused", "failed"}
    <3>1. \A k \in DOMAIN sent : sent[k] \in SentRecords BY <2>2 DEF SendingTypes
    <3>2. QED BY <3>1 DEF SentRecords
  <2>5. \A k \in DOMAIN received : received[k].class \in Parsed(state) \cup {"null", "exception"}
    BY <2>1 DEF ReceivingStages, ReceivedFit
  <2>6. \A k \in DOMAIN afterEnd : afterEnd[k].class \in Parsed(state) \cup {"exception"}
    BY <2>1 DEF ReceivingStages
  <2>7. QED BY <2>1, <2>3, <2>4, <2>5, <2>6 DEF TypeOK, ReceivingTypes, ReceivingAligned
<1>2. QED BY <1>1, ReceivingInvariant, SendingInvariant, PTL

(* The server cuts what it is sent into exactly the packets that were sent *)
(* and reads every field of them, for any lengths: the size counted in a   *)
(* pass of its own is the size written, the reads undo the writes, and no  *)
(* packet it gets uncompressed reaches its threshold (network.cpp:78-102,  *)
(* stream.cpp:522-642).                                                    *)
THEOREM SentArrives == Spec => []SentIsFramed
<1>1. ReceivingInv /\ SendingInv => SentIsFramed
  <2> SUFFICES ASSUME ReceivingInv, SendingInv PROVE SentIsFramed OBVIOUS
  <2>1. SendingTypes /\ SentFit /\ SendingStages /\ SendingAligned /\ threshold \in Int
    BY StatesType DEF SendingInv, ReceivingInv
  <2>2. PICK g \in Nat, m \in Nat, n \in Nat :
           /\ g = Len(serverGot) /\ m = Whole /\ n = Len(sent) /\ g <= m /\ m <= n
           /\ DOMAIN serverGot = 1..g /\ DOMAIN sent = 1..n
    BY <2>1, WholeType DEF SendingStages, SendingTypes
  <2>3. ASSUME NEW k \in DOMAIN serverGot
        PROVE  k \in DOMAIN sent /\ sent[k].outcome = "sent" /\ serverGot[k] = sent[k].packet
    BY <2>1, <2>2 DEF SendingStages
  <2>4. ASSUME toServer = << >>, NEW k \in DOMAIN sent, sent[k].outcome = "sent"
        PROVE  k \in DOMAIN serverGot
    <3>1. k <= m
      <4> SUFFICES ASSUME k > m PROVE FALSE BY <2>2
      <4>1. n # 0 /\ m # n BY <2>2
      <4>2. sent # << >> BY <4>1, <2>2
      <4>3. Last(sent).outcome # "sent" /\ m = n - 1
        <5>1. Whole # Len(sent) BY <2>2, <4>1
        <5>2. QED BY <2>2, <5>1 DEF Whole
      <4>4. k = n BY <2>2, <4>3
      <4>5. QED BY <2>2, <2>4, <4>3, <4>4 DEF Last
    <3>2. g = m
      <4> SUFFICES ASSUME g < m PROVE FALSE BY <2>2
      <4>1. PICK b \in Seq(Bytes), rest \in Seq(Bytes) : Behind(SentBytes, g) = Counted(b) \o rest
        BY <2>1, <2>2, FirstOnTheWay
      <4>2. PICK t \in Seq(Bytes) : toServer = Behind(SentBytes, g) \o t BY <2>1, <2>2 DEF SendingAligned
      <4>3. Counted(b) \in Seq(Bytes) /\ Counted(b) # << >> BY CountedType
      <4>4. \A u, v, w \in Seq(Bytes) : u # << >> => (u \o v) \o w # << >> OBVIOUS
      <4>5. toServer # << >> BY <4>1, <4>2, <4>3, <4>4
      <4>6. QED BY <2>4, <4>5
    <3>3. QED BY <2>2, <3>1, <3>2
  <2>5. QED BY <2>3, <2>4 DEF SentIsFramed
<1>2. QED BY <1>1, ReceivingInvariant, SendingInvariant, PTL

-----------------------------------------------------------------------------
(* The answers: which packets they answer.                                 *)
Chosen(packets, classes) ==
    [k \in DOMAIN packets |-> IF packets[k].class \in classes THEN <<packets[k]>> ELSE << >>]

(* Those of a list, each a list of its own or an empty one.                *)
LEMMA ChosenType ==
    ASSUME NEW S, NEW c \in Seq(S), NEW classes
    PROVE  /\ Chosen(c, classes) \in Seq(Seq(S)) /\ Len(Chosen(c, classes)) = Len(c)
           /\ \A k \in 1..Len(c) :
                 Chosen(c, classes)[k] = IF c[k].class \in classes THEN <<c[k]>> ELSE << >>
<1>1. DOMAIN c = 1..Len(c) /\ Len(c) \in Nat /\ \A k \in 1..Len(c) : c[k] \in S OBVIOUS
<1>2. \A k \in 1..Len(c) : (IF c[k].class \in classes THEN <<c[k]>> ELSE << >>) \in Seq(S)
  <2> SUFFICES ASSUME NEW k \in 1..Len(c)
               PROVE  (IF c[k].class \in classes THEN <<c[k]>> ELSE << >>) \in Seq(S)
    OBVIOUS
  <2>1. PICK e \in S : e = c[k] BY <1>1
  <2>2. <<e>> \in Seq(S) /\ << >> \in Seq(S) OBVIOUS
  <2>3. QED BY <2>1, <2>2
<1>3. QED BY <1>1, <1>2 DEF Chosen

(* Those of a list are a list.                                             *)
LEMMA OfType == ASSUME NEW S, NEW a \in Seq(S), NEW classes PROVE OfClasses(a, classes) \in Seq(S)
<1>1. Chosen(a, classes) \in Seq(Seq(S)) BY ChosenType
<1>2. OfClasses(a, classes) = FlattenSeq(Chosen(a, classes)) BY DEF OfClasses, Chosen
<1>3. QED BY <1>1, <1>2, FlattenType

(* They are of the classes.                                                *)
LEMMA OfThoseClasses ==
    ASSUME NEW S, NEW a \in Seq(S), NEW classes
    PROVE  OfClasses(a, classes) \in Seq({e \in S : e.class \in classes})
<1>1. PICK T : T = {e \in S : e.class \in classes} OBVIOUS
<1>2. DOMAIN a = 1..Len(a) /\ Len(a) \in Nat /\ \A k \in 1..Len(a) : a[k] \in S OBVIOUS
<1>3. \A k \in 1..Len(a) : (IF a[k].class \in classes THEN <<a[k]>> ELSE << >>) \in Seq(T)
  <2> SUFFICES ASSUME NEW k \in 1..Len(a)
               PROVE  (IF a[k].class \in classes THEN <<a[k]>> ELSE << >>) \in Seq(T)
    OBVIOUS
  <2>1. << >> \in Seq(T) /\ \A e \in T : <<e>> \in Seq(T) OBVIOUS
  <2>2. a[k].class \in classes => a[k] \in T BY <1>1, <1>2
  <2>3. QED BY <2>1, <2>2
<1>4. Chosen(a, classes) \in Seq(Seq(T)) BY <1>2, <1>3 DEF Chosen
<1>5. OfClasses(a, classes) = FlattenSeq(Chosen(a, classes)) BY DEF OfClasses, Chosen
<1>6. QED BY <1>1, <1>4, <1>5, FlattenType

(* Those of a list are those of its beginning and those of the rest.       *)
LEMMA OfConcat ==
    ASSUME NEW S, NEW a \in Seq(S), NEW b \in Seq(S), NEW classes
    PROVE  OfClasses(a \o b, classes) = OfClasses(a, classes) \o OfClasses(b, classes)
<1>1. ASSUME NEW c \in Seq(S)
      PROVE  /\ Chosen(c, classes) \in Seq(Seq(S)) /\ Len(Chosen(c, classes)) = Len(c)
             /\ \A k \in 1..Len(c) :
                   Chosen(c, classes)[k] = IF c[k].class \in classes THEN <<c[k]>> ELSE << >>
  BY ChosenType
<1>2. a \o b \in Seq(S) /\ Len(a \o b) = Len(a) + Len(b) /\ Len(a) \in Nat /\ Len(b) \in Nat OBVIOUS
<1>3. PICK u \in Seq(Seq(S)), v \in Seq(Seq(S)), w \in Seq(Seq(S)) :
         u = Chosen(a, classes) /\ v = Chosen(b, classes) /\ w = Chosen(a \o b, classes)
  BY <1>1, <1>2
<1>4. /\ Len(u) = Len(a) /\ Len(v) = Len(b) /\ Len(w) = Len(a) + Len(b)
      /\ u \o v \in Seq(Seq(S)) /\ Len(u \o v) = Len(a) + Len(b)
  <2>1. Len(u) = Len(a) /\ Len(v) = Len(b) BY <1>1, <1>3
  <2>2. Len(w) = Len(a \o b) BY <1>1, <1>2, <1>3
  <2>3. u \o v \in Seq(Seq(S)) /\ Len(u \o v) = Len(u) + Len(v) OBVIOUS
  <2>4. QED BY <1>2, <2>1, <2>2, <2>3
<1>5. \A k \in 1..(Len(a) + Len(b)) : w[k] = (u \o v)[k]
  <2> SUFFICES ASSUME NEW k \in 1..(Len(a) + Len(b)) PROVE w[k] = (u \o v)[k] OBVIOUS
  <2>1. w[k] = IF (a \o b)[k].class \in classes THEN <<(a \o b)[k]>> ELSE << >>
    BY <1>1, <1>2, <1>3
  <2>2. CASE k <= Len(a)
    <3>1. k \in 1..Len(a) BY <1>2, <2>2
    <3>2. (a \o b)[k] = a[k] BY <3>1
    <3>3. (u \o v)[k] = u[k] BY <1>4, <3>1
    <3>4. u[k] = IF a[k].class \in classes THEN <<a[k]>> ELSE << >> BY <1>1, <1>3, <3>1
    <3>5. QED BY <2>1, <3>2, <3>3, <3>4
  <2>3. CASE k > Len(a)
    <3>1. PICK j \in 1..Len(b) : k = Len(a) + j
      <4>1. k - Len(a) \in 1..Len(b) /\ k = Len(a) + (k - Len(a)) BY <1>2, <2>3
      <4>2. QED BY <4>1
    <3>2. (a \o b)[k] = b[j] BY <3>1
    <3>3. (u \o v)[k] = v[j] BY <1>4, <3>1, SMTT(30)
    <3>4. v[j] = IF b[j].class \in classes THEN <<b[j]>> ELSE << >> BY <1>1, <1>3, <3>1
    <3>5. QED BY <2>1, <3>2, <3>3, <3>4
  <2>4. k <= Len(a) \/ k > Len(a) BY <1>2
  <2>5. QED BY <2>2, <2>3, <2>4
<1>6. w = u \o v
  <2>1. \A x \in Seq(Seq(S)) : x = [k \in 1..Len(x) |-> x[k]] OBVIOUS
  <2>2. PICK x \in Seq(Seq(S)) : x = u \o v BY <1>4
  <2>3. x = [k \in 1..Len(x) |-> x[k]] /\ w = [k \in 1..Len(w) |-> w[k]] BY <2>1
  <2>4. Len(x) = Len(a) + Len(b) /\ \A k \in 1..(Len(a) + Len(b)) : w[k] = x[k] BY <1>4, <1>5, <2>2
  <2>5. w = x BY <1>4, <2>3, <2>4
  <2>6. QED BY <2>2, <2>5
<1>8. FlattenSeq(u \o v) = FlattenSeq(u) \o FlattenSeq(v) BY FlattenConcat
<1>9. /\ OfClasses(a, classes) = FlattenSeq(u) /\ OfClasses(b, classes) = FlattenSeq(v)
      /\ OfClasses(a \o b, classes) = FlattenSeq(w)
  BY <1>3 DEF OfClasses, Chosen
<1>10. QED BY <1>6, <1>8, <1>9

(* Those of one packet.                                                    *)
LEMMA OfOne ==
    ASSUME NEW S, NEW p \in S, NEW classes
    PROVE  OfClasses(<<p>>, classes) = IF p.class \in classes THEN <<p>> ELSE << >>
<1> DEFINE e == IF p.class \in classes THEN <<p>> ELSE << >>
<1>1. Chosen(<<p>>, classes) = <<e>> BY DEF Chosen
<1>2. e \in Seq(S) OBVIOUS
<1>3. OfClasses(<<p>>, classes) = FlattenSeq(Chosen(<<p>>, classes)) BY DEF OfClasses, Chosen
<1> HIDE DEF e
<1>4. FlattenSeq(<<e>>) = e BY <1>2, FlattenOne
<1>5. QED BY <1>1, <1>3, <1>4 DEF e

(* Those of a list with one packet more.                                   *)
LEMMA OfMore ==
    ASSUME NEW S, NEW a \in Seq(S), NEW p \in S, NEW classes
    PROVE  OfClasses(Append(a, p), classes)
              = IF p.class \in classes THEN Append(OfClasses(a, classes), p) ELSE OfClasses(a, classes)
<1>1. PICK one \in Seq(S) : one = <<p>> /\ Append(a, p) = a \o one
  <2>1. <<p>> \in Seq(S) /\ Append(a, p) = a \o <<p>> OBVIOUS
  <2>2. QED BY <2>1
<1>2. OfClasses(a \o one, classes) = OfClasses(a, classes) \o OfClasses(one, classes) BY OfConcat
<1>3. OfClasses(<<p>>, classes) = IF p.class \in classes THEN <<p>> ELSE << >> BY OfOne
<1>4. PICK s \in Seq(S) : s = OfClasses(a, classes) BY OfType
<1>5. s \o <<p>> = Append(s, p) /\ s \o << >> = s OBVIOUS
<1>6. QED BY <1>1, <1>2, <1>3, <1>4, <1>5

\* Every answer is the answer to the packet received in its place, and only
\* the last of the packets to answer may wait for it.
FitPackets == {p \in Packets : Fits(p)}

SentPackets == [k \in 1..Len(sent) |-> sent[k].packet]

Asks == OfClasses(received, Answered)

Replies == OfClasses(SentPackets, Answers)

AnswersGiven ==
    /\ Len(Asks) = Len(Replies) + (IF pc = "reply" THEN 1 ELSE 0)
    /\ \A k \in 1..Len(Replies) : Replies[k] = Answer(Asks[k])
    /\ pc = "reply" => Asks[Len(Asks)] = Last(received)

(* No packet is asked and none is answered in the beginning.               *)
LEMMA AnswersInit == Init => AnswersGiven
<1> SUFFICES ASSUME Init PROVE AnswersGiven OBVIOUS
<1>1. received = << >> /\ sent = << >> /\ pc = "length" BY DEF Init
<1>2. SentPackets = << >> BY <1>1 DEF SentPackets
<1>3. OfClasses(<< >>, Answered) = << >> /\ OfClasses(<< >>, Answers) = << >>
  BY FlattenEmpty DEF OfClasses
<1>4. QED BY <1>1, <1>2, <1>3 DEF AnswersGiven, Asks, Replies

(* The packets that ask and those that answer.                             *)
LEMMA AnswersType ==
    ASSUME ReceivingInv, SendingInv
    PROVE  /\ received \in Seq(FitPackets) /\ Asks \in Seq(FitPackets)
           /\ SentPackets \in Seq(Messages) /\ Replies \in Seq(Messages)
           /\ Len(sent) \in Nat /\ Len(SentPackets) = Len(sent)
<1>1. received \in Seq(Packets) /\ \A k \in DOMAIN received : Fits(received[k])
  BY DEF ReceivingInv, ReceivingTypes, ReceivingStages, ReceivedFit
<1>2. received \in Seq(FitPackets) BY <1>1 DEF FitPackets
<1>3. \A k \in 1..Len(sent) : sent[k].packet \in Messages BY WholeType DEF SendingInv
<1>4. Len(sent) \in Nat BY WholeType DEF SendingInv
<1>5. SentPackets \in Seq(Messages) /\ Len(SentPackets) = Len(sent) BY <1>3, <1>4 DEF SentPackets
<1>6. QED BY <1>2, <1>4, <1>5, OfType DEF Asks, Replies

(* Between packets nothing changes when none is received and none is sent. *)
LEMMA AnswersKept ==
    ASSUME AnswersGiven, UNCHANGED <<received, sent>>, pc # "reply", pc' # "reply"
    PROVE  AnswersGiven'
<1>1. Asks' = Asks /\ SentPackets' = SentPackets BY DEF Asks, SentPackets
<1>2. Replies' = Replies BY <1>1 DEF Replies
<1>3. QED BY <1>1, <1>2 DEF AnswersGiven

(* Nor does it change when the client does nothing.                        *)
LEMMA AnswersUnchanged ==
    ASSUME AnswersGiven, UNCHANGED <<received, sent, pc>>
    PROVE  AnswersGiven'
<1>1. Asks' = Asks /\ SentPackets' = SentPackets BY DEF Asks, SentPackets
<1>2. Replies' = Replies BY <1>1 DEF Replies
<1>3. QED BY <1>1, <1>2 DEF AnswersGiven

(* A packet to answer is received when no other waits for its answer.      *)
LEMMA AskMore ==
    ASSUME ReceivingInv, SendingInv, AnswersGiven, ReceiveBody
    PROVE  AnswersGiven'
<1>1. pc = "body" /\ UNCHANGED <<conn, sent>> BY DEF ReceiveBody
<1>2. PICK p \in Packets : Outcome(p) /\ Fits(p) /\ (conn = "reported" => p = Exception) BY BodyOutcome
<1>3. pc' = After(p) BY <1>2 DEF Outcome
<1>4. CASE conn = "reported"
  <2>1. pc' = "ended" BY <1>2, <1>3, <1>4, AfterType
  <2>2. received' = received BY <1>2, <1>4 DEF Outcome
  <2>3. QED BY <1>1, <2>1, <2>2, AnswersKept
<1>5. CASE conn # "reported"
  <2>1. received' = Append(received, p) BY <1>2, <1>5 DEF Outcome
  <2>2. p \in FitPackets BY <1>2 DEF FitPackets
  <2>3. PICK a \in Seq(FitPackets), r \in Seq(Messages) : a = Asks /\ r = Replies BY AnswersType
  <2>4. Asks' = IF p.class \in Answered THEN Append(a, p) ELSE a
    BY <2>1, <2>2, <2>3, AnswersType, OfMore DEF Asks
  <2>5. Replies' = r BY <1>1, <2>3 DEF Replies, SentPackets
  <2>6. Len(a) = Len(r) /\ \A k \in 1..Len(r) : r[k] = Answer(a[k]) BY <1>1, <2>3 DEF AnswersGiven
  <2>7. CASE pc' = "reply"
    <3>1. p.class \in Answered BY <1>3, <2>7, AfterType
    <3>2. Asks' = Append(a, p) BY <2>4, <3>1
    <3>3. /\ Len(Append(a, p)) = Len(a) + 1 /\ Append(a, p)[Len(a) + 1] = p
          /\ \A k \in 1..Len(a) : Append(a, p)[k] = a[k]
      OBVIOUS
    <3>4. Last(received') = p
      <4>1. received \in Seq(FitPackets) BY AnswersType
      <4>2. Append(received, p)[Len(Append(received, p))] = p BY <2>2, <4>1
      <4>3. QED BY <2>1, <4>2 DEF Last
    <3>5. QED BY <2>5, <2>6, <2>7, <3>2, <3>3, <3>4 DEF AnswersGiven
  <2>8. CASE pc' # "reply"
    <3>1. p.class \notin Answered \/ p = Exception BY <1>3, <2>8 DEF After
    <3>2. Asks' = a BY <2>4, <3>1, ExceptionType
    <3>3. QED BY <2>5, <2>6, <2>8, <3>2 DEF AnswersGiven
  <2>9. QED BY <2>7, <2>8
<1>6. QED BY <1>4, <1>5

(* One packet more is sent.                                                *)
LEMMA PacketsMore ==
    ASSUME ReceivingInv, SendingInv, NEW p \in Messages, NEW outcome,
           sent' = Append(sent, [packet |-> p, outcome |-> outcome])
    PROVE  Replies' = IF p.class \in Answers THEN Append(Replies, p) ELSE Replies
<1>1. PICK s \in Seq(Messages), n \in Nat : s = SentPackets /\ n = Len(sent) /\ Len(s) = n
  BY AnswersType
<1> DEFINE new == [packet |-> p, outcome |-> outcome]
<1>2. new.packet = p OBVIOUS
<1>3. sent' = Append(sent, new) OBVIOUS
<1> HIDE DEF new
<1>4. Len(sent') = n + 1 /\ sent'[n + 1] = new /\ \A k \in 1..n : sent'[k] = sent[k]
  <2>1. \E R : sent \in Seq(R) BY DEF SendingInv, SendingTypes
  <2>2. PICK R : sent \in Seq(R) BY <2>1
  <2>3. QED BY <1>1, <1>3, <2>2
<1> DEFINE q == [k \in 1..(n + 1) |-> sent'[k].packet]
<1>5. SentPackets' = q BY <1>4 DEF SentPackets
<1>6. q = [k \in 1..(n + 1) |-> q[k]] /\ q[n + 1] = p /\ \A k \in 1..n : q[k] = s[k]
  BY <1>1, <1>2, <1>4 DEF SentPackets
<1> HIDE DEF q
<1>7. PICK w \in Seq(Messages) : w = Append(s, p) /\ Len(w) = n + 1
  <2>1. Append(s, p) \in Seq(Messages) /\ Len(Append(s, p)) = Len(s) + 1 OBVIOUS
  <2>2. QED BY <1>1, <2>1
<1>8. w[n + 1] = p /\ \A k \in 1..n : w[k] = s[k] BY <1>1, <1>7
<1>9. w = [k \in 1..(n + 1) |-> w[k]]
  <2>1. \A x \in Seq(Messages) : x = [k \in 1..Len(x) |-> x[k]] OBVIOUS
  <2>2. QED BY <1>7, <2>1
<1>10. \A k \in 1..(n + 1) : q[k] = w[k]
  <2> SUFFICES ASSUME NEW k \in 1..(n + 1) PROVE q[k] = w[k] OBVIOUS
  <2>1. k \in 1..n \/ k = n + 1 OBVIOUS
  <2>2. QED BY <1>6, <1>8, <2>1
<1>11. SentPackets' = Append(s, p) BY <1>5, <1>6, <1>7, <1>9, <1>10
<1>12. Replies' = OfClasses(Append(s, p), Answers) BY <1>11 DEF Replies
<1>13. QED BY <1>1, <1>12, OfMore DEF Replies

(* The answer is sent to the packet that asked last.                       *)
LEMMA Replied ==
    ASSUME ReceivingInv, SendingInv, AnswersGiven, Reply
    PROVE  AnswersGiven'
<1>1. PICK p : p = Answer(Last(received)) OBVIOUS
<1>2. pc = "reply" /\ SendPacket(p.class, p.values, "length") BY <1>1 DEF Reply
<1>3. p \in Messages /\ p.class \in Answers /\ FitsWritten(p) BY <1>1, <1>2, LastIsAnswered
<1>4. p = Packet(p.class, p.values) BY <1>3, MessageType
<1>5. PICK outcome : sent' = Append(sent, [packet |-> p, outcome |-> outcome])
  BY <1>2, <1>4 DEF SendPacket
<1>6. pc' \in {"length", "ended"} /\ received' = received BY <1>2 DEF SendPacket
<1>7. PICK a \in Seq(FitPackets), r \in Seq(Messages) : a = Asks /\ r = Replies BY AnswersType
<1>8. Replies' = Append(r, p) BY <1>3, <1>5, <1>7, PacketsMore
<1>9. Asks' = a BY <1>6, <1>7 DEF Asks
<1>10. Len(a) = Len(r) + 1 /\ a[Len(a)] = Last(received) /\ \A k \in 1..Len(r) : r[k] = Answer(a[k])
  BY <1>2, <1>7 DEF AnswersGiven
<1>11. /\ Len(Append(r, p)) = Len(r) + 1 /\ Append(r, p)[Len(r) + 1] = p
       /\ \A k \in 1..Len(r) : Append(r, p)[k] = r[k]
  BY <1>3
<1>12. \A k \in 1..(Len(r) + 1) : Append(r, p)[k] = Answer(a[k])
  <2> SUFFICES ASSUME NEW k \in 1..(Len(r) + 1) PROVE Append(r, p)[k] = Answer(a[k]) OBVIOUS
  <2>1. k \in 1..Len(r) \/ k = Len(r) + 1 OBVIOUS
  <2>2. QED BY <1>1, <1>10, <1>11, <2>1
<1>13. QED BY <1>6, <1>8, <1>9, <1>10, <1>11, <1>12 DEF AnswersGiven

(* Every step preserves it.                                                *)
LEMMA AnswersStep == ReceivingInv /\ SendingInv /\ AnswersGiven /\ [Next]_vars => AnswersGiven'
<1> SUFFICES ASSUME ReceivingInv, SendingInv, AnswersGiven, [Next]_vars PROVE AnswersGiven' OBVIOUS
<1>1. CASE ReceiveLength
  <2>1. UNCHANGED <<received, sent>> /\ pc = "length" /\ pc' = "body" BY <1>1 DEF ReceiveLength
  <2>2. QED BY <2>1, AnswersKept
<1>2. CASE ReceiveBody BY <1>2, AskMore
<1>3. CASE ReceiveAtError
  <2>1. UNCHANGED <<received, sent>> BY <1>3 DEF ReceiveAtError
  <2>2. pc # "reply" /\ pc' # "reply"
    <3>1. CASE pc = "body" BY <1>3, <3>1, ErrorOutcome
    <3>2. CASE pc # "body" BY <1>3, <3>2 DEF ReceiveAtError
    <3>3. QED BY <3>1, <3>2
  <2>3. QED BY <2>1, <2>2, AnswersKept
<1>4. CASE ReceiveAtEnd
  <2>1. UNCHANGED <<received, sent>> /\ Missing /\ OutcomeAtEnd(Exception) BY <1>4 DEF ReceiveAtEnd
  <2>2. pc # "reply" BY <2>1 DEF Missing
  <2>3. pc' = "ended" BY <2>1, AfterType DEF OutcomeAtEnd
  <2>4. QED BY <2>1, <2>2, <2>3, AnswersKept
<1>5. CASE Reply BY <1>5, Replied
<1>6. ASSUME NEW class \in Sendable, NEW n \in Ns, Send(class, n) PROVE AnswersGiven'
  <2>1. PICK p : p = Packet(class, Kept(class, Samples(Written[class], n))) OBVIOUS
  <2>2. p \in Messages /\ p.class = class /\ p.values = Kept(class, Samples(Written[class], n))
    BY <2>1, SampleIsMessage
  <2>3. /\ pc = "length" /\ p.class \notin Answers /\ SendPacket(class, p.values, "length")
    BY <1>6, <2>2 DEF Send
  <2>4. PICK outcome : sent' = Append(sent, [packet |-> p, outcome |-> outcome])
    BY <2>1, <2>2, <2>3 DEF SendPacket
  <2>5. pc' \in {"length", "ended"} /\ received' = received BY <2>3 DEF SendPacket
  <2>6. Replies' = Replies BY <2>2, <2>3, <2>4, PacketsMore
  <2>7. Asks' = Asks BY <2>5 DEF Asks
  <2>8. QED BY <2>3, <2>5, <2>6, <2>7 DEF AnswersGiven
<1>7. CASE ServerReceive
  <2>1. UNCHANGED <<received, sent, pc>> BY <1>7 DEF ServerReceive
  <2>2. QED BY <2>1, AnswersUnchanged
<1>8. ASSUME NEW how \in {"closed", "reset"}, ConnectionEnds(how) PROVE AnswersGiven'
  <2>1. UNCHANGED <<received, sent, pc>> BY <1>8 DEF ConnectionEnds
  <2>2. QED BY <2>1, AnswersUnchanged
<1>9. ASSUME NEW class \in First \cup Later, NEW n \in Ns, NEW content \in Contents, NEW packing \in Packings,
             ServerSend(class, n, content, packing)
      PROVE  AnswersGiven'
  <2>1. UNCHANGED <<received, sent, pc>> BY <1>9 DEF ServerSend
  <2>2. QED BY <2>1, AnswersUnchanged
<1>10. CASE UNCHANGED vars
  <2>1. UNCHANGED <<received, sent, pc>> BY <1>10 DEF vars
  <2>2. QED BY <2>1, AnswersUnchanged
<1>11. QED BY <1>1, <1>2, <1>3, <1>4, <1>5, <1>6, <1>7, <1>8, <1>9, <1>10 DEF Next, Client, Server

(* What the server got of the answers is the beginning of them.            *)
LEMMA GotAnswers ==
    ASSUME ReceivingInv, SendingInv
    PROVE  \E rest \in Seq(Messages) : Replies = OfClasses(serverGot, Answers) \o rest
<1>1. PICK s \in Seq(Messages), n \in Nat : s = SentPackets /\ n = Len(sent) /\ Len(s) = n
  BY AnswersType
<1>2. PICK got \in Seq(Messages) : got = serverGot BY DEF SendingInv, SendingTypes
<1>3. Len(got) <= n /\ Len(got) \in Nat
  <2>1. Len(serverGot) <= Whole /\ Whole \in 0..Len(sent) BY WholeType DEF SendingInv, SendingStages
  <2>2. QED BY <1>1, <1>2, <2>1
<1>4. \A k \in 1..Len(got) : got[k] = s[k]
  <2>1. \A k \in 1..Len(got) : got[k] = sent[k].packet BY <1>2 DEF SendingInv, SendingStages
  <2>2. \A k \in 1..n : s[k] = sent[k].packet BY <1>1 DEF SentPackets
  <2>3. QED BY <1>3, <2>1, <2>2
<1>5. PICK later \in Seq(Messages) : s = got \o later
  <2>1. PICK m \in Nat : m = Len(got) BY <1>3
  <2>2. m <= Len(s) BY <1>1, <1>3, <2>1
  <2>3. /\ SubSeq(s, 1, m) \in Seq(Messages) /\ Len(SubSeq(s, 1, m)) = m
        /\ SubSeq(s, m + 1, Len(s)) \in Seq(Messages)
        /\ s = SubSeq(s, 1, m) \o SubSeq(s, m + 1, Len(s))
        /\ \A k \in 1..m : SubSeq(s, 1, m)[k] = s[k]
    <3>1. m \in 0..Len(s) BY <2>1, <2>2
    <3>2. \A k \in 1..m : SubSeq(s, 1, m)[k] = s[k] BY <2>1, <2>2
    <3>3. QED BY <3>1, <3>2, Cut
  <2>4. PICK front \in Seq(Messages), later \in Seq(Messages) :
           /\ Len(front) = m /\ s = front \o later /\ \A k \in 1..m : front[k] = s[k]
    BY <2>3
  <2>5. front = got
    <3>1. \A q \in Seq(Messages) : q = [k \in 1..Len(q) |-> q[k]] OBVIOUS
    <3>2. \A k \in 1..m : front[k] = got[k] BY <1>4, <2>1, <2>4
    <3>3. front = [k \in 1..m |-> front[k]] /\ got = [k \in 1..m |-> got[k]] BY <2>1, <2>4, <3>1
    <3>4. QED BY <3>2, <3>3
  <2>6. QED BY <2>4, <2>5
<1>6. OfClasses(s, Answers) = OfClasses(got, Answers) \o OfClasses(later, Answers)
  BY <1>5, OfConcat
<1>7. OfClasses(later, Answers) \in Seq(Messages) BY OfType
<1>8. QED BY <1>1, <1>2, <1>6, <1>7 DEF Replies

(* The k-th keep-alive the server gets back has the id of the k-th one the *)
(* client received exactly when that id fits an int, whatever is sent and  *)
(* received between them (networkclient.cpp:126-132; packet.hpp:1099).     *)
THEOREM AnswersEchoIds == Spec => []IdsEchoed
<1>1. Spec => []AnswersGiven
  BY ReceivingInvariant, SendingInvariant, AnswersInit, AnswersStep, PTL DEF Spec
<1>2. ReceivingInv /\ SendingInv /\ AnswersGiven => IdsEchoed
  <2> SUFFICES ASSUME ReceivingInv, SendingInv, AnswersGiven,
                      NEW k \in DOMAIN OfClasses(serverGot, Answers)
               PROVE  LET answers == OfClasses(serverGot, Answers)
                          asked == OfClasses(received, Answered)
                      IN (answers[k].values = asked[k].values) <=> FitsInt(asked[k].values[1])
    BY DEF IdsEchoed
  <2>1. PICK g \in Seq(Messages) : g = OfClasses(serverGot, Answers)
    <3>1. serverGot \in Seq(Messages) BY DEF SendingInv, SendingTypes
    <3>2. QED BY <3>1, OfType
  <2>2. PICK rest \in Seq(Messages) : Replies = g \o rest BY <2>1, GotAnswers
  <2>3. k \in 1..Len(g) BY <2>1
  <2>4. k \in 1..Len(Replies) /\ Replies[k] = g[k] BY <2>2, <2>3
  <2>5. PICK a \in Seq(FitPackets), r \in Seq(Messages) : a = Asks /\ r = Replies BY AnswersType
  <2>6. g[k] = Answer(a[k]) BY <2>4, <2>5 DEF AnswersGiven
  <2>7. k \in 1..Len(a)
    <3>1. Len(a) = Len(r) + (IF pc = "reply" THEN 1 ELSE 0) BY <2>5 DEF AnswersGiven
    <3>2. Len(a) \in Nat /\ Len(r) \in Nat OBVIOUS
    <3>3. k \in 1..Len(r) BY <2>4, <2>5
    <3>4. QED BY <3>1, <3>2, <3>3
  <2>8. PICK p \in FitPackets : p = a[k] BY <2>7
  <2>9. g[k] = Answer(p) BY <2>6, <2>8
  <2>10. p.class = "KeepAliveCB"
    <3>1. a \in Seq({e \in FitPackets : e.class \in Answered})
      BY <2>5, AnswersType, OfThoseClasses DEF Asks
    <3>2. QED BY <2>7, <2>8, <3>1 DEF Answered
  <2>11. PICK v : v = p.values OBVIOUS
  <2>12. v \in Seq(FieldValues) /\ Len(v) = 1
    <3>1. Fields["KeepAliveCB"] = <<"Long">> BY AnswerLayouts
    <3>2. Len(v) = Len(<<"Long">>) /\ v \in Seq(FieldValues)
      BY <2>10, <2>11, <3>1, AnswerLayouts DEF FitPackets, Fits, Packets, Answered
    <3>3. QED BY <3>2
  <2>13. PICK l : l = v[1] OBVIOUS
  <2>14. v = <<l>> BY <2>12, <2>13
  <2>15. g[k].values = <<ToInt(l)>> BY <2>9, <2>11, <2>13 DEF Answer, Packet
  <2>16. (<<ToInt(l)>> = <<l>>) <=> FitsInt(l) BY DEF FitsInt
  <2>17. (g[k].values = p.values) <=> FitsInt(p.values[1]) BY <2>11, <2>13, <2>14, <2>15, <2>16
  <2>18. QED BY <2>1, <2>5, <2>8, <2>17 DEF Asks
<1>3. QED BY <1>1, <1>2, ReceivingInvariant, SendingInvariant, PTL

-----------------------------------------------------------------------------
(* Network implements the channel of packets.  What the server writes of a *)
(* packet the client reads back from the bytes behind its id, as far as it *)
(* reads the same kinds: without an item in a slot all of it, with one up  *)
(* to the first item. So a frame becomes what its content allows, and each *)
(* step is one of the channel.                                             *)

(* The classes of a state differ in their ids, and so does the class the   *)
(* client does not know.                                                   *)
LEMMA IdsDiffer ==
    ASSUME NEW s \in {"Status", "Login", "Play"}, NEW c \in Parsed(s)
    PROVE  /\ \A d \in Parsed(s) : Id[c] = Id[d] => c = d
           /\ Id[c] # Id["EntityAnimationCB"]
BY DEF Parsed, ParsePacketPlay, Id

-----------------------------------------------------------------------------
(* Layouts.  A list has the kinds of its elements.                         *)
LEMMA RepeatOf ==
    ASSUME NEW S, NEW n \in Nat, NEW kinds \in Seq(S)
    PROVE  Repeat(n, kinds) \in Seq(S)
<1>1. [i \in 1..n |-> kinds] \in Seq(Seq(S)) OBVIOUS
<1>2. QED BY <1>1, FlattenType DEF Repeat

(* The three lists and their elements.                                     *)
LEMMA ElementLayouts ==
    /\ DOMAIN Element = {"MultiBlockChange", "WindowItems", "DestroyEntities"}
    /\ Element["WindowItems"] = <<"Slot">>
    /\ \A c \in DOMAIN Element \ {"WindowItems"} : Element[c] \in Seq(PlainKind)
    /\ Fields["MultiBlockChange"] = <<"Int", "Int", "VarInt">> /\ Fields["DestroyEntities"] = <<"VarInt">>
<1>1. DOMAIN Element = {"MultiBlockChange", "WindowItems", "DestroyEntities"} BY DEF Element
<1>2. Element["WindowItems"] = <<"Slot">> BY DEF Element
<1>3. \A c \in DOMAIN Element \ {"WindowItems"} : Element[c] \in Seq(PlainKind)
  <2>1. /\ Element["MultiBlockChange"] = <<"UByte", "UByte", "VarInt">>
        /\ Element["DestroyEntities"] = <<"VarInt">>
    BY DEF Element
  <2>2. /\ Element["MultiBlockChange"] \in Seq(PlainKind) /\ Element["DestroyEntities"] \in Seq(PlainKind)
    BY <2>1, PlainNames
  <2>3. QED BY <1>1, <2>2
<1>4. Fields["MultiBlockChange"] = <<"Int", "Int", "VarInt">>
  BY DEF Fields, ++, LoginFields, SpawnFields, WorldFields
<1>5. Fields["DestroyEntities"] = <<"VarInt">>
  BY DEF Fields, ++, LoginFields, SpawnFields, WorldFields, PlayerFields, WindowFields, EntityFields
<1>6. QED BY <1>1, <1>2, <1>3, <1>4, <1>5

\* The list behind the fixed fields.
Rest(class, n) == IF class \in DOMAIN Element THEN Repeat(n, Element[class]) ELSE << >>

(* Slots are in the layouts of two classes, behind two other fields.       *)
LEMMA KindsType ==
    ASSUME NEW class \in DOMAIN Fields, NEW n \in Nat
    PROVE  /\ Fields[class] \in Seq(Kind) /\ Rest(class, n) \in Seq(Kind)
           /\ Kinds(class, n) = Fields[class] \o Rest(class, n)
           /\ Kinds(class, n) \in Seq(ReadKind) /\ Fields[class] \in Seq(ReadKind)
           /\ class \notin {"WindowItems", "SetSlot"} => Kinds(class, n) \in Seq(PlainKind)
<1>1. Fields[class] \in Seq(Kind) BY FieldsType
<1>2. {"Byte", "UByte", "Short", "Slot"} \subseteq ReadKind BY KindNames DEF ReadKind
<1>3. PlainKind \subseteq ReadKind /\ ReadKind \subseteq Kind BY DEF PlainKind, ReadKind
<1>4. Fields[class] \in Seq(ReadKind)
  <2>1. CASE class = "SetSlot" BY <1>2, <2>1, SlotLayouts
  <2>2. CASE class # "SetSlot"
    <3>1. Fields[class] \in Seq(PlainKind) BY <2>2, FieldsPlain
    <3>2. QED BY <1>3, <3>1
  <2>3. QED BY <2>1, <2>2
<1>5. CASE class \notin DOMAIN Element
  <2>1. Kinds(class, n) = Fields[class] /\ Rest(class, n) = << >> BY <1>5 DEF Kinds, Rest
  <2>2. << >> \in Seq(Kind) /\ Fields[class] \o << >> = Fields[class] BY <1>1
  <2>3. class # "SetSlot" => Fields[class] \in Seq(PlainKind) BY FieldsPlain
  <2>4. QED BY <1>1, <1>4, <2>1, <2>2, <2>3
<1>6. CASE class \in DOMAIN Element
  <2>1. Kinds(class, n) = Fields[class] \o Rest(class, n) BY <1>6 DEF Kinds, Rest
  <2>2. Rest(class, n) = Repeat(n, Element[class]) BY <1>6 DEF Rest
  <2>3. Rest(class, n) \in Seq(ReadKind)
    <3>1. Element[class] \in Seq(ReadKind)
      <4>1. CASE class = "WindowItems" BY <1>2, <4>1, ElementLayouts
      <4>2. CASE class # "WindowItems"
        <5>1. Element[class] \in Seq(PlainKind) BY <1>6, <4>2, ElementLayouts
        <5>2. QED BY <1>3, <5>1
      <4>3. QED BY <4>1, <4>2
    <3>2. QED BY <2>2, <3>1, RepeatOf
  <2>4. Rest(class, n) \in Seq(Kind) BY <1>3, <2>3
  <2>5. Kinds(class, n) \in Seq(ReadKind) BY <1>4, <2>1, <2>3
  <2>6. ASSUME class \notin {"WindowItems", "SetSlot"} PROVE Kinds(class, n) \in Seq(PlainKind)
    <3>1. Element[class] \in Seq(PlainKind) BY <1>6, <2>6, ElementLayouts
    <3>2. Rest(class, n) \in Seq(PlainKind) BY <2>2, <3>1, RepeatOf
    <3>3. Fields[class] \in Seq(PlainKind) BY <2>6, FieldsPlain
    <3>4. QED BY <2>1, <3>2, <3>3
  <2>7. QED BY <1>1, <1>4, <2>1, <2>4, <2>5, <2>6
<1>7. QED BY <1>5, <1>6

(* The number of elements that is read is that of the list.                *)
LEMMA CountSent ==
    ASSUME NEW class \in DOMAIN Element, NEW n \in Ns
    PROVE  Count(class, Values(class, n)[Len(Fields[class])]) = n
<1>1. n \in Nat BY TwoBytes
<1>2. CASE class = "WindowItems"
  <2> DEFINE m == 2 * Radix
             a == <<n \div m, n % m>>
  <2>1. Values(class, n) = <<Pattern(1, 1), a>> \o Samples(Repeat(n, Element[class]), n)
    BY <1>2 DEF Values
  <2>2. Repeat(n, Element[class]) \in Seq(Kind) BY <1>1, ElementType, RepeatType
  <2>3. Samples(Repeat(n, Element[class]), n) \in Seq(FieldValues) BY <1>1, <2>2, SamplesFit DEF Fitting
  <2>4. Values(class, n)[2] = a
    <3> HIDE DEF a
    <3>1. PICK w \in Seq(FieldValues) : w = Samples(Repeat(n, Element[class]), n) BY <2>3
    <3>2. Values(class, n) = <<Pattern(1, 1), a>> \o w BY <2>1, <3>1
    <3>3. QED BY <3>2
  <2>5. Len(Fields[class]) = 2 BY <1>2, SlotLayouts
  <2>6. /\ n = m * (n \div m) + (n % m) /\ n \div m < Radix /\ m \in Nat
        /\ n \div m \in Bytes /\ n % m \in Bytes
    BY TwoBytes
  <2>7. ~(a[1] >= Radix) /\ Count(class, a) = m * a[1] + a[2]
    <3> HIDE DEF m
    <3>1. a[1] = n \div m /\ a[2] = n % m OBVIOUS
    <3>2. n \div m \in Int /\ Radix \in Int BY <2>6, RadixAssumption DEF Bytes
    <3>3. ~(a[1] >= Radix) BY <2>6, <3>1, <3>2
    <3>4. QED BY <1>2, <3>3 DEF Count, m
  <2>8. QED BY <2>4, <2>5, <2>6, <2>7
<1>3. CASE class # "WindowItems"
  <2>1. Values(class, n) = Samples(Fields[class] \o Repeat(n, Element[class]), n)
    BY <1>3, ElementType DEF Values
  <2>2. PICK k \in Seq(Kind) : k = Repeat(n, Element[class]) BY <1>1, ElementType, RepeatType
  <2>3. PICK f \in Seq(Kind) : f = Fields[class] BY ElementType, FieldsType
  <2>4. Len(f) \in Nat \ {0} /\ f[Len(f)] = "VarInt"
    <3>1. class = "MultiBlockChange" \/ class = "DestroyEntities" BY <1>3, ElementLayouts
    <3>2. CASE class = "MultiBlockChange"
      <4>1. f = <<"Int", "Int", "VarInt">> BY <2>3, <3>2, ElementLayouts
      <4>2. QED BY <4>1
    <3>3. CASE class = "DestroyEntities"
      <4>1. f = <<"VarInt">> BY <2>3, <3>3, ElementLayouts
      <4>2. QED BY <4>1
    <3>4. QED BY <3>1, <3>2, <3>3
  <2>5. Len(f) \in DOMAIN (f \o k) /\ (f \o k)[Len(f)] = "VarInt" BY <2>4
  <2>6. Values(class, n)[Len(f)] = Sample("VarInt", Len(f), n) BY <2>1, <2>2, <2>3, <2>5 DEF Samples
  <2>7. Values(class, n)[Len(f)] = n BY <2>6 DEF Sample
  <2>8. QED BY <1>3, <2>3, <2>7 DEF Count
<1>4. QED BY <1>2, <1>3

-----------------------------------------------------------------------------
(* All fields.  When the number of elements is right, the kinds of the      *)
(* class are read one after the other.                                     *)
LEMMA AllFieldsKinds ==
    ASSUME NEW class \in DOMAIN Fields, NEW n \in Ns, NEW b \in Seq(Bytes),
           LET fixed == ReadFields(Reader(b), Fields[class])
           IN fixed.ok /\ class \in DOMAIN Element => Count(class, Last(fixed.got)) = n
    PROVE  AllFields(class, b) = ReadFields(Reader(b), Kinds(class, n))
<1> DEFINE fixed == ReadFields(Reader(b), Fields[class])
<1>1. n \in Nat BY TwoBytes
<1>2. /\ Fields[class] \in Seq(Kind) /\ Rest(class, n) \in Seq(Kind)
      /\ Kinds(class, n) = Fields[class] \o Rest(class, n)
  BY <1>1, KindsType
<1>3. ReadFields(Reader(b), Kinds(class, n)) = ReadFields(fixed, Rest(class, n))
  BY <1>2, ReaderType, ReadRest
<1>4. fixed \in Readers BY <1>2, ReaderType, ReadOn
<1>5. fixed.ok /\ class \in DOMAIN Element => Count(class, Last(fixed.got)) = n OBVIOUS
<1>6. AllFields(class, b) = IF fixed.ok /\ class \in DOMAIN Element
                             THEN ReadFields(fixed, Repeat(Count(class, Last(fixed.got)), Element[class]))
                             ELSE fixed
  BY DEF AllFields
<1> HIDE DEF fixed
<1>7. CASE fixed.ok /\ class \in DOMAIN Element BY <1>3, <1>5, <1>6, <1>7 DEF Rest
<1>8. CASE ~fixed.ok
  <2>1. ReadFields(fixed, Rest(class, n)) = fixed BY <1>2, <1>4, <1>8, ReadGrows DEF Grown
  <2>2. QED BY <1>3, <1>6, <1>8, <2>1
<1>9. CASE class \notin DOMAIN Element
  <2>1. Rest(class, n) = << >> BY <1>9 DEF Rest
  <2>2. ReadFields(fixed, << >>) = fixed BY <1>4, ReadNone
  <2>3. QED BY <1>3, <1>6, <1>9, <2>1, <2>2
<1>10. QED BY <1>7, <1>8, <1>9

\* A reader at the end of what was written.
AtEndOf(left, values) == [ok |-> TRUE, left |-> left, got |-> values]

(* What was read of the fixed fields, when they and more were read.        *)
LEMMA FixedRead ==
    ASSUME NEW class \in DOMAIN Element, NEW n \in Ns, NEW b \in Seq(Bytes), NEW kinds \in Seq(Kind),
           NEW values \in Seq(FieldValues), NEW x,
           ReadFields(Reader(b), Fields[class] \o kinds) = AtEndOf(x, values),
           Len(values) >= Len(Fields[class]),
           values[Len(Fields[class])] = Values(class, n)[Len(Fields[class])]
    PROVE  Count(class, Last(ReadFields(Reader(b), Fields[class]).got)) = n
<1>1. Fields[class] \in Seq(Kind) BY ElementType, FieldsType
<1>2. PICK q \in Readers : q = ReadFields(Reader(b), Fields[class]) BY <1>1, ReaderType, ReadOn
<1>3. ReadFields(q, kinds) = AtEndOf(x, values) BY <1>1, <1>2, ReaderType, ReadRest
<1>4. AtEndOf(x, values).ok /\ AtEndOf(x, values).got = values BY DEF AtEndOf
<1>5. q.ok /\ SubSeq(values, 1, Len(q.got)) = q.got BY <1>3, <1>4, ReadGrows DEF Grown
<1>6. Len(q.got) = Len(Fields[class])
  <2>1. Grown(Reader(b), q, Len(Fields[class])) BY <1>1, <1>2, ReaderType, ReadGrows
  <2>2. Reader(b).got = << >> /\ Len(<< >>) = 0 BY ReaderType
  <2>3. Len(Fields[class]) \in Nat BY <1>1
  <2>4. QED BY <1>5, <2>1, <2>2, <2>3 DEF Grown
<1>7. PICK l \in Nat : l = Len(Fields[class]) /\ l # 0
  <2>1. Fields[class] # << >>
    <3>1. class \in {"MultiBlockChange", "WindowItems", "DestroyEntities"} BY ElementLayouts
    <3>2. \A k : <<k>> # << >> /\ \A m : <<k, m>> # << >> /\ \A o : <<k, m, o>> # << >> OBVIOUS
    <3>3. QED BY <3>1, <3>2, ElementLayouts, SlotLayouts
  <2>2. QED BY <1>1, <2>1
<1>8. Last(q.got) = values[l]
  <2>1. l \in 1..l /\ l <= Len(values) BY <1>7
  <2>2. SubSeq(values, 1, l)[l] = values[l] BY <1>7, <2>1
  <2>3. QED BY <1>5, <1>6, <1>7, <2>2 DEF Last
<1>9. QED BY <1>2, <1>7, <1>8, CountSent

(* Of data that begins as it was written, the fields it begins with are    *)
(* read, and the others behind them.                                       *)
LEMMA BeginningRead ==
    ASSUME NEW class \in DOMAIN Fields, NEW n \in Ns, NEW x \in Seq(Bytes), NEW m \in Nat,
           m >= Len(Fields[class]), m <= Len(Kinds(class, n))
    PROVE  LET kinds == Kinds(class, n)
               values == Values(class, n)
           IN AllFields(class, WriteFields(SubSeq(kinds, 1, m), SubSeq(values, 1, m)) \o x)
                 = ReadFields(AtEndOf(x, SubSeq(values, 1, m)), SubSeq(kinds, m + 1, Len(kinds)))
<1>1. PICK k \in Seq(Kind), v \in Seq(FieldValues) :
         k = Kinds(class, n) /\ v = Values(class, n) /\ Fitting(k, v)
  BY ValuesFit DEF Fitting
<1>2. n \in Nat BY TwoBytes
<1>3. PICK f \in Seq(Kind), e \in Seq(Kind) : f = Fields[class] /\ k = f \o e
  BY <1>1, <1>2, KindsType
<1>4. m \in 0..Len(k) /\ Len(v) = Len(k) BY <1>1 DEF Fitting
<1> DEFINE a == SubSeq(k, 1, m)
           w == SubSeq(v, 1, m)
           b == WriteFields(a, w) \o x
           r == SubSeq(k, m + 1, Len(k))
<1>5. /\ a \in Seq(Kind) /\ r \in Seq(Kind) /\ Len(a) = m /\ Fitting(a, w) /\ k = a \o r
  BY <1>1, <1>4, FittingCut
<1>6. w \in Seq(FieldValues) /\ Len(w) = m BY <1>5 DEF Fitting
<1>7. b \in Seq(Bytes)
  <2>1. WriteFields(a, w) \in Seq(Bytes) BY <1>5, WriteFieldsType
  <2> HIDE DEF a, w
  <2>2. QED BY <2>1
<1>8. ReadFields(Reader(b), a) = AtEndOf(x, w)
  <2> HIDE DEF a, w
  <2>1. QED BY <1>5, FieldsUndone DEF AtEndOf
<1>9. ASSUME class \in DOMAIN Element PROVE Count(class, Last(ReadFields(Reader(b), Fields[class]).got)) = n
  <2>1. PICK l \in Nat : l = Len(f) OBVIOUS
  <2>2. l <= m /\ l # 0
    <3>1. Fields[class] # << >>
      <4>1. class \in {"MultiBlockChange", "WindowItems", "DestroyEntities"} BY <1>9, ElementLayouts
      <4>2. \A y : <<y>> # << >> /\ \A z : <<y, z>> # << >> /\ \A o : <<y, z, o>> # << >> OBVIOUS
      <4>3. QED BY <4>1, <4>2, ElementLayouts, SlotLayouts
    <3>2. QED BY <1>3, <2>1, <3>1
  <2>3. a = f \o SubSeq(a, l + 1, m) /\ SubSeq(a, l + 1, m) \in Seq(Kind)
    <3>1. SubSeq(a, 1, l) = f
      <4>1. \A i \in 1..l : k[i] = f[i] BY <1>3, <2>1
      <4>2. \A i \in 1..l : SubSeq(k, 1, m)[i] = k[i] /\ SubSeq(SubSeq(k, 1, m), 1, l)[i] = SubSeq(k, 1, m)[i]
        BY <1>4, <2>1, <2>2
      <4>3. l \in 0..Len(a) BY <1>5, <2>2
      <4>4. SubSeq(a, 1, l) \in Seq(Kind) /\ Len(SubSeq(a, 1, l)) = l
        <5> HIDE DEF a
        <5>1. QED BY <1>5, <4>3, Cut
      <4>5. \A s, t \in Seq(Kind) : Len(s) = Len(t) /\ (\A i \in 1..Len(s) : s[i] = t[i]) => s = t OBVIOUS
      <4>6. QED BY <2>1, <4>1, <4>2, <4>4, <4>5
    <3>2. l \in 0..Len(a) BY <1>5, <2>2
    <3>3. a = SubSeq(a, 1, l) \o SubSeq(a, l + 1, Len(a)) /\ SubSeq(a, l + 1, Len(a)) \in Seq(Kind)
      BY <1>5, <3>2, Cut
    <3>4. QED BY <1>5, <3>1, <3>3
  <2>4. w[l] = v[l]
    <3>1. l \in 1..m BY <2>1, <2>2
    <3>2. QED BY <1>4, <3>1
  <2> HIDE DEF a, w, b
  <2>5. Len(w) >= Len(Fields[class]) /\ w[Len(Fields[class])] = Values(class, n)[Len(Fields[class])]
    BY <1>1, <1>3, <1>6, <2>1, <2>2, <2>4
  <2>6. QED BY <1>3, <1>6, <1>7, <1>8, <1>9, <2>3, <2>5, FixedRead
<1> HIDE DEF a, w, b, r
<1>10. AllFields(class, b) = ReadFields(Reader(b), k) BY <1>1, <1>7, <1>9, AllFieldsKinds
<1>11. ReadFields(Reader(b), k) = ReadFields(AtEndOf(x, w), r) BY <1>5, <1>7, <1>8, ReaderType, ReadRest
<1>12. QED BY <1>1, <1>10, <1>11 DEF a, w, b, r

(* Of data that ends before the last byte of what was written, the fields  *)
(* are not read.                                                           *)
LEMMA CutRead ==
    ASSUME NEW class \in DOMAIN Fields, NEW n \in Ns, NEW d \in Seq(Bytes), NEW t \in Seq(Bytes), t # << >>,
           d \o t = WriteFields(Kinds(class, n), Values(class, n))
    PROVE  ~AllFields(class, d).ok
<1> SUFFICES ASSUME AllFields(class, d).ok PROVE FALSE OBVIOUS
<1>1. PICK k \in Seq(Kind), v \in Seq(FieldValues) :
         k = Kinds(class, n) /\ v = Values(class, n) /\ Fitting(k, v)
  BY ValuesFit DEF Fitting
<1>2. n \in Nat BY TwoBytes
<1>3. PICK f \in Seq(Kind), e \in Seq(Kind) : f = Fields[class] /\ k = f \o e
  BY <1>1, <1>2, KindsType
<1>4. k \in Seq(ReadKind) /\ f \in Seq(ReadKind) BY <1>1, <1>2, <1>3, KindsType
<1>5. PICK b \in Seq(Bytes) : b = d \o t BY ConcatIn
<1>6. ReadFields(Reader(b), k) = AtEndOf(<< >>, v)
  <2>1. b \o << >> = b /\ << >> \in Seq(Bytes) OBVIOUS
  <2>2. b = WriteFields(k, v) BY <1>1, <1>5
  <2>3. ReadFields(Reader(WriteFields(k, v) \o << >>), k) = AtEndOf(<< >>, v)
    BY <1>1, <2>1, FieldsUndone DEF AtEndOf
  <2>4. QED BY <2>1, <2>2, <2>3
<1>7. PICK q \in Readers : q = ReadFields(Reader(d), f) BY ReaderType, ReadOn
<1>8. q.ok BY <1>3, <1>7 DEF AllFields
<1>9. ReadFields(Reader(b), f).got = q.got
  <2>1. ReadFields(Reader(d), f).ok BY <1>7, <1>8
  <2>2. PICK s \in Seq(Bytes) :
           ReadFields(Reader(d \o t), f) = [ok |-> TRUE, left |-> s \o t, got |-> ReadFields(Reader(d), f).got]
    BY <1>4, <2>1, PartRead
  <2>3. QED BY <1>5, <1>7, <2>2
<1>10. ASSUME class \in DOMAIN Element PROVE Count(class, Last(q.got)) = n
  <2>1. Len(v) >= Len(f)
    <3>1. Len(v) = Len(f \o e) BY <1>1, <1>3 DEF Fitting
    <3>2. QED BY <3>1
  <2>2. v[Len(f)] = Values(class, n)[Len(f)] BY <1>1
  <2>3. ReadFields(Reader(b), f \o e) = AtEndOf(<< >>, v) BY <1>3, <1>6
  <2>4. Count(class, Last(ReadFields(Reader(b), f).got)) = n BY <1>3, <1>10, <2>1, <2>2, <2>3, FixedRead
  <2>5. QED BY <1>9, <2>4
<1>11. AllFields(class, d) = ReadFields(Reader(d), k) BY <1>1, <1>3, <1>7, <1>10, AllFieldsKinds
<1>12. PICK s \in Seq(Bytes) :
          ReadFields(Reader(b), k) = [ok |-> TRUE, left |-> s \o t, got |-> ReadFields(Reader(d), k).got]
  <2>1. ReadFields(Reader(d), k).ok BY <1>11
  <2>2. QED BY <1>4, <1>5, <2>1, PartRead
<1>13. s \o t = << >>
  <2>1. AtEndOf(<< >>, v).left = << >> BY DEF AtEndOf
  <2>2. ReadFields(Reader(b), k).left = s \o t BY <1>12
  <2>3. QED BY <1>6, <2>1, <2>2
<1>14. Len(s \o t) # 0 /\ Len(<< >>) = 0 OBVIOUS
<1>15. QED BY <1>13, <1>14

-----------------------------------------------------------------------------
(* Slots.  They are the third field and the ones behind it.                *)
SlotClasses == {"WindowItems", "SetSlot"}

(* The first two fields are numbers, and the others slots.                 *)
LEMMA SlotKinds ==
    ASSUME NEW class \in SlotClasses, NEW n \in Nat
    PROVE  /\ Kinds(class, n) \in Seq(Kind) /\ Len(Kinds(class, n)) >= 2
           /\ class = "SetSlot" => Len(Kinds(class, n)) = 3
           /\ Len(Fields[class]) \in {2, 3} /\ class \in DOMAIN Fields
           /\ \A i \in 1..Len(Kinds(class, n)) :
                 IF i <= 2 THEN Kinds(class, n)[i] \in {"Byte", "UByte", "Short"}
                 ELSE Kinds(class, n)[i] = "Slot"
<1>1. class \in DOMAIN Fields BY SlotLayouts DEF SlotClasses
<1>2. Kinds(class, n) \in Seq(Kind)
  <2>1. PICK f \in Seq(Kind), r \in Seq(Kind) : Kinds(class, n) = f \o r BY <1>1, KindsType
  <2>2. QED BY <2>1
<1>3. CASE class = "SetSlot"
  <2>1. Kinds(class, n) = <<"Byte", "Short", "Slot">>
    <3>1. class \notin DOMAIN Element BY <1>3, ElementLayouts
    <3>2. QED BY <1>1, <1>3, <3>1, SlotLayouts DEF Kinds
  <2>2. Len(Fields[class]) = 3 BY <1>3, SlotLayouts
  <2>3. QED BY <1>1, <1>2, <1>3, <2>1, <2>2, SMTT(30)
<1>4. CASE class = "WindowItems"
  <2>1. Kinds(class, n) = <<"UByte", "Short">> \o Repeat(n, <<"Slot">>)
    BY <1>4, ElementLayouts, SlotLayouts DEF Kinds
  <2>2. <<"Slot">> \in Seq({"Slot"}) OBVIOUS
  <2>3. PICK r \in Seq({"Slot"}) : r = Repeat(n, <<"Slot">>) BY <2>2, RepeatOf
  <2>4. Len(<<"UByte", "Short">> \o r) = Len(r) + 2 /\ Len(r) \in Nat OBVIOUS
  <2>5. \A i \in 1..(Len(r) + 2) : (<<"UByte", "Short">> \o r)[i] =
           IF i = 1 THEN "UByte" ELSE IF i = 2 THEN "Short" ELSE r[i - 2]
    OBVIOUS
  <2>6. \A i \in 1..Len(r) : r[i] = "Slot" OBVIOUS
  <2>7. QED BY <1>1, <1>2, <1>4, <2>1, <2>3, <2>4, <2>5, <2>6, SlotLayouts
<1>5. QED BY <1>3, <1>4 DEF SlotClasses

(* An item is written with the NBT data, which is not read, behind it.     *)
LEMMA SlotWritten ==
    ASSUME NEW v \in ValuesOf("Slot")
    PROVE  /\ v \in Seq(Bytes)
           /\ Len(v) # 5 => Write("SlotAndNbt", v) = Write("Slot", v)
           /\ Len(v) = 5 => Write("SlotAndNbt", v) = Write("Slot", v) \o <<0>>
<1>1. v \in {NoItem} \cup Items BY DEF ValuesOf
<1>2. "Slot" \in Kind /\ "SlotAndNbt" \in Kind BY KindNames
<1>3. Write("Slot", v) = v /\ Write("SlotAndNbt", v) = IF v = NoItem THEN v ELSE Append(v, 0)
  BY <1>2, WriteCases
<1>4. NoItem \in Wide(2) BY NoItemType
<1>5. v \in Wide(2) \/ v \in Wide(5) BY <1>1, <1>4 DEF Items
<1>6. v \in Seq(Bytes) BY <1>5 DEF Wide
<1>7. v = NoItem => Len(v) = 2 BY <1>4 DEF Wide
<1>8. v # NoItem => Len(v) = 5 BY <1>1 DEF Items, Wide
<1>9. Append(v, 0) = v \o <<0>> BY <1>6
<1>10. Len(v) # 5 => v = NoItem BY <1>8
<1>11. Len(v) = 5 => v # NoItem BY <1>7
<1>12. QED BY <1>3, <1>6, <1>9, <1>10, <1>11

\* A list of slots that holds an item.
ItemAt(class, n, i) == i \in 1..Len(Values(class, n)) /\ Len(Values(class, n)[i]) = 5

(* An item is in one of the slots.                                         *)
LEMMA ItemIsSlot ==
    ASSUME NEW class \in SlotClasses, NEW n \in Ns, NEW i, ItemAt(class, n, i)
    PROVE  i \in 3..Len(Kinds(class, n)) /\ Len(Values(class, n)) = Len(Kinds(class, n))
<1>1. n \in Nat BY TwoBytes
<1>2. class \in DOMAIN Fields BY SlotLayouts DEF SlotClasses
<1>3. Fitting(Kinds(class, n), Values(class, n)) BY <1>2, ValuesFit
<1>4. Len(Values(class, n)) = Len(Kinds(class, n)) /\ Len(Values(class, n)) \in Nat BY <1>3 DEF Fitting
<1>5. i \in 1..Len(Kinds(class, n)) BY <1>4 DEF ItemAt
<1>6. ASSUME i <= 2 PROVE FALSE
  <2>1. Kinds(class, n)[i] \in {"Byte", "UByte", "Short"} BY <1>1, <1>5, <1>6, SlotKinds
  <2>2. PICK kind \in {"Byte", "UByte", "Short"} : kind = Kinds(class, n)[i] BY <2>1
  <2>3. kind \in DOMAIN Width /\ Width[kind] \in {1, 2} /\ kind \in Kind BY <2>2, KindNames DEF Width
  <2>4. Values(class, n)[i] \in ValuesOf(kind) BY <1>3, <1>5, <2>2 DEF Fitting
  <2>5. Values(class, n)[i] \in Wide(Width[kind]) BY <2>3, <2>4, ValuesOfType
  <2>6. Len(Values(class, n)[i]) \in {1, 2} BY <2>3, <2>5 DEF Wide
  <2>7. QED BY <2>6 DEF ItemAt
<1>7. QED BY <1>4, <1>5, <1>6

\* What the server writes of a field, and what is read of it.
Served(class, n, i) == Write(ServerKinds(class, n)[i], Values(class, n)[i])
Fetched(class, n, i) == Write(Kinds(class, n)[i], Values(class, n)[i])

(* They are the same, but for the zero behind an item.                     *)
LEMMA FieldServed ==
    ASSUME NEW class \in DOMAIN Fields, NEW n \in Ns, NEW i \in 1..Len(Kinds(class, n))
    PROVE  /\ Served(class, n, i) \in Seq(Bytes) /\ Fetched(class, n, i) \in Seq(Bytes)
           /\ ~(class \in SlotClasses /\ ItemAt(class, n, i)) => Served(class, n, i) = Fetched(class, n, i)
           /\ class \in SlotClasses /\ ItemAt(class, n, i) =>
                 Served(class, n, i) = Fetched(class, n, i) \o <<0>>
<1>1. n \in Nat BY TwoBytes
<1>2. PICK k \in Seq(Kind), v \in Seq(FieldValues) :
         k = Kinds(class, n) /\ v = Values(class, n) /\ Fitting(k, v)
  BY ValuesFit DEF Fitting
<1>3. PICK s \in Seq(Kind) : s = ServerKinds(class, n) /\ Fitting(s, v) BY <1>2, ServerValuesFit
<1>4. s[i] = IF k[i] = "Slot" THEN "SlotAndNbt" ELSE k[i] BY <1>2, <1>3 DEF ServerKinds
<1>5. Len(v) = Len(k) /\ Len(s) = Len(k) /\ v[i] \in ValuesOf(k[i]) /\ v[i] \in ValuesOf(s[i])
  BY <1>2, <1>3 DEF Fitting
<1>6. k[i] \in Kind /\ s[i] \in Kind BY <1>2, <1>3, <1>5
<1>7. Write(s[i], v[i]) \in Seq(Bytes) /\ Write(k[i], v[i]) \in Seq(Bytes) BY <1>5, <1>6, WriteType
<1>8. CASE k[i] = "Slot"
  <2>1. class \in SlotClasses
    <3>1. "Slot" \notin PlainKind BY DEF PlainKind
    <3>2. k \in Seq(PlainKind) => k[i] \in PlainKind BY <1>2
    <3>3. QED BY <1>1, <1>2, <1>8, <3>1, <3>2, KindsType DEF SlotClasses
  <2>2. v[i] \in ValuesOf("Slot") BY <1>5, <1>8
  <2>3. ItemAt(class, n, i) <=> Len(v[i]) = 5 BY <1>2, <1>5 DEF ItemAt
  <2>4. QED BY <1>2, <1>3, <1>4, <1>7, <1>8, <2>1, <2>2, <2>3, SlotWritten DEF Served, Fetched
<1>9. CASE k[i] # "Slot"
  <2>1. ~(class \in SlotClasses /\ ItemAt(class, n, i))
    <3>1. SUFFICES ASSUME class \in SlotClasses, ItemAt(class, n, i) PROVE FALSE OBVIOUS
    <3>2. i >= 3 /\ i \in Nat BY <3>1, ItemIsSlot
    <3>3. QED BY <1>1, <1>2, <1>9, <3>1, <3>2, SlotKinds
  <2>2. QED BY <1>2, <1>3, <1>4, <1>7, <1>9, <2>1 DEF Served, Fetched
<1>10. QED BY <1>8, <1>9

(* One more piece behind the first that differs is more bytes behind it.   *)
LEMMA PieceDiffers ==
    ASSUME NEW p \in Seq(Seq(Bytes)), NEW q \in Seq(Seq(Bytes)), Len(p) = Len(q), NEW i \in 1..Len(p),
           \A j \in 1..(i - 1) : p[j] = q[j], NEW y \in Seq(Bytes), p[i] = q[i] \o y
    PROVE  \E z \in Seq(Bytes) : FlattenSeq(p) = FlattenSeq(SubSeq(q, 1, i)) \o (y \o z)
<1>1. i - 1 \in 0..Len(p) /\ i \in 0..Len(p) OBVIOUS
<1>2. PICK a \in Seq(Seq(Bytes)) : a = SubSeq(p, 1, i - 1) BY <1>1, Cut
<1>3. a = SubSeq(q, 1, i - 1) BY <1>1, <1>2, SameBeginning
<1>4. PICK r \in Seq(Seq(Bytes)) : r = SubSeq(p, i + 1, Len(p)) /\ p = SubSeq(p, 1, i) \o r
  <2>1. SubSeq(p, i + 1, Len(p)) \in Seq(Seq(Bytes)) /\ p = SubSeq(p, 1, i) \o SubSeq(p, i + 1, Len(p))
    BY <1>1, Cut
  <2>2. QED BY <2>1
<1>5. p[i] \in Seq(Bytes) /\ q[i] \in Seq(Bytes) OBVIOUS
<1>6. SubSeq(p, 1, i) = Append(a, p[i]) /\ SubSeq(q, 1, i) = Append(a, q[i]) BY <1>2, <1>3, PieceMore
<1>7. Append(a, p[i]) \in Seq(Seq(Bytes)) BY <1>5
<1>8. FlattenSeq(p) = FlattenSeq(Append(a, p[i])) \o FlattenSeq(r) BY <1>4, <1>6, <1>7, FlattenConcat
<1>9. FlattenSeq(Append(a, p[i])) = FlattenSeq(a) \o p[i] /\ FlattenSeq(Append(a, q[i])) = FlattenSeq(a) \o q[i]
  BY <1>5, FlattenAppend
<1>10. PICK f \in Seq(Bytes), z \in Seq(Bytes) : f = FlattenSeq(a) /\ z = FlattenSeq(r) BY FlattenType
<1>11. PICK w \in Seq(Bytes) : w = q[i] BY <1>5
<1>12. (f \o (w \o y)) \o z = (f \o w) \o (y \o z)
  <2>1. f \o w \in Seq(Bytes) BY Associative
  <2>2. (f \o w) \o y = f \o (w \o y) BY AnyThree, ZenonT(30)
  <2>3. ((f \o w) \o y) \o z = (f \o w) \o (y \o z) BY <2>1, AnyThree, ZenonT(30)
  <2>4. QED BY <2>2, <2>3
<1>13. QED BY <1>6, <1>8, <1>9, <1>10, <1>11, <1>12

\* What the server writes and what is read, field by field.
AllServed(class, n) == [i \in 1..Len(Kinds(class, n)) |-> Served(class, n, i)]
AllFetched(class, n) == [i \in 1..Len(Kinds(class, n)) |-> Fetched(class, n, i)]

(* Put together they are what is written and what is read of the packet.   *)
LEMMA FieldsServed ==
    ASSUME NEW class \in DOMAIN Fields, NEW n \in Ns
    PROVE  /\ AllServed(class, n) \in Seq(Seq(Bytes)) /\ AllFetched(class, n) \in Seq(Seq(Bytes))
           /\ Len(AllServed(class, n)) = Len(Kinds(class, n)) /\ Len(AllFetched(class, n)) = Len(Kinds(class, n))
           /\ WriteFields(ServerKinds(class, n), Values(class, n)) = FlattenSeq(AllServed(class, n))
           /\ WriteFields(Kinds(class, n), Values(class, n)) = FlattenSeq(AllFetched(class, n))
           /\ Len(Values(class, n)) = Len(Kinds(class, n))
<1>1. PICK k \in Seq(Kind) : k = Kinds(class, n) /\ Fitting(k, Values(class, n)) BY ValuesFit
<1>2. PICK s \in Seq(Kind) : s = ServerKinds(class, n) /\ Fitting(s, Values(class, n)) BY ServerValuesFit
<1>3. Len(s) = Len(k) /\ Len(k) = Len(Values(class, n)) /\ Len(k) \in Nat BY <1>1, <1>2 DEF Fitting
<1>4. AllServed(class, n) = [i \in 1..Len(s) |-> Write(s[i], Values(class, n)[i])]
  BY <1>1, <1>2, <1>3 DEF AllServed, Served
<1>5. AllFetched(class, n) = [i \in 1..Len(k) |-> Write(k[i], Values(class, n)[i])]
  BY <1>1 DEF AllFetched, Fetched
<1>6. WriteFields(s, Values(class, n)) = FlattenSeq(AllServed(class, n)) /\ AllServed(class, n) \in Seq(Seq(Bytes))
  BY <1>2, <1>4, WriteFieldsType
<1>7. WriteFields(k, Values(class, n)) = FlattenSeq(AllFetched(class, n)) /\ AllFetched(class, n) \in Seq(Seq(Bytes))
  BY <1>1, <1>5, WriteFieldsType
<1>8. Len(AllServed(class, n)) = Len(k) /\ Len(AllFetched(class, n)) = Len(k)
  BY <1>1, <1>3 DEF AllServed, AllFetched
<1>9. QED BY <1>1, <1>2, <1>3, <1>6, <1>7, <1>8

\* Is the list of slots one with an item?
WithItem(class, n) == class \in SlotClasses /\ \E i \in DOMAIN Values(class, n) : ItemAt(class, n, i)

(* Without an item, everything that is written is read.                    *)
LEMMA NoItemServed ==
    ASSUME NEW class \in DOMAIN Fields, NEW n \in Ns, ~WithItem(class, n)
    PROVE  WriteFields(ServerKinds(class, n), Values(class, n)) = WriteFields(Kinds(class, n), Values(class, n))
<1>1. Values(class, n) \in Seq(FieldValues) BY ValuesFit DEF Fitting
<1>2. \A i \in 1..Len(Kinds(class, n)) : ~(class \in SlotClasses /\ ItemAt(class, n, i))
  BY <1>1, FieldsServed DEF WithItem
<1>3. \A i \in 1..Len(Kinds(class, n)) : Served(class, n, i) = Fetched(class, n, i) BY <1>2, FieldServed
<1>4. AllServed(class, n) = AllFetched(class, n) BY <1>3 DEF AllServed, AllFetched
<1>5. QED BY <1>4, FieldsServed

\* The first item.
FirstItem(class, n, i) == ItemAt(class, n, i) /\ \A j \in 1..(i - 1) : ~ItemAt(class, n, j)

(* With one, everything up to the first one is, and something is left.     *)
LEMMA FirstItemServed ==
    ASSUME NEW class \in SlotClasses, NEW n \in Ns, NEW i, FirstItem(class, n, i)
    PROVE  \E x \in Seq(Bytes) :
              /\ x # << >>
              /\ WriteFields(ServerKinds(class, n), Values(class, n))
                    = WriteFields(SubSeq(Kinds(class, n), 1, i), SubSeq(Values(class, n), 1, i)) \o x
<1>1. class \in DOMAIN Fields BY SlotLayouts DEF SlotClasses
<1>2. PICK k \in Seq(Kind), v \in Seq(FieldValues) :
         k = Kinds(class, n) /\ v = Values(class, n) /\ Fitting(k, v)
  BY <1>1, ValuesFit DEF Fitting
<1>3. PICK p \in Seq(Seq(Bytes)) : p = AllServed(class, n) /\ Len(p) = Len(k) BY <1>1, <1>2, FieldsServed
<1>4. PICK q \in Seq(Seq(Bytes)) : q = AllFetched(class, n) /\ Len(q) = Len(k) BY <1>1, <1>2, FieldsServed
<1>5. i \in 3..Len(k) /\ i \in 1..Len(k) BY <1>2, ItemIsSlot DEF FirstItem
<1>6. \A j \in 1..Len(k) : p[j] = Served(class, n, j) /\ q[j] = Fetched(class, n, j)
  BY <1>2, <1>3, <1>4 DEF AllServed, AllFetched
<1>7. \A j \in 1..(i - 1) : p[j] = q[j]
  <2>1. \A j \in 1..(i - 1) : j \in 1..Len(k) BY <1>5
  <2>2. QED BY <1>1, <1>2, <1>6, <2>1, FieldServed DEF FirstItem
<1>8. p[i] = q[i] \o <<0>> BY <1>1, <1>2, <1>5, <1>6, FieldServed DEF FirstItem
<1>9. <<0>> \in Seq(Bytes) BY ZeroIsOneByte
<1>10. PICK z \in Seq(Bytes) : FlattenSeq(p) = FlattenSeq(SubSeq(q, 1, i)) \o (<<0>> \o z)
  <2>1. Len(p) = Len(q) /\ i \in 1..Len(p) BY <1>3, <1>4, <1>5
  <2>2. PICK y \in Seq(Bytes) : y = <<0>> /\ p[i] = q[i] \o y BY <1>8, <1>9
  <2>3. \E z \in Seq(Bytes) : FlattenSeq(p) = FlattenSeq(SubSeq(q, 1, i)) \o (y \o z)
    BY <1>7, <2>1, <2>2, PieceDiffers
  <2>4. QED BY <2>2, <2>3
<1>11. WriteFields(SubSeq(k, 1, i), SubSeq(v, 1, i)) = FlattenSeq(SubSeq(q, 1, i))
  <2>1. i \in 0..Len(k) BY <1>5
  <2>2. PICK a \in Seq(Kind) : a = SubSeq(k, 1, i) /\ Len(a) = i /\ Fitting(a, SubSeq(v, 1, i))
    BY <1>2, <2>1, FittingCut
  <2>3. WriteFields(a, SubSeq(v, 1, i)) = FlattenSeq([j \in 1..i |-> Write(a[j], SubSeq(v, 1, i)[j])])
    BY <2>2, WriteFieldsType
  <2>4. \A j \in 1..i : a[j] = k[j] /\ SubSeq(v, 1, i)[j] = v[j] BY <1>5, <2>2
  <2>5. \A j \in 1..i : Write(a[j], SubSeq(v, 1, i)[j]) = q[j]
    <3>1. \A j \in 1..i : j \in 1..Len(k) BY <1>5
    <3>2. QED BY <1>2, <1>6, <2>4, <3>1 DEF Fetched
  <2>6. PICK y \in Seq(Seq(Bytes)) : y = SubSeq(q, 1, i) /\ Len(y) = i
    <3>1. i \in 0..Len(q) BY <1>4, <2>1
    <3>2. SubSeq(q, 1, i) \in Seq(Seq(Bytes)) /\ Len(SubSeq(q, 1, i)) = i BY <3>1, Cut
    <3>3. QED BY <3>2
  <2>7. \A j \in 1..i : y[j] = q[j] BY <1>4, <1>5, <2>6
  <2>8. y = [j \in 1..i |-> y[j]] BY <2>6
  <2>9. y = [j \in 1..i |-> Write(a[j], SubSeq(v, 1, i)[j])] BY <2>5, <2>7, <2>8
  <2>10. QED BY <2>2, <2>3, <2>6, <2>9
<1>12. PICK x \in Seq(Bytes) : x = <<0>> \o z BY <1>9, ConcatIn
<1>13. x # << >>
  <2>1. Len(<<0>> \o z) # 0 /\ Len(<< >>) = 0 OBVIOUS
  <2>2. QED BY <1>12, <2>1
<1>14. QED BY <1>1, <1>2, <1>3, <1>10, <1>11, <1>12, <1>13, FieldsServed

-----------------------------------------------------------------------------
(* Frames.  No class of the server writes nothing: its first field is at   *)
(* least a byte.                                                           *)
LEMMA FieldWritten ==
    ASSUME NEW kind \in Kind, NEW v \in ValuesOf(kind)
    PROVE  Write(kind, v) # << >>
<1>1. CASE kind = "VarInt"
  <2>1. v \in Nat BY <1>1, ValuesOfType
  <2>2. QED BY <1>1, <2>1, WriteCases, VarIntComplete DEF Complete
<1>2. CASE kind \in {"String", "ByteArray"}
  <2>1. v \in Seq(Bytes) BY <1>2, ValuesOfType
  <2>2. Len(v) \in Nat BY <2>1
  <2>3. PICK u \in Seq(Bytes) : u = VarInt[Len(v)] /\ u # << >> BY <2>2, VarIntComplete DEF Complete
  <2>4. u \o v # << >> BY <2>1, <2>3
  <2>5. QED BY <1>2, <2>3, <2>4, WriteCases
<1>3. CASE kind \in {"Slot", "SlotAndNbt"}
  <2>1. v \in {NoItem} \cup Items BY <1>3 DEF ValuesOf
  <2>2. v \in Seq(Bytes) /\ Len(v) \in {2, 5} BY <2>1, NoItemType DEF Items, Wide
  <2>3. v # << >> /\ Append(v, 0) # << >>
    <3>1. Len(v) # 0 /\ Len(Append(v, 0)) # 0 /\ Len(<< >>) = 0 BY <2>2
    <3>2. QED BY <3>1
  <2>4. QED BY <1>3, <2>3, WriteCases
<1>4. CASE kind \in DOMAIN Width
  <2>1. v \in Wide(Width[kind]) /\ Width[kind] # 0 BY <1>4, ValuesOfType, WidthType
  <2>2. v # << >> BY <2>1 DEF Wide
  <2>3. QED BY <1>4, <2>2, WriteCases
<1>5. QED BY <1>1, <1>2, <1>3, <1>4 DEF Kind

(* So something is written behind the id of every class.                   *)
LEMMA SomeServed ==
    ASSUME NEW class \in DOMAIN Fields, NEW n \in Ns
    PROVE  DataOf(class, n) # << >>
<1>1. n \in Nat BY TwoBytes
<1>2. PICK k \in Seq(Kind) : k = Kinds(class, n) /\ Fitting(k, Values(class, n)) BY ValuesFit
<1>3. Len(k) >= 1
  <2>1. PICK f \in Seq(Kind), r \in Seq(Kind) : f = Fields[class] /\ k = f \o r BY <1>1, <1>2, KindsType
  <2>2. f # << >>
    <3>1. CASE class = "SetSlot"
      <4>1. f = <<"Byte", "Short", "Slot">> BY <2>1, <3>1, SlotLayouts
      <4>2. QED BY <4>1
    <3>2. CASE class # "SetSlot" BY <2>1, <3>2, FieldsPlain
    <3>3. QED BY <3>1, <3>2
  <2>3. QED BY <2>1, <2>2
<1>4. PICK p \in Seq(Seq(Bytes)) : p = AllServed(class, n) /\ Len(p) = Len(k) BY <1>2, FieldsServed
<1>5. p[1] # << >>
  <2>1. 1 \in 1..Len(k) BY <1>3
  <2>2. p[1] = Write(ServerKinds(class, n)[1], Values(class, n)[1]) BY <1>2, <1>4, <2>1 DEF AllServed, Served
  <2>3. PICK s \in Seq(Kind) : s = ServerKinds(class, n) /\ Fitting(s, Values(class, n)) BY ServerValuesFit
  <2>4. Len(s) = Len(k) BY <1>2, <2>3 DEF Fitting
  <2>5. s[1] \in Kind /\ Values(class, n)[1] \in ValuesOf(s[1]) BY <2>1, <2>3, <2>4 DEF Fitting
  <2>6. QED BY <2>2, <2>3, <2>5, FieldWritten
<1>6. Behind(p, 0) = p[1] \o Behind(p, 1) /\ Behind(p, 1) \in Seq(Bytes)
  <2>1. 0 < Len(p) /\ 1 <= Len(p) /\ 0 + 1 = 1 BY <1>3, <1>4
  <2>2. Behind(p, 0) = p[0 + 1] \o Behind(p, 0 + 1) BY <2>1, BehindTake
  <2>3. Behind(p, 1) \in Seq(Bytes) BY <2>1, BehindTake
  <2>4. QED BY <2>1, <2>2, <2>3
<1>7. Behind(p, 0) = FlattenSeq(p)
  <2>1. SubSeq(p, 0 + 1, Len(p)) = p OBVIOUS
  <2>2. QED BY <2>1 DEF Behind
<1>8. p[1] \in Seq(Bytes) BY <1>3, <1>4
<1>9. p[1] \o Behind(p, 1) # << >> BY <1>5, <1>6, <1>8
<1>10. QED BY <1>4, <1>6, <1>7, <1>9, FieldsServed DEF DataOf

(* What is counted can be told from the count and what follows it.         *)
LEMMA SameCounted ==
    ASSUME NEW a \in Seq(Bytes), NEW b \in Seq(Bytes), Counted(a) = Counted(b)
    PROVE  a = b
<1>1. Len(a) \in Nat /\ Len(b) \in Nat OBVIOUS
<1>2. \A c \in Seq(Bytes) : ReadVarInt(Reader(Counted(c))).left = c
  <2> SUFFICES ASSUME NEW c \in Seq(Bytes) PROVE ReadVarInt(Reader(Counted(c))).left = c OBVIOUS
  <2>1. Len(c) \in Nat OBVIOUS
  <2>2. ReadVarInt(Reader(VarInt[Len(c)] \o c)) = [ok |-> TRUE, left |-> c, got |-> <<Len(c)>>]
    BY <2>1, ReadNumber
  <2>3. ReadVarInt(Reader(Counted(c))) = [ok |-> TRUE, left |-> c, got |-> <<Len(c)>>]
    BY <2>2 DEF Counted
  <2>4. QED BY <2>3
<1>3. QED BY <1>2

(* inflate with too little room, with enough, and with two bytes too much. *)
LEMMA Inflating ==
    ASSUME NEW b \in Seq(Bytes), NEW announced \in Nat
    PROVE  /\ announced < Len(b) => Inflated(<<1>> \o b, announced) = {}
           /\ announced = Len(b) => Inflated(<<1>> \o b, announced) = {b}
           /\ announced = Len(b) + 2 => \E x \in Seq(Bytes) : Inflated(<<1>> \o b, announced) = {b \o x}
<1> DEFINE data == <<1>> \o b
<1>1. Head(data) = 1 /\ Tail(data) = b OBVIOUS
<1>2. Inflated(data, announced) = IF Len(b) <= announced THEN {Padded(b, announced)} ELSE {}
  <2>1. 1 # 0 OBVIOUS
  <2> HIDE DEF data
  <2>2. QED BY <1>1, <2>1 DEF Inflated
<1>3. Len(b) \in Nat OBVIOUS
<1>4. ASSUME announced = Len(b) PROVE Padded(b, announced) = b
  <2>1. [j \in 1..(announced - Len(b)) |-> 0] = << >> BY <1>3, <1>4
  <2>2. b \o << >> = b OBVIOUS
  <2>3. QED BY <2>1, <2>2 DEF Padded
<1>5. ASSUME announced = Len(b) + 2 PROVE \E x \in Seq(Bytes) : Padded(b, announced) = b \o x
  <2>1. announced - Len(b) = 2 BY <1>3, <1>5
  <2>2. 0 \in Bytes BY RadixAssumption DEF Bytes
  <2>3. [j \in 1..2 |-> 0] \in Seq(Bytes) BY <2>2
  <2>4. QED BY <2>1, <2>3 DEF Padded
<1> HIDE DEF data
<1>6. announced < Len(b) => ~(Len(b) <= announced) BY <1>3
<1>7. announced = Len(b) => Len(b) <= announced BY <1>3
<1>8. announced = Len(b) + 2 => Len(b) <= announced BY <1>3
<1>9. QED BY <1>2, <1>4, <1>5, <1>6, <1>7, <1>8 DEF data

(* What a packet is unpacked to.                                           *)
LEMMA Unpacking ==
    ASSUME NEW b \in Seq(Bytes), b # << >>, NEW packing \in Packings, packing # "damaged",
           packing = "tooShort" => Len(b) > 1, threshold \in Int, threshold < 0 => packing = "plain",
           NEW c \in Seq(Bytes), Frame(b, packing) = Counted(c)
    PROVE  /\ packing = "tooShort" => Unpacked(c) = {}
           /\ packing # "tooShort" => \E x \in Seq(Bytes) : Unpacked(c) = {b \o x}
           /\ packing \in {"plain", "zlib"} => Unpacked(c) = {b}
<1>1. packing \in {"plain", "zlib", "tooShort", "tooLong"} BY FramingAssumption
<1>2. b \o << >> = b /\ << >> \in Seq(Bytes) BY Neutral
<1>3. CASE threshold < 0
  <2>1. Counted(c) = Counted(b) BY <1>3 DEF Frame
  <2>2. c = b BY <2>1, SameCounted
  <2>3. Unpacked(c) = {b} BY <1>3, <2>2 DEF Unpacked
  <2>4. packing = "plain" BY <1>3
  <2>5. QED BY <1>2, <2>3, <2>4
<1>4. CASE threshold >= 0 /\ packing = "plain"
  <2>1. Counted(c) = Counted(<<0>> \o b) BY <1>4 DEF Frame
  <2>2. <<0>> \in Seq(Bytes) /\ <<0>> \o b \in Seq(Bytes) BY ZeroIsOneByte, ConcatIn
  <2>3. c = VarInt[0] \o b BY <2>1, <2>2, SameCounted, ZeroIsOneByte
  <2>4. ReadVarInt(Reader(c)) = [ok |-> TRUE, left |-> b, got |-> <<0>>] BY <2>3, ReadNumber
  <2>5. Unpacked(c) = {b} BY <1>4, <2>4 DEF Unpacked
  <2>6. QED BY <1>2, <1>4, <2>5
<1>5. CASE threshold >= 0 /\ packing # "plain"
  <2> DEFINE announced == CASE packing = "tooShort" -> Len(b) - 1
                            [] packing = "tooLong" -> Len(b) + 2
                            [] OTHER -> Len(b)
             d == <<1>> \o b
  <2>1. Len(b) \in Nat /\ Len(b) # 0 OBVIOUS
  <2>2. announced \in Nat \ {0}
    <3>0. PICK l \in Nat : l = Len(b) /\ (packing = "tooShort" => l > 1) BY <2>1
    <3>1. packing = "tooShort" => Len(b) - 1 \in Nat \ {0} BY <3>0
    <3>2. Len(b) + 2 \in Nat \ {0} /\ Len(b) \in Nat \ {0} BY <2>1
    <3>3. QED BY <3>1, <3>2
  <2>3. Deflate(b, packing # "damaged") = d BY DEF Deflate
  <2>4. 1 \in Bytes BY RadixAssumption DEF Bytes
  <2>5. d \in Seq(Bytes) BY <2>4
  <2>6. /\ packing = "tooShort" => announced < Len(b)
        /\ packing = "tooLong" => announced = Len(b) + 2
        /\ packing = "zlib" => announced = Len(b)
    BY <2>1
  <2>7. Frame(b, packing) = Counted(VarInt[announced] \o d)
    <3> HIDE DEF d
    <3>1. QED BY <1>5, <2>3 DEF Frame
  <2>8. Unpacked(c) = Inflated(d, announced)
    <3> HIDE DEF announced, d
    <3>1. VarInt[announced] \o d \in Seq(Bytes) /\ ReadVarInt(Reader(VarInt[announced] \o d)) =
             [ok |-> TRUE, left |-> d, got |-> <<announced>>]
      BY <2>2, <2>5, ReadNumber
    <3>2. c = VarInt[announced] \o d BY <2>7, <3>1, SameCounted
    <3>3. <<announced>> # <<0>> /\ <<announced>>[1] = announced BY <2>2
    <3>4. QED BY <1>5, <3>1, <3>2, <3>3 DEF Unpacked
  <2> HIDE DEF announced
  <2>9. CASE packing = "tooShort" BY <2>2, <2>6, <2>8, <2>9, Inflating
  <2>10. CASE packing = "tooLong" BY <2>2, <2>6, <2>8, <2>10, Inflating
  <2>11. CASE packing = "zlib"
    <3>1. Unpacked(c) = {b} BY <2>2, <2>6, <2>8, <2>11, Inflating
    <3>2. QED BY <1>2, <2>11, <3>1
  <2>12. QED BY <1>1, <1>5, <2>9, <2>10, <2>11
<1>6. threshold < 0 \/ threshold >= 0 OBVIOUS
<1>7. QED BY <1>3, <1>4, <1>5, <1>6

-----------------------------------------------------------------------------
(* What a packet is received as.  Its bytes, with the last one cut off.    *)
LEMMA FrontCut ==
    ASSUME NEW b \in Seq(Bytes), b # << >>
    PROVE  /\ Front(b) \in Seq(Bytes)
           /\ \E t \in Seq(Bytes) : t # << >> /\ Front(b) \o t = b
           /\ \A a \in Seq(Bytes) : Front(a \o b) = a \o Front(b)
<1>1. PICK l \in Nat : l + 1 = Len(b)
  <2>1. Len(b) \in Nat /\ Len(b) # 0 OBVIOUS
  <2>2. Len(b) - 1 \in Nat /\ (Len(b) - 1) + 1 = Len(b) BY <2>1
  <2>3. QED BY <2>2
<1>2. l \in 0..Len(b) BY <1>1
<1>3. Front(b) = SubSeq(b, 1, l) BY <1>1 DEF Front
<1>4. SubSeq(b, 1, l) \in Seq(Bytes) BY <1>2, Cut
<1>5. /\ SubSeq(b, l + 1, Len(b)) \in Seq(Bytes) /\ Len(SubSeq(b, l + 1, Len(b))) = Len(b) - l
      /\ b = SubSeq(b, 1, l) \o SubSeq(b, l + 1, Len(b))
  BY <1>2, Cut
<1>6. PICK f \in Seq(Bytes), t \in Seq(Bytes) : f = Front(b) /\ b = f \o t /\ Len(t) = 1
  <2>1. Len(b) - l = 1 BY <1>1
  <2>2. Len(SubSeq(b, l + 1, Len(b))) = 1 BY <1>5, <2>1
  <2>3. QED BY <1>3, <1>4, <1>5, <2>2
<1>7. t # << >>
  <2> SUFFICES ASSUME t = << >> PROVE FALSE OBVIOUS
  <2>1. Len(t) = 1 BY <1>6
  <2>2. Len(<< >>) = 0 OBVIOUS
  <2>3. QED BY <2>1, <2>2
<1>8. ASSUME NEW a \in Seq(Bytes) PROVE Front(a \o b) = a \o f
  <2>1. PICK c \in Seq(Bytes) : c = a \o f BY ConcatIn
  <2>2. a \o b = c \o t
    <3>1. (a \o f) \o t = a \o (f \o t) BY Associative
    <3>2. QED BY <1>6, <2>1, <3>1
  <2>3. Len(c \o t) = Len(c) + 1 /\ Len(c) \in Nat
    <3>1. Len(c \o t) = Len(c) + Len(t) /\ Len(c) \in Nat OBVIOUS
    <3>2. QED BY <1>6, <3>1
  <2>4. SubSeq(c \o t, 1, Len(c)) = c BY BehindBody
  <2>5. Front(c \o t) = c BY <2>3, <2>4 DEF Front
  <2>6. QED BY <2>1, <2>2, <2>5
<1>9. QED BY <1>6, <1>7, <1>8

(* What the server sends begins with the id and the fields; cut, the last  *)
(* byte is missing.                                                        *)
LEMMA BodyBegins ==
    ASSUME NEW class \in DOMAIN Id, NEW n \in Ns, NEW content \in Contents, NEW x \in Seq(Bytes)
    PROVE  /\ content # "cut" => \E y \in Seq(Bytes) :
                 Body(class, n, content) \o x = VarInt[Id[class]] \o (DataOf(class, n) \o y)
           /\ content = "cut" /\ DataOf(class, n) # << >> =>
                 Body(class, n, content) = VarInt[Id[class]] \o Front(DataOf(class, n))
<1>1. PICK w \in Seq(Bytes) : w = DataOf(class, n) BY DataType
<1>2. PICK u \in Seq(Bytes) : u = VarInt[Id[class]] BY IdType, VarIntDef
<1>3. 1 \in Bytes /\ Radix \in Bytes BY RadixAssumption DEF Bytes
<1>4. PICK e \in Seq(Bytes) : e = <<1, Radix>>
  <2>1. <<1, Radix>> \in Seq(Bytes) BY <1>3
  <2>2. QED BY <2>1
<1>5. content \in {"whole", "cut", "extra"} BY FramingAssumption
<1>6. Body(class, n, content) = CASE content = "whole" -> u \o w
                                  [] content = "cut" -> Front(u \o w)
                                  [] content = "extra" -> (u \o w) \o e
  BY <1>1, <1>2, <1>4 DEF Body, DataOf
<1>7. CASE content = "whole"
  <2>1. (u \o w) \o x = u \o (w \o x) BY Associative
  <2>2. QED BY <1>1, <1>2, <1>6, <1>7, <2>1
<1>8. CASE content = "extra"
  <2>1. ((u \o w) \o e) \o x = u \o (w \o (e \o x)) 
    <3>1. Regrouped(u, w, e, x) BY FourPieces
    <3>2. QED BY <3>1 DEF Regrouped
  <2>2. e \o x \in Seq(Bytes) BY ConcatIn
  <2>3. QED BY <1>1, <1>2, <1>6, <1>8, <2>1, <2>2
<1>9. CASE content = "cut"
  <2>1. ASSUME w # << >> PROVE Front(u \o w) = u \o Front(w) BY <2>1, FrontCut
  <2>2. QED BY <1>1, <1>2, <1>6, <1>9, <2>1
<1>10. QED BY <1>5, <1>7, <1>8, <1>9

(* Behind the id, FromStream of the class reads the fields.                *)
LEMMA KnownReceived ==
    ASSUME state \in {"Status", "Login", "Play"}, NEW class \in Parsed(state), NEW bytes, NEW d,
           ReadVarInt(Reader(bytes)) = [ok |-> TRUE, left |-> d, got |-> <<Id[class]>>]
    PROVE  ReceivePacketByPacketId(bytes) =
              IF FromStream(class, d).ok THEN [class |-> class, values |-> FromStream(class, d).got]
              ELSE Exception
<1> DEFINE id == ReadVarInt(Reader(bytes))
           classes == {c \in Parsed(state) : Id[c] = id.got[1]}
           it == CHOOSE c \in classes : TRUE
           fields == FromStream(it, id.left)
<1>1. id.ok /\ id.left = d /\ id.got[1] = Id[class] OBVIOUS
<1> HIDE DEF id
<1>2. classes = {class} BY <1>1, IdsDiffer
<1>3. it = class BY <1>2
<1>4. ReceivePacketByPacketId(bytes) =
         CASE ~id.ok -> Exception
           [] id.ok /\ classes = {} -> NoPacket
           [] OTHER -> IF fields.ok THEN [class |-> it, values |-> fields.got] ELSE Exception
  BY DEF ReceivePacketByPacketId, id
<1> HIDE DEF classes, it
<1>5. classes # {} BY <1>2
<1>6. fields = FromStream(class, d) BY <1>1, <1>3
<1> HIDE DEF fields
<1>7. QED BY <1>1, <1>3, <1>4, <1>5, <1>6

(* There is no class for the id of EntityAnimationCB.                      *)
LEMMA UnknownReceived ==
    ASSUME state \in {"Status", "Login", "Play"}, NEW bytes, NEW d,
           ReadVarInt(Reader(bytes)) = [ok |-> TRUE, left |-> d, got |-> <<Id["EntityAnimationCB"]>>]
    PROVE  ReceivePacketByPacketId(bytes) = NoPacket
<1> DEFINE id == ReadVarInt(Reader(bytes))
           classes == {c \in Parsed(state) : Id[c] = id.got[1]}
<1>1. id.ok /\ id.got[1] = Id["EntityAnimationCB"] OBVIOUS
<1> HIDE DEF id
<1>2. classes = {} BY <1>1, IdsDiffer
<1>3. QED BY <1>1, <1>2 DEF ReceivePacketByPacketId, id

(* Without an item, every field is read, whatever follows them.            *)
LEMMA PlainFields ==
    ASSUME NEW class \in DOMAIN Fields, NEW n \in Ns, ~WithItem(class, n), NEW y \in Seq(Bytes)
    PROVE  AllFields(class, DataOf(class, n) \o y) = AtEndOf(y, Values(class, n))
<1>1. PICK k \in Seq(Kind), v \in Seq(FieldValues) :
         k = Kinds(class, n) /\ v = Values(class, n) /\ Fitting(k, v)
  BY ValuesFit DEF Fitting
<1>2. n \in Nat BY TwoBytes
<1>3. PICK m \in Nat : m = Len(k) /\ m = Len(v) BY <1>1 DEF Fitting
<1>4. m >= Len(Fields[class])
  <2>1. PICK f \in Seq(Kind), r \in Seq(Kind) : f = Fields[class] /\ k = f \o r BY <1>1, <1>2, KindsType
  <2>2. Len(f \o r) = Len(f) + Len(r) /\ Len(f) \in Nat /\ Len(r) \in Nat OBVIOUS
  <2>3. Len(k) >= Len(f) BY <2>1, <2>2
  <2>4. QED BY <1>3, <2>1, <2>3
<1>5. SubSeq(k, 1, m) = k /\ SubSeq(v, 1, m) = v /\ SubSeq(k, m + 1, m) = << >>
  <2>1. SubSeq(k, 1, Len(k)) = k /\ SubSeq(v, 1, Len(v)) = v OBVIOUS
  <2>2. SubSeq(k, m + 1, m) = << >> OBVIOUS
  <2>3. QED BY <1>3, <2>1, <2>2
<1>6. DataOf(class, n) = WriteFields(k, v) BY <1>1, NoItemServed DEF DataOf
<1>7. AllFields(class, WriteFields(SubSeq(k, 1, m), SubSeq(v, 1, m)) \o y)
         = ReadFields(AtEndOf(y, SubSeq(v, 1, m)), SubSeq(k, m + 1, Len(k)))
  <2>1. m <= Len(Kinds(class, n)) BY <1>1, <1>3
  <2>2. QED BY <1>1, <1>4, <2>1, BeginningRead
<1>8. AllFields(class, DataOf(class, n) \o y) = ReadFields(AtEndOf(y, v), << >>) BY <1>3, <1>5, <1>6, <1>7
<1>9. AtEndOf(y, v) \in Readers BY DEF AtEndOf, Readers
<1>10. QED BY <1>1, <1>8, <1>9, ReadNone

(* With one, those up to the first are, whatever follows them.             *)
LEMMA ItemFields ==
    ASSUME NEW class \in SlotClasses, NEW n \in Ns, NEW i, FirstItem(class, n, i), NEW y \in Seq(Bytes)
    PROVE  LET v == Values(class, n)
               q == AllFields(class, WriteFields(SubSeq(Kinds(class, n), 1, i), SubSeq(v, 1, i)) \o y)
           IN /\ q.ok => Len(q.got) = Len(v) /\ SubSeq(q.got, 1, i) = SubSeq(v, 1, i)
              /\ class = "SetSlot" => q.ok /\ q.got = v
<1>1. n \in Nat /\ class \in DOMAIN Fields BY TwoBytes, SlotKinds
<1>2. PICK k \in Seq(Kind), v \in Seq(FieldValues) :
         k = Kinds(class, n) /\ v = Values(class, n) /\ Fitting(k, v)
  BY <1>1, ValuesFit DEF Fitting
<1>3. Len(v) = Len(k) /\ Len(k) \in Nat BY <1>2 DEF Fitting
<1>4. i \in 3..Len(k) BY <1>2, ItemIsSlot DEF FirstItem
<1>5. i \in Nat /\ i >= Len(Fields[class]) /\ i <= Len(k) /\ i \in 0..Len(k)
  <2>1. PICK l \in {2, 3} : l = Len(Fields[class]) BY <1>1, SlotKinds
  <2>2. PICK m \in Nat : m = Len(k) BY <1>3
  <2>3. i \in 3..m BY <1>4, <2>2
  <2>4. i \in Nat /\ i >= l /\ i <= m /\ i \in 0..m BY <2>3
  <2>5. QED BY <2>1, <2>2, <2>4
<1>6. PICK r \in Seq(Kind) : r = SubSeq(k, i + 1, Len(k)) /\ Len(r) = Len(k) - i
  <2>1. SubSeq(k, i + 1, Len(k)) \in Seq(Kind) /\ Len(SubSeq(k, i + 1, Len(k))) = Len(k) - i BY <1>5, Cut
  <2>2. QED BY <2>1
<1>7. PICK w \in Seq(FieldValues) : w = SubSeq(v, 1, i) /\ Len(w) = i
  <2>1. SubSeq(v, 1, i) \in Seq(FieldValues) /\ Len(SubSeq(v, 1, i)) = i BY <1>3, <1>5, Cut
  <2>2. QED BY <2>1
<1>8. AllFields(class, WriteFields(SubSeq(k, 1, i), w) \o y) = ReadFields(AtEndOf(y, w), r)
  BY <1>1, <1>2, <1>5, <1>6, <1>7, BeginningRead
<1>9. AtEndOf(y, w) \in Readers /\ AtEndOf(y, w).got = w BY DEF AtEndOf, Readers
<1>10. PICK q \in Readers : q = ReadFields(AtEndOf(y, w), r) /\ Grown(AtEndOf(y, w), q, Len(r))
  BY <1>9, ReadGrows DEF Grown
<1>11. q.ok => Len(q.got) = Len(v) /\ SubSeq(q.got, 1, i) = w
  <2>1. q.ok => Len(q.got) = Len(w) + Len(r) /\ SubSeq(q.got, 1, Len(w)) = w BY <1>9, <1>10 DEF Grown
  <2>2. Len(w) + Len(r) = Len(v)
    <3>1. PICK m \in Nat : m = Len(k) /\ m = Len(v) BY <1>3
    <3>2. Len(w) = i /\ Len(r) = m - i BY <1>6, <1>7, <3>1
    <3>3. i + (m - i) = m BY <1>5
    <3>4. QED BY <3>1, <3>2, <3>3
  <2>3. QED BY <1>7, <2>1, <2>2
<1>12. class = "SetSlot" => q.ok /\ q.got = v
  <2> SUFFICES ASSUME class = "SetSlot" PROVE q.ok /\ q.got = v OBVIOUS
  <2>1. Len(k) = 3 BY <1>1, <1>2, SlotKinds
  <2>a. i = 3 BY <1>4, <2>1
  <2>2. r = << >>
    <3>1. Len(r) = 0 BY <1>6, <2>1, <2>a
    <3>2. QED BY <3>1
  <2>3. q = AtEndOf(y, w) BY <1>9, <1>10, <2>2, ReadNone
  <2>4. w = v
    <3>1. SubSeq(v, 1, Len(v)) = v OBVIOUS
    <3>2. QED BY <1>3, <1>7, <2>1, <2>a, <3>1
  <2>5. QED BY <2>3, <2>4 DEF AtEndOf
<1>13. QED BY <1>2, <1>7, <1>8, <1>10, <1>11, <1>12

(* What FromStream returns of them: an exception for a text Chat rejects,  *)
(* and of a pong the int.                                                  *)
LEMMA PlainReceived ==
    ASSUME NEW class \in DOMAIN Fields, NEW n \in Ns, ~WithItem(class, n), NEW y \in Seq(Bytes)
    PROVE  LET r == FromStream(class, DataOf(class, n) \o y)
               v == Values(class, n)
           IN /\ Rejected(class, v) => ~r.ok
              /\ ~Rejected(class, v) => r.ok /\ r.got = Kept(class, v)
<1>1. PICK d, v : d = DataOf(class, n) \o y /\ v = Values(class, n) OBVIOUS
<1>2. AllFields(class, d) = AtEndOf(y, v) BY <1>1, PlainFields
<1>3. PICK q : q = AtEndOf(y, v) OBVIOUS
<1>4. q.ok /\ q.got = v BY <1>3 DEF AtEndOf
<1>5. PICK k : k = Kept(class, v) OBVIOUS
<1>6. CASE Rejected(class, v)
  <2>1. FromStream(class, d) = OutOfData(q) BY <1>2, <1>3, <1>4, <1>6, FromAllFields
  <2>2. ~OutOfData(q).ok BY <1>3 DEF OutOfData, AtEndOf
  <2>3. QED BY <1>1, <1>6, <2>1, <2>2
<1>7. CASE ~Rejected(class, v)
  <2>1. FromStream(class, d) = WithValues(q, k) BY <1>2, <1>3, <1>4, <1>5, <1>7, FromAllFields
  <2>2. WithValues(q, k).ok /\ WithValues(q, k).got = k BY <1>3 DEF WithValues, AtEndOf
  <2>3. QED BY <1>1, <1>5, <1>7, <2>1, <2>2
<1>8. QED BY <1>6, <1>7

(* FromStream returns nothing when fields are missing.                     *)
LEMMA MissedFields ==
    ASSUME NEW class, NEW d, ~AllFields(class, d).ok
    PROVE  ~FromStream(class, d).ok
BY FromAllFields

\* A frame as the server sends it; n is that of the values.
Made(f, n) ==
    /\ n \in Ns /\ f.class \in Parsed(state) \cup {"EntityAnimationCB"}
    /\ f.content \in Contents /\ f.packing \in Packings
    /\ threshold < 0 => f.packing = "plain"
    /\ f.content # "whole" => f.packing \in {"plain", "zlib"}
    /\ f.class = "EntityAnimationCB" => f.content = "whole"
    /\ f.packing = "tooShort" => Len(Body(f.class, n, f.content)) > 1
    /\ f.values = Values(f.class, n)
    /\ f.bytes = Frame(Body(f.class, n, f.content), f.packing)

(* Which item is the first.                                                *)
LEMMA TheFirst ==
    ASSUME NEW class \in SlotClasses, NEW n \in Ns, WithItem(class, n)
    PROVE  \E i : /\ FirstItem(class, n, i) /\ i \in Nat
                  /\ Min({j \in DOMAIN Values(class, n) : Len(Values(class, n)[j]) = 5}) = i
<1>1. class \in DOMAIN Fields BY SlotLayouts DEF SlotClasses
<1>2. PICK v \in Seq(FieldValues) : v = Values(class, n) BY <1>1, ValuesFit DEF Fitting
<1> DEFINE items == {j \in DOMAIN v : Len(v[j]) = 5}
<1>3. \A j : ItemAt(class, n, j) <=> j \in items BY <1>2 DEF ItemAt
<1>4. items \in SUBSET Nat /\ items # {} BY <1>2, <1>3 DEF WithItem
<1>5. DOMAIN v = 1..Len(v) /\ Len(v) \in Nat OBVIOUS
<1> HIDE DEF items
<1>6. PICK i \in items : \A j \in items : i <= j BY <1>4, Smallest
<1>7. i \in Nat /\ \A j \in items : j \in Nat BY <1>4
<1>8. Min(items) = i
  <2>1. Min(items) \in items /\ \A y \in items : Min(items) <= y BY <1>6 DEF Min
  <2>2. Min(items) \in Nat /\ i <= Min(items) /\ Min(items) <= i BY <1>6, <1>7, <2>1
  <2>3. QED BY <1>7, <2>2
<1>9. FirstItem(class, n, i)
  <2>1. \A j \in 1..(i - 1) : ~(i <= j) BY <1>7
  <2>2. QED BY <1>3, <1>6, <2>1 DEF FirstItem
<1>10. QED BY <1>2, <1>7, <1>8, <1>9 DEF items

(* A frame holds an item when its values do.                               *)
LEMMA ItemThere ==
    ASSUME NEW n \in Ns, NEW f, f.class \in DOMAIN Fields, f.values = Values(f.class, n)
    PROVE  HasItem(f) <=> WithItem(f.class, n)
<1>1. DOMAIN Values(f.class, n) = 1..Len(Values(f.class, n)) BY ValuesFit DEF Fitting
<1>2. QED BY <1>1 DEF HasItem, WithItem, SlotClasses, ItemAt

(* The fields up to the first item are bytes.                              *)
LEMMA BeginningType ==
    ASSUME NEW class \in SlotClasses, NEW n \in Ns, NEW i, FirstItem(class, n, i)
    PROVE  WriteFields(SubSeq(Kinds(class, n), 1, i), SubSeq(Values(class, n), 1, i)) \in Seq(Bytes)
<1>1. class \in DOMAIN Fields BY SlotLayouts DEF SlotClasses
<1>2. PICK k \in Seq(Kind) : k = Kinds(class, n) /\ Fitting(k, Values(class, n)) BY <1>1, ValuesFit
<1>3. i \in 0..Len(k)
  <2>1. PICK m \in Nat : m = Len(k) OBVIOUS
  <2>2. i \in 3..m BY <1>2, <2>1, ItemIsSlot DEF FirstItem
  <2>3. QED BY <2>1, <2>2
<1>4. PICK a \in Seq(Kind) : a = SubSeq(k, 1, i) /\ Fitting(a, SubSeq(Values(class, n), 1, i))
  <2>1. SubSeq(k, 1, i) \in Seq(Kind) /\ Fitting(SubSeq(k, 1, i), SubSeq(Values(class, n), 1, i))
    BY <1>2, <1>3, FittingCut
  <2>2. QED BY <2>1
<1>5. QED BY <1>2, <1>4, WriteFieldsType

(* A list of slots with an item: it is right up to the first, or it runs   *)
(* out of the packet, unless that is the only slot.                        *)
LEMMA ItemReceived ==
    ASSUME state \in {"Status", "Login", "Play"}, NEW n \in Ns, NEW f, f.values = Values(f.class, n),
           f.class \in Parsed(state), f.class \in SlotClasses, ~EndsEarly(f),
           NEW i, FirstItem(f.class, n, i), NEW y \in Seq(Bytes), NEW u \in Seq(Bytes),
           u = WriteFields(SubSeq(Kinds(f.class, n), 1, i), SubSeq(Values(f.class, n), 1, i)),
           WithItem(f.class, n)
    PROVE  Expected(f, ReceivePacketByPacketId(VarInt[Id[f.class]] \o (u \o y)))
<1> DEFINE p == ReceivePacketByPacketId(VarInt[Id[f.class]] \o (u \o y))
           v == Values(f.class, n)
<1>1. f.class \in DOMAIN Fields /\ f.class \in DOMAIN Id /\ Id[f.class] \in Nat BY ParsedType, IdType
<1>2. PICK d \in Seq(Bytes) : d = u \o y BY ConcatIn
<1>3. ReadVarInt(Reader(VarInt[Id[f.class]] \o d)) = [ok |-> TRUE, left |-> d, got |-> <<Id[f.class]>>]
  BY <1>1, ReadNumber
<1>a. f.class \notin WithChat /\ f.class \notin {"Ping", "Pong"} BY DEF SlotClasses, WithChat
<1>b. ~Rejected(f.class, f.values) /\ Kept(f.class, f.values) = f.values BY <1>a DEF Rejected, Kept
<1>4. PICK q : q = FromStream(f.class, d) /\ q = AllFields(f.class, d)
  BY <1>1, <1>a, AllFieldsType, FieldsAsTheyAre
<1>5. p = IF q.ok THEN [class |-> f.class, values |-> q.got] ELSE Exception BY <1>2, <1>3, <1>4, KnownReceived
<1>6. /\ q.ok => Len(q.got) = Len(v) /\ SubSeq(q.got, 1, i) = SubSeq(v, 1, i)
      /\ f.class = "SetSlot" => q.ok /\ q.got = v
  <2>1. q = AllFields(f.class, u \o y) BY <1>2, <1>4
  <2>2. f.class \in SlotClasses /\ n \in Ns /\ FirstItem(f.class, n, i) /\ y \in Seq(Bytes) OBVIOUS
  <2>3. QED BY <2>1, <2>2, ItemFields
<1>7. HasItem(f) BY <1>1, ItemThere
<1>8. f.class # "EntityAnimationCB" BY DEF SlotClasses
<1> HIDE DEF p
<1>9. CASE f.class = "SetSlot"
  <2>1. p.class = f.class /\ p.values = f.values BY <1>5, <1>6, <1>9
  <2>2. QED BY <1>b, <1>8, <1>9, <2>1 DEF Expected, ReadAs, p
<1>10. CASE f.class = "WindowItems" /\ ~q.ok
  <2>1. p = Exception BY <1>5, <1>10
  <2>2. QED BY <1>b, <1>7, <1>8, <1>10, <2>1 DEF Expected, p
<1>11. CASE f.class = "WindowItems" /\ q.ok
  <2>1. p.class = f.class /\ p.values = q.got BY <1>5, <1>11
  <2>2. PICK m : FirstItem(f.class, n, m) /\ m \in Nat /\ Min({j \in DOMAIN v : Len(v[j]) = 5}) = m
    BY TheFirst
  <2>3. i \in Nat /\ m = i
    <3>1. i \in 3..Len(Kinds(f.class, n)) BY ItemIsSlot DEF FirstItem
    <3>2. Kinds(f.class, n) \in Seq(Kind) BY <1>1, ValuesFit
    <3>3. i \in Nat /\ i >= 3 BY <3>1, <3>2
    <3>4. m \in 3..Len(Kinds(f.class, n)) BY <2>2, ItemIsSlot DEF FirstItem
    <3>5. m \in Nat /\ m >= 3 BY <3>2, <3>4
    <3>6. ~(i < m) /\ ~(m < i)
      <4>1. i < m => i \in 1..(m - 1) BY <3>3, <3>5
      <4>2. m < i => m \in 1..(i - 1) BY <3>3, <3>5
      <4>3. QED BY <2>2, <4>1, <4>2 DEF FirstItem
    <3>7. QED BY <3>3, <3>5, <3>6
  <2>4. PICK w \in Seq(FieldValues) : w = v BY <1>1, ValuesFit DEF Fitting
  <2>5. i \in 0..Len(w) BY <2>3, <2>4 DEF FirstItem, ItemAt
  <2>6. SubSeq(w, 1, i) \in Seq(FieldValues) /\ Len(SubSeq(w, 1, i)) = i BY <2>5, Cut
  <2>7. SubSeq(SubSeq(w, 1, i), 1, i) = SubSeq(w, 1, i) BY <2>6
  <2>8. i <= Len(w) BY <2>5
  <2>9. IsPrefix(SubSeq(v, 1, i), q.got) BY <1>6, <1>11, <2>4, <2>6, <2>7, <2>8 DEF IsPrefix
  <2>10. ReadAs(f, p.values)
    <3>1. Min({j \in DOMAIN f.values : Len(f.values[j]) = 5}) = i BY <2>2, <2>3
    <3>2. QED BY <1>6, <1>7, <1>11, <2>1, <2>9, <3>1 DEF ReadAs
  <2>11. QED BY <1>b, <1>8, <2>1, <2>10 DEF Expected, p
<1>12. QED BY <1>9, <1>10, <1>11 DEF SlotClasses, p

(* Whatever a packet of the server is unpacked to, the client makes of it  *)
(* what it may.                                                            *)
LEMMA FrameAllowed ==
    ASSUME state \in {"Status", "Login", "Play"}, threshold \in Int, NEW n, NEW f, Made(f, n),
           NEW c \in Seq(Bytes), f.bytes = Counted(c)
    PROVE  /\ \A b \in Unpacked(c) : Allowed(f, ReceivePacketByPacketId(b))
           /\ Unpacked(c) = {} => Allowed(f, Exception)
<1> DEFINE content == f.content
           packing == f.packing
           class == f.class
<1>1. /\ n \in Ns /\ class \in Parsed(state) \cup {"EntityAnimationCB"}
      /\ content \in Contents /\ packing \in Packings
      /\ threshold < 0 => packing = "plain"
      /\ content # "whole" => packing \in {"plain", "zlib"}
      /\ class = "EntityAnimationCB" => content = "whole"
      /\ packing = "tooShort" => Len(Body(class, n, content)) > 1
      /\ f.values = Values(class, n)
      /\ f.bytes = Frame(Body(class, n, content), packing)
  BY DEF Made
<1>2. CASE packing = "damaged" BY <1>2 DEF Allowed
<1>3. CASE packing # "damaged"
  <2> SUFFICES /\ \A b \in Unpacked(c) : Expected(f, ReceivePacketByPacketId(b))
               /\ Unpacked(c) = {} => Expected(f, Exception)
    BY DEF Allowed
  <2>1. class \in DOMAIN Id /\ Id[class] \in Nat BY <1>1, IdType
  <2>2. class \in Parsed(state) => class \in DOMAIN Fields /\ class # "EntityAnimationCB"
    BY ParsedType, IdsDiffer
  <2>3. PICK w \in Seq(Bytes) : w = DataOf(class, n) BY <1>1, DataType
  <2>4. content = "cut" => class \in Parsed(state) /\ w # << >>
    <3>1. content = "cut" => class \in Parsed(state) BY <1>1
    <3>2. QED BY <1>1, <2>2, <2>3, <3>1, SomeServed
  <2>5. PICK body \in Seq(Bytes) : body = Body(class, n, content) /\ body # << >>
    <3>1. CASE content # "cut" BY <1>1, <2>1, <3>1, BodyType
    <3>2. CASE content = "cut"
      <4>1. << >> \in Seq(Bytes) BY Neutral
      <4>2. Body(class, n, content) = VarInt[Id[class]] \o Front(w)
        BY <1>1, <2>1, <2>3, <2>4, <3>2, <4>1, BodyBegins
      <4>3. PICK u \in Seq(Bytes) : u = VarInt[Id[class]] /\ u # << >> BY <2>1, VarIntComplete DEF Complete
      <4>4. PICK z \in Seq(Bytes) : z = Front(w) BY <2>4, <3>2, FrontCut
      <4>5. u \o z \in Seq(Bytes) /\ u \o z # << >> BY <4>3
      <4>6. QED BY <4>2, <4>3, <4>4, <4>5
    <3>3. QED BY <3>1, <3>2
  <2>6. Frame(body, packing) = Counted(c) BY <1>1, <2>5
  <2>7. /\ packing = "tooShort" => Unpacked(c) = {}
        /\ packing # "tooShort" => \E x \in Seq(Bytes) : Unpacked(c) = {body \o x}
        /\ packing \in {"plain", "zlib"} => Unpacked(c) = {body}
    <3>1. packing \in Packings /\ packing # "damaged" /\ (threshold < 0 => packing = "plain") BY <1>1, <1>3
    <3>2. packing = "tooShort" => Len(body) > 1 BY <1>1, <2>5
    <3> HIDE DEF packing
    <3>3. PICK k \in Packings : k = packing BY <3>1
    <3>4. k # "damaged" /\ (threshold < 0 => k = "plain") /\ (k = "tooShort" => Len(body) > 1)
      BY <3>1, <3>2, <3>3
    <3>5. Frame(body, k) = Counted(c) /\ body # << >> BY <2>5, <2>6, <3>3
    <3>6. /\ k = "tooShort" => Unpacked(c) = {}
          /\ k # "tooShort" => \E x \in Seq(Bytes) : Unpacked(c) = {body \o x}
          /\ k \in {"plain", "zlib"} => Unpacked(c) = {body}
      BY <3>4, <3>5, Unpacking
    <3>7. QED BY <3>3, <3>6
  <2>8. CASE packing = "tooShort"
    <3>1. Expected(f, Exception) BY <2>8 DEF Expected, EndsEarly
    <3>2. QED BY <2>7, <2>8, <3>1
  <2>9. CASE packing # "tooShort" /\ content # "cut"
    <3>1. PICK x \in Seq(Bytes) : Unpacked(c) = {body \o x} BY <2>7, <2>9
    <3>2. PICK y \in Seq(Bytes) : body \o x = VarInt[Id[class]] \o (w \o y)
      BY <1>1, <2>1, <2>3, <2>5, <2>9, BodyBegins
    <3>3. PICK d \in Seq(Bytes) : d = w \o y BY ConcatIn
    <3>4. ReadVarInt(Reader(VarInt[Id[class]] \o d)) = [ok |-> TRUE, left |-> d, got |-> <<Id[class]>>]
      BY <2>1, ReadNumber
    <3>5. ~EndsEarly(f) BY <2>9 DEF EndsEarly
    <3> DEFINE p == ReceivePacketByPacketId(VarInt[Id[class]] \o d)
    <3>6. SUFFICES Expected(f, p) BY <3>1, <3>2, <3>3
    <3>7. CASE class = "EntityAnimationCB"
      <4>1. p = NoPacket BY <3>4, <3>7, UnknownReceived
      <4>2. ~Rejected(f.class, f.values) BY <3>7 DEF Rejected, WithChat
      <4>3. QED BY <3>5, <3>7, <4>1, <4>2 DEF Expected, p
    <3>8. CASE class \in Parsed(state) /\ ~WithItem(class, n)
      <4>1. PICK v : v = Values(class, n) OBVIOUS
      <4>2. CASE Rejected(class, v)
        <5>1. ~FromStream(class, d).ok BY <1>1, <2>2, <2>3, <3>3, <3>8, <4>1, <4>2, PlainReceived
        <5>2. p = Exception BY <3>4, <3>8, <5>1, KnownReceived
        <5>3. Rejected(f.class, f.values) BY <1>1, <4>1, <4>2
        <5> HIDE DEF p
        <5>4. QED BY <2>2, <3>8, <5>2, <5>3 DEF Expected
      <4>3. CASE ~Rejected(class, v)
        <5>1. FromStream(class, d).ok /\ FromStream(class, d).got = Kept(class, v)
          BY <1>1, <2>2, <2>3, <3>3, <3>8, <4>1, <4>3, PlainReceived
        <5>2. p = [class |-> class, values |-> Kept(class, v)] BY <3>4, <3>8, <5>1, KnownReceived
        <5>3. p.class = class /\ p.values = Kept(class, v) BY <5>2
        <5>4. ~HasItem(f) BY <1>1, <2>2, <3>8, ItemThere
        <5> HIDE DEF p
        <5>5. ReadAs(f, p.values) BY <1>1, <4>1, <5>3, <5>4 DEF ReadAs
        <5>6. QED BY <1>1, <2>2, <3>5, <3>8, <4>1, <4>3, <5>3, <5>5 DEF Expected
      <4>4. QED BY <4>2, <4>3
    <3>9. CASE class \in Parsed(state) /\ WithItem(class, n)
      <4>1. class \in SlotClasses BY <3>9 DEF WithItem
      <4>2. PICK i : FirstItem(class, n, i) BY <1>1, <3>9, <4>1, TheFirst
      <4> DEFINE u == WriteFields(SubSeq(Kinds(class, n), 1, i), SubSeq(Values(class, n), 1, i))
      <4>3. PICK z \in Seq(Bytes) : w = u \o z BY <1>1, <2>3, <4>1, <4>2, FirstItemServed DEF DataOf
      <4>4. u \in Seq(Bytes) BY <1>1, <4>1, <4>2, BeginningType
      <4>5. PICK e \in Seq(Bytes) : e = u BY <4>4
      <4>6. z \o y \in Seq(Bytes) /\ d = e \o (z \o y)
        <5>1. (e \o z) \o y = e \o (z \o y) BY AnyThree, ZenonT(30)
        <5>2. z \o y \in Seq(Bytes) BY ConcatIn
        <5>3. w = e \o z BY <4>3, <4>5
        <5>4. QED BY <3>3, <5>1, <5>2, <5>3
      <4>7. QED BY <1>1, <3>5, <3>9, <4>1, <4>2, <4>5, <4>6, ItemReceived
    <3>10. QED BY <1>1, <3>7, <3>8, <3>9
  <2>10. CASE content = "cut"
    <3>1. Unpacked(c) = {body} BY <1>1, <2>7, <2>10
    <3>2. << >> \in Seq(Bytes) BY Neutral
    <3>3. body = VarInt[Id[class]] \o Front(w) BY <1>1, <2>1, <2>3, <2>4, <2>5, <2>10, <3>2, BodyBegins
    <3>4. PICK d \in Seq(Bytes), t \in Seq(Bytes) : d = Front(w) /\ t # << >> /\ d \o t = w
      BY <2>4, <2>10, FrontCut
    <3>5. ReadVarInt(Reader(VarInt[Id[class]] \o d)) = [ok |-> TRUE, left |-> d, got |-> <<Id[class]>>]
      BY <2>1, ReadNumber
    <3> DEFINE p == ReceivePacketByPacketId(VarInt[Id[class]] \o d)
    <3>6. SUFFICES Expected(f, p) BY <3>1, <3>3, <3>4
    <3>7. class \in Parsed(state) /\ class \in DOMAIN Fields BY <2>2, <2>4, <2>10
    <3>8. CASE ~WithItem(class, n)
      <4>1. w = WriteFields(Kinds(class, n), Values(class, n)) BY <1>1, <2>3, <3>7, <3>8, NoItemServed DEF DataOf
      <4>2. ~FromStream(class, d).ok BY <1>1, <3>4, <3>7, <4>1, CutRead, MissedFields
      <4>3. p = Exception BY <3>5, <3>7, <4>2, KnownReceived
      <4>4. EndsEarly(f) BY <1>1, <2>10, <3>7, <3>8, ItemThere DEF EndsEarly
      <4>5. QED BY <4>3, <4>4 DEF Expected, p
    <3>9. CASE WithItem(class, n)
      <4>1. class \in SlotClasses BY <3>9 DEF WithItem
      <4>2. PICK i : FirstItem(class, n, i) BY <1>1, <3>9, <4>1, TheFirst
      <4> DEFINE u == WriteFields(SubSeq(Kinds(class, n), 1, i), SubSeq(Values(class, n), 1, i))
      <4>3. PICK z \in Seq(Bytes) : z # << >> /\ w = u \o z BY <1>1, <2>3, <4>1, <4>2, FirstItemServed DEF DataOf
      <4>4. PICK e \in Seq(Bytes) : e = u BY <1>1, <4>1, <4>2, BeginningType
      <4>5. PICK y \in Seq(Bytes) : y = Front(z) /\ d = e \o y BY <3>4, <4>3, <4>4, FrontCut
      <4>6. ~EndsEarly(f)
        <5>1. HasItem(f) BY <1>1, <3>7, <3>9, ItemThere
        <5>2. packing # "tooShort" BY <1>1, <2>10
        <5>3. QED BY <5>1, <5>2 DEF EndsEarly
      <4>7. QED BY <1>1, <3>7, <3>9, <4>1, <4>2, <4>4, <4>5, <4>6, ItemReceived
    <3>10. QED BY <3>8, <3>9
  <2>11. QED BY <2>8, <2>9, <2>10
<1>4. QED BY <1>2, <1>3

-----------------------------------------------------------------------------
(* Ghosts: the classes with the id 0 have plain fields and no list.        *)
LEMMA ZeroClasses ==
    ASSUME NEW s \in {"Status", "Login", "Play"}, NEW c \in Parsed(s), Id[c] = 0
    PROVE  c \in DOMAIN Fields /\ c \notin DOMAIN Element /\ Fields[c] \in Seq(PlainKind)
<1>1. Id["SetSlot"] = 23 /\ \A e \in DOMAIN Element : Id[e] # 0 BY DEF Id, Element
<1>2. c \in DOMAIN Fields /\ c # "SetSlot" BY <1>1, ParsedType
<1>3. QED BY <1>1, <1>2, FieldsPlain

(* What the client makes of the zeros the error left in its buffer is an   *)
(* exception or a packet of zeros (socket.cpp:23-32).                      *)
LEMMA GhostIsZeros ==
    ASSUME NEW n \in Nat, NEW bytes \in Unpacked(Blank(n)), state \in {"Status", "Login", "Play"},
           threshold \in Int
    PROVE  ReceivePacketByPacketId(bytes) = Exception \/ Zeros(ReceivePacketByPacketId(bytes))
<1>1. PICK k \in Nat : bytes = Blank(k) BY BlankUnpacked
<1> DEFINE id == ReadVarInt(Reader(bytes))
           classes == {c \in Parsed(state) : Id[c] = id.got[1]}
<1>2. CASE k = 0
  <2>1. ~id.ok BY <1>1, <1>2, BlankRead
  <2>2. QED BY <2>1 DEF ReceivePacketByPacketId
<1>3. CASE k # 0
  <2>1. k - 1 \in Nat BY <1>3
  <2>2. PICK d \in Seq(Bytes) : d = Blank(k - 1) BY <2>1, BlankRead
  <2>3. id = [ok |-> TRUE, left |-> d, got |-> <<0>>] BY <1>1, <1>3, <2>2, BlankRead
  <2>4. PICK class \in Parsed(state) : Id[class] = 0 BY ParsedType
  <2>5. id = [ok |-> TRUE, left |-> d, got |-> <<Id[class]>>] BY <2>3, <2>4
  <2>6. d \in Seq({0}) BY <2>1, <2>2 DEF Blank
  <2>7. class \in DOMAIN Fields /\ class \notin DOMAIN Element /\ Fields[class] \in Seq(PlainKind)
    BY <2>4, ZeroClasses
  <2>8. PICK q : q = ReadFields(Reader(d), Fields[class]) OBVIOUS
  <2>9. AllFields(class, d) = q BY <2>7, <2>8 DEF AllFields
  <2>10. PICK p : p = ReceivePacketByPacketId(bytes) OBVIOUS
  <2>11. p = IF FromStream(class, d).ok THEN [class |-> class, values |-> FromStream(class, d).got]
             ELSE Exception
    BY <2>5, <2>10, KnownReceived
  <2>12. CASE ~FromStream(class, d).ok BY <2>10, <2>11, <2>12
  <2>13. CASE FromStream(class, d).ok
    <3>a. PICK v : v = q.got OBVIOUS
    <3>b. class \notin {"Ping", "Pong"}
      <4>1. Id["Ping"] = 1 /\ Id["Pong"] = 1 BY DEF Id
      <4>2. QED BY <2>4, <4>1
    <3>c. Kept(class, v) = v BY <3>b DEF Kept
    <3>d. q \in Readers BY <2>2, <2>7, <2>9, AllFieldsType
    <3>e. q.ok /\ FromStream(class, d).got = v
      <4>1. CASE ~q.ok BY <2>9, <2>13, <4>1, FromAllFields
      <4>2. CASE q.ok /\ Rejected(class, v)
        <5>1. FromStream(class, d) = OutOfData(q) BY <2>9, <3>a, <4>2, FromAllFields
        <5>2. QED BY <2>13, <3>d, <5>1, OutOfDataType
      <4>3. CASE q.ok /\ ~Rejected(class, v)
        <5>1. FromStream(class, d) = WithValues(q, v) BY <2>9, <3>a, <3>c, <4>3, FromAllFields
        <5>2. WithValues(q, v).got = v BY <3>d DEF WithValues, Readers
        <5>3. QED BY <4>3, <5>1, <5>2
      <4>4. QED BY <4>1, <4>2, <4>3
    <3>1. p.class = class /\ p.values = q.got BY <2>11, <2>13, <3>a, <3>e
    <3>2. WriteFields(Fields[class], q.got) \in Seq({0}) BY <2>6, <2>7, <2>8, <3>e, ZerosWritten
    <3>3. PICK w \in Seq({0}) : w = WriteFields(Fields[class], q.got) BY <3>2
    <3>4. \A i \in DOMAIN w : w[i] = 0 BY <3>3
    <3>5. Zeros(p) BY <2>4, <2>7, <3>1, <3>3, <3>4 DEF Zeros
    <3>6. QED BY <2>10, <3>5
  <2>14. QED BY <2>12, <2>13
<1>4. QED BY <1>2, <1>3

-----------------------------------------------------------------------------
(* Every frame is one the server may send; n is that of its values.        *)
FramesMade == \A k \in DOMAIN frames : \E n : Made(frames[k], n)

(* The state and the format are those of the beginning, so what was sent   *)
(* stays what the server may send.                                         *)
LEMMA FramesMadeKept ==
    ASSUME FramesMade, UNCHANGED <<state, threshold, frames>>
    PROVE  FramesMade'
<1>1. \A b, packing : Frame(b, packing)' = Frame(b, packing) BY DEF Frame
<1>2. \A f, n : Made(f, n)' <=> Made(f, n) BY <1>1 DEF Made
<1>3. QED BY <1>2 DEF FramesMade

(* What the server sends is a frame it may send.                           *)
LEMMA FramesMadeMore ==
    ASSUME ReceivingTypes, FramesMade, NEW class, NEW n \in Ns, NEW content \in Contents,
           NEW packing \in Packings, ServerSend(class, n, content, packing)
    PROVE  FramesMade'
<1> DEFINE bytes == Frame(Body(class, n, content), packing)
           f == [class |-> class, values |-> Values(class, n), bytes |-> bytes,
                 content |-> content, packing |-> packing]
<1>1. /\ class \in Parsed(state) \cup {"EntityAnimationCB"}
      /\ threshold < 0 => packing = "plain"
      /\ content # "whole" => packing \in {"plain", "zlib"}
      /\ class = "EntityAnimationCB" => content = "whole"
      /\ packing = "tooShort" => Len(Body(class, n, content)) > 1
      /\ frames' = Append(frames, f) /\ UNCHANGED <<state, threshold>>
  BY DEF ServerSend
<1>2. f.class = class /\ f.values = Values(class, n) /\ f.bytes = bytes /\ f.content = content /\ f.packing = packing
  OBVIOUS
<1> HIDE DEF f
<1>3. Made(f, n) BY <1>1, <1>2 DEF Made
<1>4. \A b, q : Frame(b, q)' = Frame(b, q) BY <1>1 DEF Frame
<1>5. \A g, m : Made(g, m)' <=> Made(g, m) BY <1>1, <1>4 DEF Made
<1>6. frames \in Seq(FrameRecords) BY DEF ReceivingTypes
<1>7. \A k \in DOMAIN frames' : (k \in DOMAIN frames /\ frames'[k] = frames[k]) \/ frames'[k] = f BY <1>1, <1>6
<1>8. QED BY <1>3, <1>5, <1>7 DEF FramesMade

-----------------------------------------------------------------------------
\* The channel's variables.
UnderWay == IF afterEnd # << >> THEN << >> ELSE SubSeq(frames, Len(received) + 1, Len(frames))
Returned == received \o afterEnd
Phase == CASE pc = "ended" -> "over"
           [] pc # "ended" /\ conn = "reported" -> IF afterEnd = << >> THEN "reset" ELSE "closed"
           [] OTHER -> conn

(* The steps of the channel, one by one.                                   *)
LEMMA PutStep ==
    ASSUME Phase = "open", Len(UnderWay') = Len(UnderWay) + 1,
           SubSeq(UnderWay', 1, Len(UnderWay)) = UnderWay, UNCHANGED <<Returned, Phase>>
    PROVE  Channel!ChanNext
BY DEF Channel!ChanNext, Channel!Put, UnderWay, Returned, Phase

(* A packet is returned, the first one under way.                          *)
LEMMA GetStep ==
    ASSUME Returned \in Seq(Packets), NEW p \in Packets, Phase # "over", UnderWay # << >>,
           Returned' = Append(Returned, p), Allowed(Head(UnderWay), p), UnderWay' = Tail(UnderWay),
           Phase' = IF p = Exception THEN "over" ELSE Phase
    PROVE  Channel!ChanNext
<1>1. /\ Len(Returned') = Len(Returned) + 1 /\ Returned'[Len(Returned')] = p
      /\ Returned' = Append(Returned, Returned'[Len(Returned')])
  BY LastOfAppend
<1>2. QED BY <1>1 DEF Channel!ChanNext, Channel!Get, Channel!Returns, Channel!Result, UnderWay, Returned, Phase

(* The connection ends.                                                    *)
LEMMA BreakStep ==
    ASSUME Phase = "open", Phase' \in {"closed", "reset"}, UNCHANGED <<UnderWay, Returned>>
    PROVE  Channel!ChanNext
BY DEF Channel!ChanNext, Channel!Break, UnderWay, Returned, Phase

(* A packet of zeros is returned, and nothing is under way any more.       *)
LEMMA GhostStep ==
    ASSUME Returned \in Seq(Packets), NEW p \in Packets, Phase = "reset", Phase' = "closed",
           Returned' = Append(Returned, p), Zeros(p), UnderWay' = << >>
    PROVE  Channel!ChanNext
<1>1. /\ Len(Returned') = Len(Returned) + 1 /\ Returned'[Len(Returned')] = p
      /\ Returned' = Append(Returned, Returned'[Len(Returned')])
  BY LastOfAppend
<1>2. QED BY <1>1 DEF Channel!ChanNext, Channel!Ghost, Channel!Returns, Channel!Result, UnderWay, Returned, Phase

(* An exception is returned at the end of the connection.                  *)
LEMMA EndStep ==
    ASSUME Phase \in {"closed", "reset"}, Phase' = "over", Returned' = Append(Returned, Exception),
           UnderWay' = << >>
    PROVE  Channel!ChanNext
BY DEF Channel!ChanNext, Channel!End, Channel!Returns, UnderWay, Returned, Phase

(* A packet could not be sent.                                             *)
LEMMA AbandonStep ==
    ASSUME Phase # "over", Phase' = "over", UNCHANGED <<UnderWay, Returned>>
    PROVE  Channel!ChanNext
BY DEF Channel!ChanNext, Channel!Abandon, UnderWay, Returned, Phase

(* A step of Framing the channel does not see.                             *)
LEMMA NoStep ==
    ASSUME UNCHANGED <<UnderWay, Returned, Phase>>
    PROVE  UNCHANGED Channel!chanVars
BY DEF Channel!chanVars, UnderWay, Returned, Phase

(* In the beginning nothing is under way.                                  *)
LEMMA StartStep == ASSUME Init PROVE Channel!ChanInit
<1>1. /\ afterEnd = << >> /\ received = << >> /\ frames = << >> /\ pc = "length" /\ conn = "open" BY DEF Init
<1>2. UnderWay = << >> /\ Returned = << >> /\ Phase = "open" BY <1>1 DEF UnderWay, Returned, Phase
<1>3. QED BY <1>2 DEF Channel!ChanInit, UnderWay, Returned, Phase

(* What is under way and what was returned, as long as the connection has  *)
(* not ended, and after it.                                                *)
LEMMA ChannelSide ==
    ASSUME ReceivingInv
    PROVE  /\ Returned \in Seq(Packets)
           /\ afterEnd = << >> => Returned = received /\ UnderWay = SubSeq(frames, Len(received) + 1, Len(frames))
           /\ pc # "ended" /\ conn # "reported" => Phase = conn /\ afterEnd = << >>
           /\ pc # "ended" /\ conn = "reported" => Phase \in {"closed", "reset"}
           /\ pc = "ended" => Phase = "over"
<1>1. received \in Seq(Packets) /\ afterEnd \in Seq(Packets) BY DEF ReceivingInv, ReceivingTypes
<1>2. Returned \in Seq(Packets) BY <1>1, ConcatIn DEF Returned
<1>3. afterEnd = << >> => received \o afterEnd = received
  <2>1. \A s \in Seq(Packets) : s \o << >> = s OBVIOUS
  <2>2. QED BY <1>1, <2>1
<1>4. pc # "ended" /\ conn # "reported" => afterEnd = << >> BY DEF ReceivingInv, ReceivingStages
<1>5. QED BY <1>2, <1>3, <1>4 DEF Returned, UnderWay, Phase

(* Sending: the channel does not see it, unless its exception ends the     *)
(* reading.                                                                *)
LEMMA StepOfSending ==
    ASSUME ReceivingInv, pc \in {"length", "reply"}, pc' \in {"length", "ended"},
           UNCHANGED <<state, threshold, length, toClient, conn, frames, received, afterEnd>>
    PROVE  [Channel!ChanNext]_(Channel!chanVars)
<1>1. UNCHANGED <<UnderWay, Returned>> BY DEF UnderWay, Returned
<1>2. CASE pc' = "ended"
  <2>1. Phase' = "over" BY <1>2 DEF Phase
  <2>2. conn \in {"open", "closed", "reset", "reported"} BY DEF ReceivingInv, ReceivingTypes
  <2>3. Phase # "over" BY <2>2 DEF Phase
  <2>4. QED BY <1>1, <2>1, <2>3, AbandonStep
<1>3. CASE pc' # "ended"
  <2>1. Phase' = Phase BY <1>3 DEF Phase
  <2>2. QED BY <1>1, <2>1, NoStep
<1>4. QED BY <1>2, <1>3

(* Reading a length is nothing the channel sees.                           *)
LEMMA StepOfLength ==
    ASSUME pc # "ended", pc' # "ended", UNCHANGED <<conn, frames, received, afterEnd>>
    PROVE  [Channel!ChanNext]_(Channel!chanVars)
<1>1. UNCHANGED <<UnderWay, Returned, Phase>> BY DEF UnderWay, Returned, Phase
<1>2. QED BY <1>1, NoStep

(* Nor is what the server reads.                                           *)
LEMMA StepOfNothing ==
    ASSUME UNCHANGED <<pc, conn, frames, received, afterEnd>>
    PROVE  [Channel!ChanNext]_(Channel!chanVars)
<1>1. UNCHANGED <<UnderWay, Returned, Phase>> BY DEF UnderWay, Returned, Phase
<1>2. QED BY <1>1, NoStep

(* The connection ends: what is under way may still be read or lost.       *)
LEMMA StepOfBreaking ==
    ASSUME ReceivingInv, NEW how \in {"closed", "reset"}, ConnectionEnds(how)
    PROVE  [Channel!ChanNext]_(Channel!chanVars)
<1>1. conn = "open" /\ pc # "ended" /\ conn' = how /\ UNCHANGED <<pc, frames, received, afterEnd>>
  BY DEF ConnectionEnds
<1>2. UNCHANGED <<UnderWay, Returned>> BY <1>1 DEF UnderWay, Returned
<1>3. Phase = "open" /\ Phase' = how BY <1>1 DEF Phase
<1>4. QED BY <1>2, <1>3, BreakStep

(* The server sends: one packet more is under way.                         *)
LEMMA StepOfServer ==
    ASSUME ReceivingInv, NEW class, NEW n \in Ns, NEW content \in Contents, NEW packing \in Packings,
           ServerSend(class, n, content, packing)
    PROVE  [Channel!ChanNext]_(Channel!chanVars)
<1>1. PICK f : /\ f = [class |-> class, values |-> Values(class, n),
                       bytes |-> Frame(Body(class, n, content), packing), content |-> content, packing |-> packing]
               /\ frames' = Append(frames, f)
  BY DEF ServerSend
<1>2. /\ conn = "open" /\ pc # "ended" /\ UNCHANGED <<pc, conn, received, afterEnd>>
      /\ class \in Parsed(state) \cup {"EntityAnimationCB"} /\ (content # "whole" => packing \in {"plain", "zlib"})
  BY DEF ServerSend
<1>3. f \in FrameRecords
  <2>1. /\ class \in DOMAIN Id /\ Values(class, n) \in Seq(FieldValues)
        /\ Frame(Body(class, n, content), packing) \in Seq(Bytes)
    BY <1>2, FrameIsRecord DEF ReceivingInv
  <2>2. QED BY <1>1, <2>1 DEF FrameRecords
<1>4. frames \in Seq(FrameRecords) /\ Len(received) \in Nat /\ Len(received) <= Len(frames)
  BY DEF ReceivingInv, ReceivingTypes, ReceivingAligned
<1>5. afterEnd = << >> /\ Phase = "open" /\ Phase' = "open"
  <2>1. afterEnd = << >> BY <1>2 DEF ReceivingInv, ReceivingStages
  <2>2. QED BY <1>2, <2>1 DEF Phase
<1>6. UnderWay = SubSeq(frames, Len(received) + 1, Len(frames)) BY <1>5 DEF UnderWay
<1>7. UnderWay' = SubSeq(Append(frames, f), Len(received) + 1, Len(Append(frames, f)))
  BY <1>1, <1>2, <1>5 DEF UnderWay
<1>8. Len(UnderWay') = Len(UnderWay) + 1 /\ SubSeq(UnderWay', 1, Len(UnderWay)) = UnderWay
  BY <1>3, <1>4, <1>6, <1>7, OneMore
<1>9. Returned' = Returned BY <1>2 DEF Returned
<1>10. QED BY <1>5, <1>8, <1>9, PutStep

(* Only an exception ends the reading.                                     *)
LEMMA AfterEnds == ASSUME NEW p PROVE After(p) = "ended" <=> p = Exception
<1>1. CASE p = Exception BY <1>1, AfterType
<1>2. CASE p # Exception BY <1>2 DEF After
<1>3. QED BY <1>1, <1>2

(* The end of the stream, or the exception that follows the error.         *)
LEMMA StepOfEnd ==
    ASSUME ReceivingInv, pc # "ended", conn # "open", OutcomeAtEnd(Exception), received' = received
    PROVE  [Channel!ChanNext]_(Channel!chanVars)
<1>1. afterEnd' = Append(afterEnd, Exception) /\ pc' = "ended" BY AfterType DEF OutcomeAtEnd
<1>2. received \in Seq(Packets) /\ afterEnd \in Seq(Packets) /\ conn \in {"closed", "reset", "reported"}
  BY DEF ReceivingInv, ReceivingTypes
<1>3. afterEnd' # << >> BY <1>1, <1>2
<1>4. Returned' = Append(Returned, Exception) BY <1>1, <1>2, ExceptionType, AppendBehind DEF Returned
<1>5. UnderWay' = << >> BY <1>3 DEF UnderWay
<1>6. Phase' = "over" BY <1>1 DEF Phase
<1>7. Phase \in {"closed", "reset"} BY <1>2 DEF Phase
<1>8. QED BY <1>4, <1>5, <1>6, <1>7, EndStep

(* ReceivePacket at the end of the stream throws.                          *)
LEMMA StepOfStreamEnd ==
    ASSUME ReceivingInv, ReceiveAtEnd
    PROVE  [Channel!ChanNext]_(Channel!chanVars)
<1>1. /\ conn # "open" /\ OutcomeAtEnd(Exception) /\ received' = received /\ pc \in {"length", "body"}
  BY DEF ReceiveAtEnd, Missing
<1>2. QED BY <1>1, StepOfEnd

(* The error: it puts a zero into the length, or zeros into the body,      *)
(* which become a packet nobody sent or an exception.                      *)
LEMMA StepOfError ==
    ASSUME ReceivingInv, ReceiveAtError
    PROVE  [Channel!ChanNext]_(Channel!chanVars)
<1>1. /\ conn = "reset" /\ conn' = "reported" /\ UNCHANGED <<received, frames>> /\ pc \in {"length", "body"}
  BY DEF ReceiveAtError, Missing
<1>2. Returned \in Seq(Packets) /\ Returned = received /\ afterEnd = << >> /\ Phase = "reset"
  BY <1>1, ChannelSide
<1>3. CASE pc = "length"
  <2>1. pc' = "body" /\ afterEnd' = afterEnd BY <1>3 DEF ReceiveAtError
  <2>2. Phase' = "reset" BY <1>1, <1>2, <2>1 DEF Phase
  <2>3. UNCHANGED <<UnderWay, Returned>> BY <1>1, <2>1 DEF UnderWay, Returned
  <2>4. QED BY <1>2, <2>2, <2>3, NoStep
<1>4. CASE pc = "body"
  <2>1. PICK p : /\ OutcomeAtEnd(p)
                 /\ \/ p = Exception
                    \/ \E bytes \in Unpacked(Blank(length)) : p = ReceivePacketByPacketId(bytes)
    BY <1>4 DEF ReceiveAtError, Blank
  <2>2. CASE p = Exception BY <1>1, <2>1, <2>2, StepOfEnd
  <2>3. CASE p # Exception
    <3>1. state \in {"Status", "Login", "Play"} /\ threshold \in Int BY StatesType DEF ReceivingInv
    <3>2. length \in Nat BY DEF ReceivingInv, ReceivingTypes
    <3>3. Zeros(p) BY <2>1, <2>3, <3>1, <3>2, GhostIsZeros
    <3>4. p \in Packets BY <2>1, <2>3, <3>1, <3>2, BlankReceived
    <3>5. pc' = After(p) /\ afterEnd' = Append(afterEnd, p) BY <2>1 DEF OutcomeAtEnd
    <3>6. After(p) # "ended" BY <2>3, AfterEnds
    <3>7. afterEnd' = <<p>> /\ afterEnd' # << >> BY <1>2, <3>5
    <3>8. Phase' = "closed" BY <1>1, <3>5, <3>6, <3>7 DEF Phase
    <3>9. UnderWay' = << >> BY <3>7 DEF UnderWay
    <3>10. Returned' = Append(Returned, p)
      <4>1. received \in Seq(Packets) /\ afterEnd \in Seq(Packets) BY DEF ReceivingInv, ReceivingTypes
      <4>2. QED BY <1>1, <3>4, <3>5, <4>1, AppendBehind DEF Returned
    <3>11. QED BY <1>2, <3>3, <3>4, <3>8, <3>9, <3>10, GhostStep
  <2>4. QED BY <2>2, <2>3
<1>5. QED BY <1>1, <1>3, <1>4

(* The body of a frame: the packet returned is one its content allows.     *)
LEMMA StepOfBody ==
    ASSUME ReceivingInv, FramesMade, ReceiveBody
    PROVE  [Channel!ChanNext]_(Channel!chanVars)
<1> DEFINE body == SubSeq(toClient, 1, length)
<1>1. /\ pc = "body" /\ Len(toClient) >= length /\ UNCHANGED <<conn, frames>>
  BY DEF ReceiveBody
<1>2. CASE conn = "reported"
  <2>1. PICK p \in Packets : Outcome(p) /\ p = Exception BY <1>2, BodyOutcome
  <2>2. OutcomeAtEnd(Exception) /\ received' = received BY <1>2, <2>1 DEF Outcome, OutcomeAtEnd
  <2>3. QED BY <1>1, <1>2, <2>2, StepOfEnd
<1>3. CASE conn # "reported"
  <2>1. PICK p : /\ Outcome(p)
                 /\ \/ p = Exception /\ Unpacked(body) = {}
                    \/ \E bytes \in Unpacked(body) : p = ReceivePacketByPacketId(bytes)
    BY DEF ReceiveBody
  <2>2. p \in Packets
    <3>1. PICK q \in Packets : Outcome(q) BY BodyOutcome
    <3>2. received' = Append(received, p) /\ received' = Append(received, q) BY <1>3, <2>1, <3>1 DEF Outcome
    <3>3. received \in Seq(Packets) BY DEF ReceivingInv, ReceivingTypes
    <3>4. PICK n \in Nat : n = Len(received) BY <3>3
    <3>5. \A s \in Seq(Packets) : \A x : Len(Append(s, x)) = Len(s) + 1 /\ Append(s, x)[Len(s) + 1] = x OBVIOUS
    <3>5a. received'[n + 1] = p /\ received'[n + 1] = q BY <3>2, <3>3, <3>4, <3>5
    <3>6. QED BY <3>1, <3>5a
  <2>3. PICK r \in Nat : r = Len(received) /\ r < Len(frames) BY <1>1, <1>3, BodyOfFrame, FirstUnread
  <2>4. frames \in Seq(FrameRecords) BY DEF ReceivingInv, ReceivingTypes
  <2>5. PICK f \in FrameRecords : f = frames[r + 1]
    <3>1. r + 1 \in 1..Len(frames) BY <2>3, <2>4
    <3>2. QED BY <2>4, <3>1
  <2>6. PICK n : Made(f, n)
    <3>1. r + 1 \in DOMAIN frames BY <2>3, <2>4
    <3>2. QED BY <2>5, <3>1 DEF FramesMade
  <2>7. PICK c \in Seq(Bytes) : c = body /\ f.bytes = Counted(c)
    <3>1. frames[Len(received) + 1].bytes = Counted(body) BY <1>1, <1>3, BodyOfFrame
    <3>2. WellFormed(body) BY <1>1, <1>3, BodyOfFrame
    <3> HIDE DEF body
    <3>3. body \in Seq(Bytes) BY <3>2 DEF WellFormed
    <3>4. QED BY <2>3, <2>5, <3>1, <3>3
  <2>8. state \in {"Status", "Login", "Play"} /\ threshold \in Int BY StatesType DEF ReceivingInv
  <2> HIDE DEF body
  <2>9. Allowed(f, p)
    <3>1. /\ \A b \in Unpacked(c) : Allowed(f, ReceivePacketByPacketId(b))
          /\ Unpacked(c) = {} => Allowed(f, Exception)
      BY <2>6, <2>7, <2>8, FrameAllowed
    <3>2. QED BY <2>1, <2>7, <3>1
  <2>10. /\ Returned \in Seq(Packets) /\ afterEnd = << >> /\ Returned = received /\ Phase = conn
         /\ UnderWay = SubSeq(frames, r + 1, Len(frames))
    BY <1>1, <1>3, <2>3, ChannelSide
  <2>11. UnderWay # << >> /\ Head(UnderWay) = f /\ Tail(UnderWay) = SubSeq(frames, r + 2, Len(frames))
    BY <2>3, <2>4, <2>5, <2>10, FirstAway
  <2>12. pc' = After(p) /\ received' = Append(received, p) /\ afterEnd' = << >>
    BY <1>3, <2>1, <2>10 DEF Outcome
  <2>13. received \in Seq(Packets) /\ conn \in {"open", "closed", "reset"}
    BY <1>3 DEF ReceivingInv, ReceivingTypes
  <2>14. received' \in Seq(Packets) /\ Len(received') = r + 1 BY <2>2, <2>3, <2>12, <2>13
  <2>15. Returned' = Append(Returned, p)
    <3>1. \A s \in Seq(Packets) : s \o << >> = s OBVIOUS
    <3>2. Returned' = received' BY <2>12, <2>14, <3>1 DEF Returned
    <3>3. QED BY <2>10, <2>12, <3>2
  <2>16. UnderWay' = Tail(UnderWay)
    <3>1. r + 1 + 1 = r + 2 BY <2>3
    <3>2. QED BY <1>1, <2>11, <2>12, <2>14, <3>1 DEF UnderWay
  <2>17. Phase' = IF p = Exception THEN "over" ELSE Phase
    <3>1. After(p) = "ended" <=> p = Exception BY AfterEnds
    <3>2. QED BY <1>1, <1>3, <2>10, <2>12, <3>1 DEF Phase
  <2>18. Phase # "over" BY <2>10, <2>13
  <2>19. QED BY <2>2, <2>9, <2>10, <2>11, <2>15, <2>16, <2>17, <2>18, GetStep
<1>4. QED BY <1>2, <1>3

-----------------------------------------------------------------------------
(* Nothing is sent in the beginning.                                       *)
LEMMA FramesMadeInit == Init => FramesMade
BY DEF Init, FramesMade

(* Every step keeps to what the server may send.                           *)
LEMMA FramesMadeStep == ReceivingInv /\ FramesMade /\ [Next]_vars => FramesMade'
<1> SUFFICES ASSUME ReceivingInv, FramesMade, [Next]_vars PROVE FramesMade' OBVIOUS
<1>1. CASE ReceiveLength \/ ReceiveBody \/ ReceiveAtError \/ ReceiveAtEnd
  BY <1>1, FramesMadeKept DEF ReceiveLength, ReceiveBody, ReceiveAtError, ReceiveAtEnd
<1>2. CASE Reply BY <1>2, FramesMadeKept DEF Reply, SendPacket
<1>3. ASSUME NEW class \in Sendable, NEW n \in Ns, Send(class, n) PROVE FramesMade'
  BY <1>3, FramesMadeKept DEF Send, SendPacket
<1>4. CASE ServerReceive BY <1>4, FramesMadeKept DEF ServerReceive
<1>5. ASSUME NEW how \in {"closed", "reset"}, ConnectionEnds(how) PROVE FramesMade'
  BY <1>5, FramesMadeKept DEF ConnectionEnds
<1>6. ASSUME NEW class \in First \cup Later, NEW n \in Ns, NEW content \in Contents, NEW packing \in Packings,
             ServerSend(class, n, content, packing)
      PROVE  FramesMade'
  BY <1>6, FramesMadeMore DEF ReceivingInv
<1>7. CASE UNCHANGED vars BY <1>7, FramesMadeKept DEF vars
<1>8. QED BY <1>1, <1>2, <1>3, <1>4, <1>5, <1>6, <1>7 DEF Next, Client, Server

(* Every step is one of the channel, or one it does not see.               *)
LEMMA ChannelStep == ReceivingInv /\ FramesMade /\ [Next]_vars => [Channel!ChanNext]_(Channel!chanVars)
<1> SUFFICES ASSUME ReceivingInv, FramesMade, [Next]_vars PROVE [Channel!ChanNext]_(Channel!chanVars) OBVIOUS
<1>1. CASE ReceiveLength
  <2>1. pc = "length" /\ pc' = "body" /\ UNCHANGED <<conn, frames, received, afterEnd>>
    BY <1>1 DEF ReceiveLength
  <2>2. QED BY <2>1, StepOfLength
<1>2. CASE ReceiveBody BY <1>2, StepOfBody
<1>3. CASE ReceiveAtError BY <1>3, StepOfError
<1>4. CASE ReceiveAtEnd BY <1>4, StepOfStreamEnd
<1>5. CASE Reply
  <2>1. pc = "reply" /\ \E class, values : SendPacket(class, values, "length") BY <1>5 DEF Reply
  <2>2. QED BY <2>1, SendPacketKeeps, StepOfSending
<1>6. ASSUME NEW class \in Sendable, NEW n \in Ns, Send(class, n)
      PROVE  [Channel!ChanNext]_(Channel!chanVars)
  <2>1. pc = "length" /\ SendPacket(class, Kept(class, Samples(Written[class], n)), "length") BY <1>6 DEF Send
  <2>2. QED BY <2>1, SendPacketKeeps, StepOfSending
<1>7. CASE ServerReceive
  <2>1. UNCHANGED <<pc, conn, frames, received, afterEnd>> BY <1>7 DEF ServerReceive
  <2>2. QED BY <2>1, StepOfNothing
<1>8. ASSUME NEW how \in {"closed", "reset"}, ConnectionEnds(how)
      PROVE  [Channel!ChanNext]_(Channel!chanVars)
  BY <1>8, StepOfBreaking
<1>9. ASSUME NEW class \in First \cup Later, NEW n \in Ns, NEW content \in Contents, NEW packing \in Packings,
             ServerSend(class, n, content, packing)
      PROVE  [Channel!ChanNext]_(Channel!chanVars)
  BY <1>9, StepOfServer
<1>10. CASE UNCHANGED vars
  <2>1. UNCHANGED <<pc, conn, frames, received, afterEnd>> BY <1>10 DEF vars
  <2>2. QED BY <2>1, StepOfNothing
<1>11. QED BY <1>1, <1>2, <1>3, <1>4, <1>5, <1>6, <1>7, <1>8, <1>9, <1>10 DEF Next, Client, Server

(* Network implements the channel of packets its owner relies on: whatever *)
(* the server sends, in both formats, damaged, cut or with data to spare,  *)
(* and wherever the connection ends, the packets are returned in order,    *)
(* each as its content allows (the long of a pong as an int, a text that   *)
(* Chat throws at as an exception, whichever texts those are), the end is  *)
(* told by an exception, and only an error puts one packet of zeros in     *)
(* front of it (network.cpp:21-145, packet.hpp, stream.cpp:336-398,        *)
(* chat.cpp:19-28, socket.cpp:23-32).                                      *)
THEOREM DeliversPackets == Spec => ImplementsChannel
<1>1. Init => Channel!ChanInit BY StartStep
<1>2. QED BY <1>1, ReceivingInit, ReceivingStep, FramesMadeInit, FramesMadeStep, ChannelStep, PTL
          DEF Spec, ImplementsChannel, Channel!ChanSpec
=============================================================================
