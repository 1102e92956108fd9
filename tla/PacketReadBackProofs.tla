------------------------- MODULE PacketReadBackProofs -------------------------
(***************************************************************************)
(* What one end of the library makes of what the other end writes: for any *)
(* packets and any buffer, which packets are read back as they were sent,  *)
(* and that the reader stays at the end of a packet as long as they are.   *)
(***************************************************************************)
EXTENDS PacketExchangeProofs

-------------------------------------------------------------------------------
(***************************************************************************)
(* What the deserializers make of the bytes of the serializers.            *)
(***************************************************************************)

\* A cursor that has not failed.
At(left, values, room) == [left |-> left, ok |-> TRUE, got |-> values, room |-> room]

LEMMA AtType ==
    ASSUME NEW left \in Seq(Cell), NEW values \in Seq(Value), NEW room \in Nat
    PROVE  At(left, values, room) \in ACursor
BY DEF At, ACursor

LEMMA SameCursor ==
    ASSUME NEW c \in ACursor, NEW d \in ACursor,
           c.left = d.left, c.ok = d.ok, c.got = d.got, c.room = d.room
    PROVE  c = d
BY DEF ACursor

LEMMA AtMore ==
    ASSUME NEW left \in Seq(Cell), NEW values \in Seq(Value), NEW room \in Nat,
           NEW v \in Value
    PROVE  [At(left, values, room) EXCEPT !.got = Append(@, v)]
             = At(left, Append(values, v), room)
<1>1. PICK more \in Seq(Value) : more = Append(values, v)
  BY AppendProperties
<1>2. PICK c \in ACursor :
         /\ c = At(left, values, room)
         /\ c.left = left /\ c.ok = TRUE /\ c.got = values /\ c.room = room
  BY AtType DEF At
<1>3. PICK d \in ACursor :
         /\ d = At(left, more, room)
         /\ d.left = left /\ d.ok = TRUE /\ d.got = more /\ d.room = room
  BY AtType DEF At
<1>4. PICK e : e = [c EXCEPT !.got = more]
  OBVIOUS
<1>5. /\ e \in ACursor
      /\ e.left = c.left /\ e.ok = c.ok /\ e.got = more /\ e.room = c.room
  BY <1>4 DEF ACursor
<1>6. e = d
  <2>1. /\ e.left = d.left /\ e.ok = d.ok /\ e.got = d.got /\ e.room = d.room
    BY <1>2, <1>3, <1>5
  <2> QED
    BY <1>5, <2>1, SameCursor
<1> QED
  BY <1>1, <1>2, <1>3, <1>4, <1>6

LEMMA BytesAreCells == Seq(Byte) \subseteq Seq(Cell)
<1>1. Byte \subseteq Cell
  BY DEF Cell
<1> QED
  BY <1>1, SeqMonotonic

LEMMA CatCells ==
    ASSUME NEW s \in Seq(Cell), NEW t \in Seq(Cell)
    PROVE  /\ Cat(s, t) \in Seq(Cell)
           /\ Len(Cat(s, t)) = Len(s) + Len(t)
           /\ \A i \in 1..Len(s) : Cat(s, t)[i] = s[i]
           /\ \A i \in 1..Len(t) : Cat(s, t)[Len(s) + i] = t[i]
BY DEF Cat

LEMMA CatCellGroups ==
    ASSUME NEW s \in Seq(Cell), NEW t \in Seq(Cell), NEW u \in Seq(Cell)
    PROVE  Cat(Cat(s, t), u) = Cat(s, Cat(t, u))
BY Associative DEF Cat

\* What was put together is taken apart.
LEMMA CatParts ==
    ASSUME NEW s \in Seq(Cell), NEW t \in Seq(Cell)
    PROVE  /\ SubSeq(Cat(s, t), 1, Len(s)) = s
           /\ SubSeq(Cat(s, t), Len(s) + 1, Len(Cat(s, t))) = t
<1>1. PICK both : both = Cat(s, t)
  OBVIOUS
<1>2. /\ both \in Seq(Cell) /\ Len(both) = Len(s) + Len(t)
      /\ \A i \in 1..Len(s) : both[i] = s[i]
      /\ \A i \in 1..Len(t) : both[Len(s) + i] = t[i]
  BY <1>1, CatCells
<1>3. Len(s) \in Nat /\ Len(t) \in Nat
  OBVIOUS
<1> DEFINE first == SubSeq(both, 1, Len(s))
           second == SubSeq(both, Len(s) + 1, Len(both))
<1>4. first \in Seq(Cell) /\ Len(first) = Len(s) /\ \A i \in 1..Len(s) : first[i] = both[i]
  <2>1. \A i \in 1..Len(s) : both[i] \in Cell
    BY <1>2
  <2> QED
    BY <1>2, <1>3, <2>1, SubSeqProperties
<1>5. /\ second \in Seq(Cell) /\ Len(second) = Len(t)
      /\ \A i \in 1..Len(t) : second[i] = both[Len(s) + i]
  <2>1. \A i \in (Len(s) + 1)..Len(both) : both[i] \in Cell
    BY <1>2, <1>3
  <2>2. /\ second \in Seq(Cell)
        /\ Len(second) = IF Len(s) + 1 <= Len(both) THEN Len(both) - (Len(s) + 1) + 1 ELSE 0
        /\ \A i \in 1..(Len(both) - (Len(s) + 1) + 1) : second[i] = both[(Len(s) + 1) + i - 1]
    BY <1>2, <1>3, <2>1, SubSeqProperties
  <2>3. Len(both) - (Len(s) + 1) + 1 = Len(t)
    BY <1>2, <1>3
  <2> HIDE DEF second
  <2>4. ASSUME NEW i \in 1..Len(t) PROVE second[i] = both[Len(s) + i]
    <3>1. (Len(s) + 1) + i - 1 = Len(s) + i
      BY <1>3
    <3>2. second[i] = both[(Len(s) + 1) + i - 1]
      BY <2>2, <2>3
    <3> QED
      BY <3>1, <3>2
  <2>5. Len(second) = Len(t)
    BY <1>2, <1>3, <2>2, <2>3
  <2> QED
    BY <2>2, <2>4, <2>5
<1> HIDE DEF first, second
<1>6. first = s
  BY <1>2, <1>4, SeqEqual
<1>7. second = t
  BY <1>2, <1>5, SeqEqual
<1> QED
  BY <1>1, <1>6, <1>7 DEF first, second

LEMMA CatFront ==
    ASSUME NEW s \in Seq(Cell), NEW t \in Seq(Cell)
    PROVE  SubSeq(Cat(s, t), 1, Len(s)) = s
BY CatParts

LEMMA SkipAt ==
    ASSUME NEW s \in Seq(Cell), NEW rest \in Seq(Cell), NEW values \in Seq(Value),
           NEW room \in Nat
    PROVE  /\ CanRead(At(Cat(s, rest), values, room), Len(s))
           /\ Skip(At(Cat(s, rest), values, room), Len(s)) = At(rest, values, room)
<1>1. PICK both \in Seq(Cell) : both = Cat(s, rest)
  BY CatCells
<1>2. PICK n \in Nat : n = Len(s)
  BY LenProperties
<1>3. n <= Len(both) /\ SubSeq(both, n + 1, Len(both)) = rest
  <2>1. Len(both) = Len(s) + Len(rest) /\ Len(rest) \in Nat
    BY <1>1, CatCells, LenProperties
  <2>2. SubSeq(both, n + 1, Len(both)) = rest
    BY <1>1, <1>2, CatParts
  <2> QED
    BY <1>2, <2>1, <2>2
<1>4. PICK c \in ACursor :
         /\ c = At(both, values, room)
         /\ c.left = both /\ c.ok = TRUE /\ c.got = values /\ c.room = room
  BY AtType DEF At
<1>5. CanRead(c, n)
  BY <1>3, <1>4 DEF CanRead
<1>6. Skip(c, n) = At(rest, values, room)
  <2>1. PICK d \in ACursor :
           /\ d = At(rest, values, room)
           /\ d.left = rest /\ d.ok = TRUE /\ d.got = values /\ d.room = room
    BY AtType DEF At
  <2>2. PICK e : e = Skip(c, n)
    OBVIOUS
  <2>3. /\ e \in ACursor /\ e.left = SubSeq(both, n + 1, Len(both))
        /\ e.ok = c.ok /\ e.got = c.got /\ e.room = c.room
    <3>1. /\ Follows(c, Skip(c, n))
          /\ Skip(c, n).left = SubSeq(c.left, n + 1, Len(c.left))
          /\ Skip(c, n).ok = c.ok /\ Skip(c, n).got = c.got
          /\ Skip(c, n).room = c.room
      BY SkipType
    <3>2. Skip(c, n) \in ACursor
      BY <3>1 DEF Follows
    <3> QED
      BY <1>4, <2>2, <3>1, <3>2
  <2>4. e = d
    <3>1. /\ e.left = d.left /\ e.ok = d.ok /\ e.got = d.got /\ e.room = d.room
      BY <1>3, <1>4, <2>1, <2>3
    <3> QED
      BY <2>3, <3>1, SameCursor
  <2> QED
    BY <2>1, <2>2, <2>4
<1> QED
  BY <1>1, <1>2, <1>4, <1>5, <1>6

LEMMA TakeAt ==
    ASSUME NEW s \in Seq(Cell), NEW rest \in Seq(Cell), NEW values \in Seq(Value),
           NEW room \in Nat, NEW v \in Value
    PROVE  Take(At(Cat(s, rest), values, room), Len(s), v)
             = At(rest, Append(values, v), room)
<1>1. PICK c : c = At(Cat(s, rest), values, room)
  OBVIOUS
<1>2. PICK n : n = Len(s)
  OBVIOUS
<1>3. Skip(c, n) = At(rest, values, room)
  BY <1>1, <1>2, SkipAt
<1>4. Take(c, n, v) = [At(rest, values, room) EXCEPT !.got = Append(@, v)]
  BY <1>3 DEF Take
<1>5. Take(c, n, v) = At(rest, Append(values, v), room)
  BY <1>4, AtMore
<1> QED
  BY <1>1, <1>2, <1>5

\* The sequence of one byte, folded.
One(b) == <<b>>

LEMMA OneType ==
    ASSUME NEW b \in Cell
    PROVE  One(b) \in Seq(Cell) /\ Len(One(b)) = 1 /\ One(b)[1] = b
BY DEF One

LEMMA ReadByteAt ==
    ASSUME NEW b \in Cell, NEW rest \in Seq(Cell), NEW values \in Seq(Value),
           NEW room \in Nat, NEW c, c = At(Cat(One(b), rest), values, room)
    PROVE  /\ CanRead(c, 1)
           /\ c.left[1] = b
           /\ b \in Value
           /\ Skip(c, 1) = At(rest, values, room)
           /\ \A v \in Value : Take(c, 1, v) = At(rest, Append(values, v), room)
           /\ ReadByte(c) = At(rest, Append(values, b), room)
<1>1. PICK s \in Seq(Cell) : s = One(b) /\ Len(s) = 1 /\ s[1] = b
  BY OneType
<1>2. c = At(Cat(s, rest), values, room)
  BY <1>1
<1>3. c.left[1] = b
  <2>1. 1 \in 1..Len(s)
    BY <1>1
  <2>2. Cat(s, rest)[1] = b
    BY <1>1, <2>1, CatCells
  <2>3. c.left = Cat(s, rest)
    BY <1>2 DEF At
  <2> QED
    BY <2>2, <2>3
<1>4. CanRead(c, 1) /\ Skip(c, 1) = At(rest, values, room)
  <2>1. /\ CanRead(At(Cat(s, rest), values, room), Len(s))
        /\ Skip(At(Cat(s, rest), values, room), Len(s)) = At(rest, values, room)
    BY SkipAt
  <2> QED
    BY <1>1, <1>2, <2>1
<1>5. ASSUME NEW v \in Value PROVE Take(c, 1, v) = At(rest, Append(values, v), room)
  <2>1. Take(At(Cat(s, rest), values, room), Len(s), v) = At(rest, Append(values, v), room)
    BY TakeAt
  <2> QED
    BY <1>1, <1>2, <2>1
<1>6. b \in Value
  <2>1. \A x \in 0..256 : x \in Nat
    OBVIOUS
  <2> QED
    BY <2>1, CellIsNat DEF Value
<1> QED
  BY <1>3, <1>4, <1>5, <1>6 DEF ReadByte

LEMMA ReadU16At ==
    ASSUME NEW n \in Word, NEW rest \in Seq(Cell), NEW values \in Seq(Value),
           NEW room \in Nat, NEW c, c = At(Cat(U16(n), rest), values, room)
    PROVE  /\ CanRead(c, 2)
           /\ U16At(c) = n
           /\ n \in Value
           /\ Skip(c, 2) = At(rest, values, room)
           /\ ReadU16(c) = At(rest, Append(values, n), room)
<1>1. PICK s \in Seq(Cell) : s = U16(n) /\ Len(s) = 2 /\ 256 * s[1] + s[2] = n
  BY U16Type, BytesAreCells
<1>2. c = At(Cat(s, rest), values, room)
  BY <1>1
<1>3. U16At(c) = n
  <2>1. 1 \in 1..Len(s) /\ 2 \in 1..Len(s)
    BY <1>1
  <2>2. Cat(s, rest)[1] = s[1] /\ Cat(s, rest)[2] = s[2]
    BY <2>1, CatCells
  <2>3. c.left = Cat(s, rest)
    BY <1>2 DEF At
  <2> QED
    BY <1>1, <2>2, <2>3 DEF U16At
<1>4. CanRead(c, 2) /\ Skip(c, 2) = At(rest, values, room)
  <2>1. /\ CanRead(At(Cat(s, rest), values, room), Len(s))
        /\ Skip(At(Cat(s, rest), values, room), Len(s)) = At(rest, values, room)
    BY SkipAt
  <2> QED
    BY <1>1, <1>2, <2>1
<1>5. n \in Value
  BY DEF Word, Value
<1>6. Take(c, 2, n) = At(rest, Append(values, n), room)
  <2>1. Take(At(Cat(s, rest), values, room), Len(s), n) = At(rest, Append(values, n), room)
    BY <1>5, TakeAt
  <2> QED
    BY <1>1, <1>2, <2>1
<1> QED
  BY <1>3, <1>4, <1>5, <1>6 DEF ReadU16

\* A string that fits is read, and one that does not is refused.
LEMMA ReadStringAt ==
    ASSUME NEW s \in Text, NEW rest \in Seq(Cell), NEW values \in Seq(Value),
           NEW room \in Nat, NEW cap \in Nat,
           NEW c, c = At(Cat(StringBytes(s), rest), values, room)
    PROVE  /\ CanRead(c, 2)
           /\ U16At(c) = Len(s)
           /\ Len(s) <= cap => ReadString(c, cap) = At(rest, Append(values, s), room)
           /\ Len(s) > cap => ReadString(c, cap) = Fail(At(Cat(s, rest), values, room))
<1>1. /\ s \in Seq(Cell) /\ U16(Len(s)) \in Seq(Cell) /\ Len(s) \in Word
      /\ Len(s) \in Nat
  BY StringType, BytesAreCells DEF Text, Word
<1>2. PICK d : d = At(Cat(s, rest), values, room)
  OBVIOUS
<1>3. c = At(Cat(U16(Len(s)), Cat(s, rest)), values, room)
  BY <1>1, CatCellGroups DEF StringBytes
<1>4. Cat(s, rest) \in Seq(Cell)
  BY <1>1, CatCells
<1>5. CanRead(c, 2) /\ U16At(c) = Len(s) /\ Skip(c, 2) = d
  BY <1>1, <1>2, <1>3, <1>4, ReadU16At
<1>6. /\ CanRead(d, Len(s))
      /\ Take(d, Len(s), SubSeq(d.left, 1, Len(s))) = At(rest, Append(values, s), room)
  <2>1. SubSeq(d.left, 1, Len(s)) = s
    <3>1. SubSeq(Cat(s, rest), 1, Len(s)) = s
      BY <1>1, CatParts
    <3>2. d.left = Cat(s, rest)
      BY <1>2 DEF At
    <3> QED
      BY <3>1, <3>2
  <2>2. CanRead(d, Len(s))
    BY <1>1, <1>2, SkipAt
  <2>3. s \in Value
    BY <1>1 DEF Value
  <2>4. Take(d, Len(s), s) = At(rest, Append(values, s), room)
    BY <1>1, <1>2, <2>3, TakeAt
  <2> QED
    BY <2>1, <2>2, <2>4
<1>7. Len(s) > cap => ~(Len(s) <= cap)
  BY <1>1
<1> QED
  BY <1>2, <1>5, <1>6, <1>7 DEF ReadString

\* A topic leaves its length as the room for the next one.
LEMMA ReadTopicAt ==
    ASSUME NEW s \in Text, NEW rest \in Seq(Cell), NEW values \in Seq(Value),
           NEW room \in Nat, NEW c, c = At(Cat(StringBytes(s), rest), values, room)
    PROVE  /\ Len(s) <= room => ReadTopic(c) = At(rest, Append(values, s), Len(s))
           /\ Len(s) > room => ~ReadTopic(c).ok
<1>1. s \in Seq(Cell) /\ StringBytes(s) \in Seq(Cell) /\ Len(s) \in Nat
  BY StringType, BytesAreCells DEF Text
<1>2. c.room = room
  BY DEF At
<1>3. PICK d : d = ReadString(c, room)
  OBVIOUS
<1>4. CanRead(c, 2) /\ U16At(c) = Len(s)
  BY ReadStringAt
<1>5. ReadTopic(c) = [d EXCEPT !.room = IF Len(s) <= room THEN Len(s) ELSE d.room]
  BY <1>2, <1>3, <1>4 DEF ReadTopic
<1>6. ASSUME Len(s) <= room PROVE ReadTopic(c) = At(rest, Append(values, s), Len(s))
  <2>1. d = At(rest, Append(values, s), room)
    BY <1>3, <1>6, ReadStringAt
  <2>2. s \in Value
    BY <1>1 DEF Value
  <2>3. PICK more \in Seq(Value) : more = Append(values, s)
    BY <2>2, AppendProperties
  <2>4. d \in ACursor /\ d.left = rest /\ d.ok = TRUE /\ d.got = more
    BY <2>1, <2>3, AtType DEF At
  <2>5. PICK e \in ACursor :
           /\ e = At(rest, more, Len(s))
           /\ e.left = rest /\ e.ok = TRUE /\ e.got = more /\ e.room = Len(s)
    BY <1>1, <2>3, AtType DEF At
  <2>6. PICK f : f = ReadTopic(c)
    OBVIOUS
  <2>7. /\ f \in ACursor /\ f.left = d.left /\ f.ok = d.ok /\ f.got = d.got
        /\ f.room = Len(s)
    BY <1>1, <1>5, <1>6, <2>4, <2>6 DEF ACursor
  <2>8. f = e
    BY <2>4, <2>5, <2>7, SameCursor
  <2> QED
    BY <2>3, <2>5, <2>6, <2>8
<1>7. ASSUME Len(s) > room PROVE ~ReadTopic(c).ok
  <2>1. d = Fail(At(Cat(s, rest), values, room))
    BY <1>3, <1>7, ReadStringAt
  <2>2. At(Cat(s, rest), values, room) \in ACursor
    BY <1>1, CatCells, AtType
  <2>3. d \in ACursor /\ ~d.ok
    BY <2>1, <2>2, FailType DEF Follows
  <2>4. ReadTopic(c).ok = d.ok
    BY <1>5, <2>3 DEF ACursor
  <2> QED
    BY <2>3, <2>4
<1> QED
  BY <1>6, <1>7

\* The first byte is read as the type and the flags that it was made of.
LEMMA ReadTypeAt ==
    ASSUME NEW p \in Packet, Serializable(p), NEW rest \in Seq(Cell), NEW room \in Nat
    PROVE  ReadType(At(Cat(TypeByte(p), rest), <<>>, room))
             = At(rest, <<TypeCode[p.type], HeaderFlags(p)>>, room)
<1>1. PICK code \in 1..14, flags \in 0..15 :
         /\ code = TypeCode[p.type] /\ flags = HeaderFlags(p)
         /\ TypeByte(p) = One(16 * code + flags)
  BY TypeByteType DEF One
<1>2. code \in {8, 10} => flags = 2
  <2>1. p.type \in DOMAIN TypeCode
    BY PacketKinds, TypeOfCode
  <2>2. /\ "SUBSCRIBE" \in DOMAIN TypeCode /\ TypeCode["SUBSCRIBE"] = 8
        /\ "UNSUBSCRIBE" \in DOMAIN TypeCode /\ TypeCode["UNSUBSCRIBE"] = 10
    BY DEF TypeCode
  <2>3. /\ code = 8 => p.type = "SUBSCRIBE"
        /\ code = 10 => p.type = "UNSUBSCRIBE"
    BY <1>1, <2>1, <2>2, TypeOfCode
  <2> QED
    BY <1>1, <2>3 DEF HeaderFlags
<1>3. PICK b : b = 16 * code + flags
  OBVIOUS
<1>4. b \in 0..255 /\ b \div 16 = code /\ b % 16 = flags
  <2>1. \A x \in 1..14 : \A y \in 0..15 :
          16 * x + y \in 0..255 /\ (16 * x + y) \div 16 = x /\ (16 * x + y) % 16 = y
    OBVIOUS
  <2> QED
    BY <1>3, <2>1
<1>5. b \in Cell
  <2>1. \A x \in 0..255 : x \in 0..256
    OBVIOUS
  <2> QED
    BY <1>4, <2>1, CellIsNat
<1>6. PICK none \in Seq(Value) : none = <<>>
  <2>1. <<>> \in Seq(Value)
    OBVIOUS
  <2> QED
    BY <2>1
<1>7. PICK c : c = At(Cat(One(b), rest), none, room)
  OBVIOUS
<1>8. /\ CanRead(c, 1) /\ c.left[1] = b
      /\ \A v \in Value : Take(c, 1, v) = At(rest, Append(none, v), room)
  BY <1>5, <1>7, ReadByteAt
<1>9. code \in Value /\ flags \in Value
  BY DEF Value
<1>10. PICK first \in Seq(Value) : first = <<code>> /\ first = Append(none, code)
  <2>1. <<code>> \in Seq(Value)
    BY <1>9
  <2> QED
    BY <1>6, <2>1, Appended
<1>11. ReadType(c) = [Take(c, 1, code) EXCEPT !.got = Append(@, flags)]
  <2>1. c.left[1] \div 16 = code /\ c.left[1] % 16 = flags
    BY <1>4, <1>8
  <2> QED
    BY <1>2, <1>8, <2>1 DEF ReadType
<1>12. ReadType(c) = At(rest, Append(first, flags), room)
  <2>1. Take(c, 1, code) = At(rest, first, room)
    BY <1>8, <1>9, <1>10
  <2> QED
    BY <1>9, <1>11, <2>1, AtMore
<1>13. Append(first, flags) = <<code, flags>>
  BY <1>10, Appended
<1> QED
  BY <1>1, <1>3, <1>6, <1>7, <1>12, <1>13

\* The first byte of a length is also its last one to the reader.
LEMMA ReadLengthAt ==
    ASSUME NEW b \in 0..127, NEW rest \in Seq(Cell), NEW values \in Seq(Value),
           NEW room \in Nat
    PROVE  ReadLength(At(Cat(One(b), rest), values, room))
             = At(rest, Append(values, b), room)
<1>1. PICK c : c = At(Cat(One(b), rest), values, room)
  OBVIOUS
<1>2. b \in Cell
  <2>1. \A x \in 0..127 : x \in 0..256
    OBVIOUS
  <2> QED
    BY <2>1, CellIsNat
<1>3. One(b) \in Seq(Cell)
  BY <1>2, OneType
<1>4. c \in ACursor /\ c.ok
  <2>1. Cat(One(b), rest) \in Seq(Cell)
    BY <1>3, CatCells
  <2> QED
    BY <1>1, <2>1, AtType DEF At
<1>5. /\ CanRead(c, 1) /\ c.left[1] = b
      /\ Take(c, 1, b) = At(rest, Append(values, b), room)
  <2>1. b \in Value /\ \A v \in Value : Take(c, 1, v) = At(rest, Append(values, v), room)
    BY <1>1, <1>2, ReadByteAt
  <2>2. CanRead(c, 1) /\ c.left[1] = b
    BY <1>1, <1>2, ReadByteAt
  <2> QED
    BY <2>1, <2>2
<1>6. 1 \in Ends(c)
  <2>1. 1 \in DOMAIN c.left
    <3>1. c.left \in Seq(Cell) /\ 1 <= Len(c.left)
      BY <1>4, <1>5 DEF ACursor, CanRead
    <3> QED
      BY <3>1
  <2> QED
    BY <1>5, <2>1 DEF Ends
<1>7. PICK size \in Ends(c) : \E length :
         /\ \A i \in Ends(c) : size <= i
         /\ Decodes(length, c.left, size)
         /\ ReadLength(c) = Take(c, size, length[size])
  BY <1>4, <1>6, ReadLengthIs
<1>8. size = 1
  <2>1. size \in Nat /\ size >= 1
    <3>1. c.left \in Seq(Cell)
      BY <1>4 DEF ACursor
    <3> QED
      BY <3>1 DEF Ends
  <2> QED
    BY <1>6, <1>7, <2>1
<1>9. PICK length : Decodes(length, c.left, 1) /\ ReadLength(c) = Take(c, 1, length[1])
  BY <1>7, <1>8
<1>10. length[1] = b
  <2>1. 0 \in 0..1 /\ 1 \in 0..1
    OBVIOUS
  <2>2. length[0] = 0
    BY <1>9, <2>1, DecodesAt
  <2>3. length[1] = (128 * length[1 - 1] + (c.left[1] % 128)) % LengthMod
    BY <1>9, <2>1, DecodesAt
  <2>4. length[1] = (128 * 0 + (b % 128)) % LengthMod
    BY <1>5, <2>2, <2>3
  <2>5. \A x \in 0..127 : (128 * 0 + (x % 128)) % LengthMod = x
    BY CodecAssumption
  <2> QED
    BY <2>4, <2>5
<1> QED
  BY <1>1, <1>5, <1>9, <1>10

\* The values of the header.
HeaderValues(p) == <<TypeCode[p.type], HeaderFlags(p), RemainingLength(p)>>

LEMMA HeaderValuesType ==
    ASSUME NEW p \in Packet, Serializable(p)
    PROVE  HeaderValues(p) \in Seq(Value) /\ Len(HeaderValues(p)) = 3
<1>1. TypeCode[p.type] \in Value /\ HeaderFlags(p) \in Value /\ RemainingLength(p) \in Value
  <2>1. \A n \in 0..15 : n \in Nat
    OBVIOUS
  <2>2. TypeCode[p.type] \in Nat /\ HeaderFlags(p) \in Nat
    <3>1. TypeCode[p.type] \in 1..14 /\ HeaderFlags(p) \in 0..15
      BY TypeByteType
    <3> QED
      BY <3>1
  <2> QED
    BY <2>2, RemainingLengthType DEF Value
<1> QED
  BY <1>1 DEF HeaderValues

\* A sequence of cells begins with its first one.
LEMMA FirstCell ==
    ASSUME NEW s \in Seq(Cell), Len(s) >= 1
    PROVE  s[1] \in Cell /\ \E t \in Seq(Cell) : s = Cat(One(s[1]), t)
<1>1. s[1] \in Cell
  OBVIOUS
<1> DEFINE t == SubSeq(s, 2, Len(s))
           u == Cat(One(s[1]), t)
<1>2. t \in Seq(Cell) /\ Len(t) = Len(s) - 1 /\ \A i \in 1..Len(t) : t[i] = s[i + 1]
  <2>1. \A i \in 2..Len(s) : s[i] \in Cell
    OBVIOUS
  <2>2. /\ t \in Seq(Cell)
        /\ Len(t) = IF 2 <= Len(s) THEN Len(s) - 2 + 1 ELSE 0
        /\ \A i \in 1..(Len(s) - 2 + 1) : t[i] = s[2 + i - 1]
    BY <2>1, SubSeqProperties
  <2> HIDE DEF t
  <2>3. Len(t) = Len(s) - 1
    <3>1. PICK n \in Nat : n = Len(s) /\ n >= 1
      OBVIOUS
    <3>2. (IF 2 <= n THEN n - 2 + 1 ELSE 0) = n - 1
      BY <3>1
    <3>3. Len(t) = IF 2 <= n THEN n - 2 + 1 ELSE 0
      BY <2>2, <3>1
    <3> QED
      BY <3>1, <3>2, <3>3
  <2>4. ASSUME NEW i \in 1..Len(t) PROVE t[i] = s[i + 1]
    <3>1. 2 + i - 1 = i + 1 /\ i \in 1..(Len(s) - 2 + 1)
      BY <2>3
    <3> QED
      BY <2>2, <3>1
  <2> QED
    BY <2>2, <2>3, <2>4
<1> HIDE DEF t
<1>3. /\ u \in Seq(Cell) /\ Len(u) = 1 + Len(t) /\ u[1] = s[1]
      /\ \A i \in 1..Len(t) : u[1 + i] = t[i]
  <2>1. PICK o \in Seq(Cell) : o = One(s[1]) /\ Len(o) = 1 /\ o[1] = s[1]
    BY <1>1, OneType
  <2>2. /\ Cat(o, t) \in Seq(Cell)
        /\ Len(Cat(o, t)) = Len(o) + Len(t)
        /\ \A i \in 1..Len(o) : Cat(o, t)[i] = o[i]
        /\ \A i \in 1..Len(t) : Cat(o, t)[Len(o) + i] = t[i]
    BY <1>2, CatCells
  <2> QED
    BY <2>1, <2>2
<1> HIDE DEF u
<1>4. \A i \in 1..Len(s) : u[i] = s[i]
  <2> SUFFICES ASSUME NEW i \in 1..Len(s) PROVE u[i] = s[i]
    OBVIOUS
  <2>1. CASE i = 1
    BY <1>3, <2>1
  <2>2. CASE i # 1
    <3>1. i - 1 \in 1..Len(t) /\ 1 + (i - 1) = i /\ (i - 1) + 1 = i
      BY <1>2, <2>2
    <3>2. u[1 + (i - 1)] = t[i - 1] /\ t[i - 1] = s[(i - 1) + 1]
      BY <1>2, <1>3, <3>1
    <3> QED
      BY <3>1, <3>2
  <2> QED
    BY <2>1, <2>2
<1>5. Len(u) = Len(s)
  BY <1>2, <1>3
<1>6. u = s
  BY <1>3, <1>4, <1>5, SeqEqual
<1> QED
  BY <1>1, <1>2, <1>6 DEF u

\* The length is read back when one byte says it, and is another one otherwise.
HeaderRead(p, rest, room, d) ==
    /\ RemainingLength(p) < 128 => d = At(rest, HeaderValues(p), room)
    /\ RemainingLength(p) >= 128 =>
         \E left \in Seq(Cell) : \E n \in 0..127 :
             d = At(left, <<TypeCode[p.type], HeaderFlags(p), n>>, room)

LEMMA ReadHeaderAt ==
    ASSUME NEW p \in Packet, Serializable(p), NEW rest \in Seq(Cell), NEW room \in Nat,
           NEW c, c = Cursor(Cat(Header(p), rest), room)
    PROVE  HeaderRead(p, rest, room, ReadHeader(c))
<1>1. PICK n \in Nat : n = RemainingLength(p) /\ n < Weight[5]
  BY RemainingLengthType
<1>2. PICK length : length = LengthBytes(n)
  OBVIOUS
<1>3. /\ length \in Seq(0..127) /\ Len(length) >= 1 /\ length[1] = n % 128
      /\ (n < 128 => length = One(n))
  BY <1>1, <1>2, LengthBytesType DEF One
<1>4. length \in Seq(Cell) /\ TypeByte(p) \in Seq(Cell)
  <2>1. 0..127 \subseteq Cell
    BY CellIsNat
  <2> QED
    BY <1>3, <2>1, SeqMonotonic, TypeByteType, BytesAreCells
<1>5. c = At(Cat(TypeByte(p), Cat(length, rest)), <<>>, room)
  <2>1. Cat(Header(p), rest) = Cat(TypeByte(p), Cat(length, rest))
    BY <1>1, <1>2, <1>4, CatCellGroups DEF Header
  <2> QED
    BY <2>1 DEF Cursor, At
<1>6. PICK two \in Seq(Value) : two = <<TypeCode[p.type], HeaderFlags(p)>>
  <2>1. TypeCode[p.type] \in Value /\ HeaderFlags(p) \in Value
    <3>1. TypeCode[p.type] \in 1..14 /\ HeaderFlags(p) \in 0..15
      BY TypeByteType
    <3>2. TypeCode[p.type] \in Nat /\ HeaderFlags(p) \in Nat
      <4>1. (\A n1 \in 1..14 : n1 \in Nat) /\ (\A n2 \in 0..15 : n2 \in Nat)
        OBVIOUS
      <4> QED
        BY <3>1, <4>1, Zenon
    <3> QED
      BY <3>2 DEF Value
  <2>2. <<TypeCode[p.type], HeaderFlags(p)>> \in Seq(Value)
    BY <2>1
  <2> QED
    BY <2>2
<1>7. ReadType(c) = At(Cat(length, rest), two, room)
  <2>1. Cat(length, rest) \in Seq(Cell)
    BY <1>4, CatCells
  <2> QED
    BY <1>5, <1>6, <2>1, ReadTypeAt
<1>8. \A x : Append(two, x) = <<TypeCode[p.type], HeaderFlags(p), x>>
  BY <1>6, Appended
<1>9. ASSUME n < 128 PROVE ReadHeader(c) = At(rest, HeaderValues(p), room)
  <2>1. n \in 0..127
    BY <1>9
  <2>2. ReadLength(At(Cat(One(n), rest), two, room)) = At(rest, Append(two, n), room)
    BY <2>1, ReadLengthAt
  <2> QED
    BY <1>1, <1>3, <1>7, <1>8, <1>9, <2>2 DEF ReadHeader, HeaderValues
<1>10. ASSUME n >= 128
       PROVE  \E left \in Seq(Cell) : \E m \in 0..127 :
                  ReadHeader(c) = At(left, <<TypeCode[p.type], HeaderFlags(p), m>>, room)
  <2>1. PICK b \in Cell : b = length[1] /\ \E t \in Seq(Cell) : length = Cat(One(b), t)
    BY <1>3, <1>4, FirstCell
  <2>2. b \in 0..127
    <3>1. \A x \in Nat : x % 128 \in 0..127
      OBVIOUS
    <3> QED
      BY <1>3, <2>1, <3>1
  <2>3. PICK more \in Seq(Cell) : length = Cat(One(b), more) /\ One(b) \in Seq(Cell)
    BY <2>1, OneType
  <2>4. Cat(more, rest) \in Seq(Cell) /\ Cat(length, rest) = Cat(One(b), Cat(more, rest))
    BY <2>3, CatCells, CatCellGroups
  <2>5. ReadLength(At(Cat(One(b), Cat(more, rest)), two, room))
          = At(Cat(more, rest), Append(two, b), room)
    BY <2>2, <2>4, ReadLengthAt
  <2>6. ReadHeader(c)
          = At(Cat(more, rest), <<TypeCode[p.type], HeaderFlags(p), b>>, room)
    BY <1>7, <1>8, <2>4, <2>5 DEF ReadHeader
  <2> QED
    BY <2>2, <2>4, <2>6
<1> QED
  BY <1>1, <1>9, <1>10 DEF HeaderRead

LEMMA ValueAppended ==
    ASSUME NEW s \in Seq(Value), NEW v \in Value
    PROVE  /\ Append(s, v) \in Seq(Value) /\ Len(Append(s, v)) = Len(s) + 1
           /\ Append(s, v)[Len(s) + 1] = v
           /\ Len(s) \in Nat
  BY Extended

LEMMA ValuesKept ==
    ASSUME NEW s \in Seq(Value), NEW v \in Value
    PROVE  \A i \in 1..Len(s) : Append(s, v)[i] = s[i]
  BY Extended

LEMMA ByteIsValue == \A b \in Byte : b \in Cell /\ b \in Value
<1>1. \A b \in 0..255 : b \in Nat
  OBVIOUS
<1> QED
  BY <1>1 DEF Byte, Cell, Value

\* Values that were read one after the other.
LEMMA Gathered ==
    ASSUME NEW h \in Seq(Value), NEW x \in Value, NEW y \in Value, NEW z \in Value
    PROVE  /\ Append(h, x) = Cat(h, <<x>>)
           /\ Append(Append(h, x), y) = Cat(h, <<x, y>>)
           /\ Append(Append(Append(h, x), y), z) = Cat(h, <<x, y, z>>)
<1>1. ASSUME NEW t \in Seq(Value), NEW v \in Value
      PROVE  Append(Cat(h, t), v) = Cat(h, Append(t, v))
  <2>1. h \o Append(t, v) = Append(h \o t, v)
    BY <1>1, AppendLast
  <2> QED
    BY <2>1 DEF Cat
<1>2. <<>> \in Seq(Value) /\ <<x>> \in Seq(Value) /\ <<x, y>> \in Seq(Value)
  OBVIOUS
<1>3. Cat(h, <<>>) = h
  BY ConcatEmptySeq DEF Cat
<1>4. Append(h, x) = Cat(h, <<x>>)
  BY <1>1, <1>2, <1>3, Appended
<1>5. Append(Append(h, x), y) = Cat(h, <<x, y>>)
  <2>1. Append(Cat(h, <<x>>), y) = Cat(h, Append(<<x>>, y))
    BY <1>1, <1>2
  <2> QED
    BY <1>4, <2>1, Appended
<1>6. Append(Append(Append(h, x), y), z) = Cat(h, <<x, y, z>>)
  <2>1. Append(Cat(h, <<x, y>>), z) = Cat(h, Append(<<x, y>>, z))
    BY <1>1, <1>2
  <2> QED
    BY <1>5, <2>1, Appended
<1> QED
  BY <1>4, <1>5, <1>6

LEMMA GatheredTwo ==
    ASSUME NEW h \in Seq(Value), NEW x \in Value, NEW y \in Value
    PROVE  Append(Append(h, x), y) = Cat(h, <<x, y>>)
BY Gathered

LEMMA GatheredThree ==
    ASSUME NEW h \in Seq(Value), NEW x \in Value, NEW y \in Value, NEW z \in Value
    PROVE  Append(Append(Append(h, x), y), z) = Cat(h, <<x, y, z>>)
BY Gathered

\* r is what a deserializer has made of the packet p and what follows it: the
\* values of the packet if it survives and its topic has room, and only then.
RoomFor(p, room) ==
    p.type \in {"PUBLISH", "SUBSCRIBE", "UNSUBSCRIBE"} =>
        room > 0 /\ Len(p.topic) <= room

ReadsBack(p, rest, room, r) ==
    /\ (r.ok /\ r.got = Meaning(p)) <=> (Survives(p) /\ RoomFor(p, room))
    /\ Survives(p) /\ RoomFor(p, room) => r.left = rest

LEMMA ReadsAllBack ==
    ASSUME NEW p, NEW rest, NEW room, NEW r, Survives(p), RoomFor(p, room),
           NEW left_room, r = At(rest, Meaning(p), left_room)
    PROVE  ReadsBack(p, rest, room, r)
<1>1. r.ok /\ r.got = Meaning(p) /\ r.left = rest
  BY DEF At
<1> QED
  BY <1>1 DEF ReadsBack

LEMMA Refused ==
    ASSUME NEW p, NEW rest, NEW room, NEW r, ~(Survives(p) /\ RoomFor(p, room)),
           ~(r.ok /\ r.got = Meaning(p))
    PROVE  ReadsBack(p, rest, room, r)
BY DEF ReadsBack

LEMMA IdOnlyReadsBack ==
    ASSUME NEW p \in Packet, Serializable(p), p.type \in IdOnlyTypes,
           NEW rest \in Seq(Cell), NEW room \in Nat,
           NEW d, d = At(Cat(Body(p), rest), HeaderValues(p), room)
    PROVE  ReadsBack(p, rest, room, ReadIdOnly(d))
<1>1. p.packet_id \in Word
  BY PacketKinds DEF IdOnlyPacket
<1>2. Body(p) = U16(p.packet_id)
  BY DEF Body, IdOnlyTypes, EmptyTypes
<1>3. Meaning(p) = Cat(HeaderValues(p), <<p.packet_id>>)
  BY DEF Meaning, HeaderValues, Cat, IdOnlyTypes, EmptyTypes
<1>4. Survives(p) /\ RoomFor(p, room)
  <2>1. RemainingLength(p) = 2
    BY DEF RemainingLength, IdOnlyTypes, EmptyTypes
  <2> QED
    BY <2>1 DEF Survives, RoomFor, IdOnlyTypes
<1>5. HeaderValues(p) \in Seq(Value)
  BY HeaderValuesType
<1>6. d = At(Cat(U16(p.packet_id), rest), HeaderValues(p), room)
  BY <1>2
<1>7. /\ ReadU16(d) = At(rest, Append(HeaderValues(p), p.packet_id), room)
      /\ p.packet_id \in Value
  BY <1>1, <1>5, <1>6, ReadU16At
<1>8. ReadIdOnly(d) = At(rest, Meaning(p), room)
  BY <1>3, <1>5, <1>7, Gathered DEF ReadIdOnly
<1> QED
  BY <1>4, <1>8, ReadsAllBack

LEMMA EmptyReadsBack ==
    ASSUME NEW p \in Packet, Serializable(p), p.type \in EmptyTypes,
           NEW rest \in Seq(Cell), NEW room \in Nat,
           NEW d, d = At(Cat(Body(p), rest), HeaderValues(p), room)
    PROVE  ReadsBack(p, rest, room, ReadEmpty(d))
<1>1. Body(p) = <<>>
  BY DEF Body, IdOnlyTypes, EmptyTypes
<1>2. Cat(<<>>, rest) = rest /\ Cat(HeaderValues(p), <<>>) = HeaderValues(p)
  BY HeaderValuesType, ConcatEmptySeq DEF Cat
<1>3. Meaning(p) = HeaderValues(p)
  <2>1. Meaning(p) = Cat(HeaderValues(p), <<>>)
    BY DEF Meaning, HeaderValues, Cat, IdOnlyTypes, EmptyTypes
  <2> QED
    BY <1>2, <2>1
<1>4. Survives(p) /\ RoomFor(p, room)
  BY DEF Survives, RoomFor, RemainingLength, IdOnlyTypes, EmptyTypes
<1>5. d = At(rest, Meaning(p), room)
  BY <1>1, <1>2, <1>3
<1>6. ReadEmpty(d) = d
  <2>1. d.got = HeaderValues(p)
    BY <1>3, <1>5 DEF At
  <2>2. HeaderValues(p)[3] = 0
    BY DEF HeaderValues, RemainingLength, IdOnlyTypes, EmptyTypes
  <2> QED
    BY <2>1, <2>2 DEF ReadEmpty
<1> QED
  BY <1>4, <1>5, <1>6, ReadsAllBack

\* A QoS is refused if it is the highest one.
LEMMA ReadQosAt ==
    ASSUME NEW qos \in Byte, NEW rest \in Seq(Cell), NEW values \in Seq(Value),
           NEW room \in Nat, NEW c, c = At(Cat(One(qos), rest), values, room)
    PROVE  /\ QosAccepted(qos) => ReadQos(c) = At(rest, Append(values, qos), room)
           /\ ~QosAccepted(qos) => ~ReadQos(c).ok
<1>1. qos \in Cell
  BY DEF Cell
<1>2. /\ CanRead(c, 1) /\ c.left[1] = qos
      /\ Skip(c, 1) = At(rest, values, room)
      /\ ReadByte(c) = At(rest, Append(values, qos), room)
  BY <1>1, ReadByteAt
<1>3. ~Fail(Skip(c, 1)).ok
  BY <1>2, AtType, FailType
<1> QED
  BY <1>2, <1>3 DEF ReadQos

\* The QoS of a packet whose parameters were checked is accepted if it is not
\* the highest.
LEMMA QosOfPacket ==
    ASSUME NEW qos \in Byte, qos <= MaxQos \/ qos = FailureQos
    PROVE  QosAccepted(qos) <=> qos # MaxQos
<1>1. MaxQos \in 0..2 /\ qos \in 0..255
  BY CodecAssumption DEF Byte
<1>2. \A q \in 0..255 : \A m \in 0..2 :
        q <= m \/ q = 128 => ((q < m \/ q = 128) <=> q # m)
  OBVIOUS
<1> QED
  BY <1>1, <1>2 DEF QosAccepted, FailureQos

LEMMA SubackReadsBack ==
    ASSUME NEW p \in Packet, Serializable(p), p.type = "SUBACK",
           NEW rest \in Seq(Cell), NEW room \in Nat,
           NEW d, d = At(Cat(Body(p), rest), HeaderValues(p), room)
    PROVE  ReadsBack(p, rest, room, ReadSuback(d))
<1>1. p.packet_id \in Word /\ p.qos \in Byte
  BY PacketKinds DEF SubackPacket
<1>2. Body(p) = Cat(U16(p.packet_id), One(p.qos))
  BY DEF Body, One, IdOnlyTypes, EmptyTypes
<1>3. Meaning(p) = Cat(HeaderValues(p), <<p.packet_id, p.qos>>)
  BY DEF Meaning, HeaderValues, Cat, IdOnlyTypes, EmptyTypes
<1>4. Survives(p) /\ RoomFor(p, room) <=> p.qos # MaxQos
  <2>1. RemainingLength(p) = 3
    BY DEF RemainingLength, IdOnlyTypes, EmptyTypes
  <2> QED
    BY <2>1 DEF Survives, RoomFor
<1>5. HeaderValues(p) \in Seq(Value)
  BY HeaderValuesType
<1>6. /\ U16(p.packet_id) \in Seq(Cell) /\ One(p.qos) \in Seq(Cell)
      /\ Cat(One(p.qos), rest) \in Seq(Cell) /\ p.qos \in Value
  <2>1. p.qos \in Cell /\ p.qos \in Value
    BY <1>1, ByteIsValue
  <2> QED
    BY <1>1, <2>1, U16Type, BytesAreCells, OneType, CatCells
<1>7. d = At(Cat(U16(p.packet_id), Cat(One(p.qos), rest)), HeaderValues(p), room)
  BY <1>2, <1>6, CatCellGroups
<1>8. PICK c : c = ReadU16(d)
  OBVIOUS
<1>9. PICK named \in Seq(Value) :
         /\ named = Append(HeaderValues(p), p.packet_id)
         /\ c = At(Cat(One(p.qos), rest), named, room)
         /\ Append(named, p.qos) = Meaning(p)
  <2>1. /\ c = At(Cat(One(p.qos), rest), Append(HeaderValues(p), p.packet_id), room)
        /\ p.packet_id \in Value
    BY <1>1, <1>5, <1>6, <1>7, <1>8, ReadU16At
  <2>2. Append(HeaderValues(p), p.packet_id) \in Seq(Value)
    BY <1>5, <2>1, AppendProperties
  <2>3. Append(Append(HeaderValues(p), p.packet_id), p.qos)
          = Cat(HeaderValues(p), <<p.packet_id, p.qos>>)
    BY <1>5, <1>6, <2>1, GatheredTwo
  <2> QED
    BY <1>3, <2>1, <2>2, <2>3
<1>10. QosAccepted(p.qos) <=> p.qos # MaxQos
  BY <1>1, QosOfPacket DEF Serializable
<1>11. ReadSuback(d) = ReadQos(c)
  BY <1>8 DEF ReadSuback
<1>12. CASE p.qos # MaxQos
  <2>1. ReadQos(c) = At(rest, Append(named, p.qos), room)
    <3>1. QosAccepted(p.qos)
      BY <1>10, <1>12
    <3>2. c = At(Cat(One(p.qos), rest), named, room)
      BY <1>9
    <3> QED
      BY <1>1, <3>1, <3>2, ReadQosAt
  <2>2. ReadSuback(d) = At(rest, Meaning(p), room)
    BY <1>9, <1>11, <2>1
  <2> QED
    BY <1>4, <1>12, <2>2, ReadsAllBack
<1>13. CASE p.qos = MaxQos
  <2>1. ~ReadQos(c).ok
    BY <1>1, <1>9, <1>10, <1>13, ReadQosAt
  <2> QED
    BY <1>4, <1>11, <1>13, <2>1, Refused
<1> QED
  BY <1>12, <1>13

LEMMA ConnackReadsBack ==
    ASSUME NEW p \in Packet, Serializable(p), p.type = "CONNACK",
           NEW rest \in Seq(Cell), NEW room \in Nat,
           NEW d, d = At(Cat(Body(p), rest), HeaderValues(p), room)
    PROVE  ReadsBack(p, rest, room, ReadConnack(d))
<1>1. p.session_present \in BOOLEAN /\ p.retcode \in Byte
  BY PacketKinds DEF ConnackPacket
<1>2. PICK bit \in 0..1, code \in Cell :
         /\ bit = Bit(p.session_present) /\ code = p.retcode
         /\ bit \in Cell /\ p.session_present = (bit = 1)
  <2>1. Bit(p.session_present) \in 0..1 /\ p.session_present = (Bit(p.session_present) = 1)
    BY <1>1 DEF Bit
  <2>2. \A b \in 0..1 : b \in Cell
    <3>1. \A b \in 0..1 : b \in 0..256
      OBVIOUS
    <3> QED
      BY <3>1, CellIsNat
  <2>3. p.retcode \in Cell
    BY <1>1 DEF Cell
  <2>4. PICK bit \in 0..1 : bit = Bit(p.session_present)
    BY <2>1
  <2> QED
    BY <2>1, <2>2, <2>3, <2>4
<1>3. Body(p) = Cat(One(bit), One(code))
  <2>1. Body(p) = <<bit, code>>
    BY <1>2 DEF Body, IdOnlyTypes, EmptyTypes
  <2>2. <<bit>> \o <<code>> = <<bit, code>>
    <3>1. <<bit>> \in Seq(Cell) /\ <<>> \in Seq(Cell)
      BY <1>2
    <3>2. <<bit>> \o Append(<<>>, code) = Append(<<bit>> \o <<>>, code)
      BY <3>1, AppendLast
    <3>3. <<bit>> \o <<>> = <<bit>>
      BY <3>1, ConcatEmptySeq
    <3> QED
      BY <3>2, <3>3, Appended
  <2> QED
    BY <2>1, <2>2 DEF Cat, One
<1>4. Meaning(p) = Cat(HeaderValues(p), <<p.session_present, code>>)
  BY <1>2 DEF Meaning, HeaderValues, Cat, IdOnlyTypes, EmptyTypes
<1>5. Survives(p) /\ RoomFor(p, room)
  <2>1. RemainingLength(p) = 2
    BY DEF RemainingLength, IdOnlyTypes, EmptyTypes
  <2> QED
    BY <2>1 DEF Survives, RoomFor
<1>6. HeaderValues(p) \in Seq(Value)
  BY HeaderValuesType
<1>7. /\ One(bit) \in Seq(Cell) /\ One(code) \in Seq(Cell)
      /\ Cat(One(code), rest) \in Seq(Cell)
  BY <1>2, OneType, CatCells
<1>8. d = At(Cat(One(bit), Cat(One(code), rest)), HeaderValues(p), room)
  BY <1>3, <1>7, CatCellGroups
<1> DEFINE session == p.session_present
<1>9. session \in Value
  BY <1>1 DEF Value
<1>10. PICK named \in Seq(Value) :
          /\ named = Append(HeaderValues(p), session)
          /\ Take(d, 1, session) = At(Cat(One(code), rest), named, room)
  <2>1. \A v \in Value :
           Take(d, 1, v) = At(Cat(One(code), rest), Append(HeaderValues(p), v), room)
    BY <1>2, <1>6, <1>7, <1>8, ReadByteAt
  <2>2. Append(HeaderValues(p), session) \in Seq(Value)
    BY <1>6, <1>9, AppendProperties
  <2> QED
    BY <1>9, <2>1, <2>2
<1>11. CanRead(d, 2) /\ d.left[1] = bit /\ d.left[2] = code
  <2>1. PICK first \in Seq(Cell) : first = One(bit) /\ Len(first) = 1 /\ first[1] = bit
    BY <1>2, OneType
  <2>2. PICK second \in Seq(Cell) :
           second = Cat(One(code), rest) /\ Len(second) >= 1 /\ second[1] = code
    <3>1. PICK o \in Seq(Cell) : o = One(code) /\ Len(o) = 1 /\ o[1] = code
      BY OneType
    <3>2. Len(Cat(o, rest)) = Len(o) + Len(rest) /\ Len(rest) \in Nat
      BY CatCells, LenProperties
    <3>3. Cat(o, rest)[1] = o[1]
      <4>1. 1 \in 1..Len(o)
        BY <3>1
      <4> QED
        BY <4>1, CatCells
    <3> QED
      BY <1>7, <3>1, <3>2, <3>3
  <2>3. /\ Len(Cat(first, second)) = Len(first) + Len(second) /\ Len(second) \in Nat
        /\ \A i \in 1..Len(first) : Cat(first, second)[i] = first[i]
        /\ \A i \in 1..Len(second) : Cat(first, second)[Len(first) + i] = second[i]
    BY CatCells, LenProperties
  <2>4. /\ 2 <= Len(Cat(first, second)) /\ Cat(first, second)[1] = bit
        /\ Cat(first, second)[2] = code
    <3>1. 1 \in 1..Len(first) /\ 1 \in 1..Len(second) /\ Len(first) + 1 = 2
      BY <2>1, <2>2, <2>3
    <3>2. Cat(first, second)[1] = first[1] /\ Cat(first, second)[Len(first) + 1] = second[1]
      BY <2>3, <3>1
    <3>3. 2 <= Len(Cat(first, second))
      BY <2>1, <2>2, <2>3
    <3> QED
      BY <2>1, <2>2, <3>1, <3>2, <3>3
  <2>5. d.left = Cat(first, second) /\ d.ok = TRUE
    BY <1>8, <2>1, <2>2 DEF At
  <2> QED
    BY <2>4, <2>5 DEF CanRead
<1>12. PICK e \in ACursor :
          /\ e = Take(d, 1, session) /\ e = At(Cat(One(code), rest), named, room)
          /\ e.ok = TRUE /\ e.got = named /\ e.room = room
  <2>1. At(Cat(One(code), rest), named, room) \in ACursor
    BY <1>7, AtType
  <2> QED
    BY <1>10, <2>1 DEF At
<1>13. PICK more \in Seq(Value) : more = Append(named, code) /\ more = Meaning(p)
  <2>1. code \in Value
    BY <1>7, <1>12, ReadByteAt
  <2>2. Append(named, code) \in Seq(Value)
    BY <2>1, AppendProperties
  <2>3. Append(Append(HeaderValues(p), session), code)
          = Cat(HeaderValues(p), <<session, code>>)
    BY <1>6, <1>9, <2>1, GatheredTwo
  <2> QED
    BY <1>4, <1>10, <2>2, <2>3
<1>14. SubSeq(e.left, 2, Len(e.left)) = rest
  <2>1. Skip(e, 1) = At(rest, named, room)
    BY <1>12, ReadByteAt
  <2>2. Skip(e, 1).left = SubSeq(e.left, 1 + 1, Len(e.left))
    BY SkipType
  <2> QED
    BY <2>1, <2>2 DEF At
<1>15. PICK f : f = ReadConnack(d)
  OBVIOUS
<1>16. f = [e EXCEPT !.left = rest, !.got = more]
  <2>1. ~(d.left[1] > 1) /\ session = (d.left[1] = 1)
    <3>1. ~(bit > 1)
      BY <1>2
    <3>2. session = (bit = 1)
      BY <1>2
    <3> QED
      BY <1>11, <3>1, <3>2
  <2>2. ReadConnack(d)
          = [Take(d, 1, session) EXCEPT !.left = SubSeq(@, 2, Len(@)),
                                        !.got = Append(@, d.left[2])]
    BY <1>11, <2>1 DEF ReadConnack
  <2>3. f = [e EXCEPT !.left = SubSeq(e.left, 2, Len(e.left)), !.got = Append(e.got, code)]
    BY <1>11, <1>12, <1>15, <2>2
  <2> QED
    BY <1>12, <1>13, <1>14, <2>3
<1>17. f = At(rest, Meaning(p), room)
  <2>1. PICK g \in ACursor :
           /\ g = At(rest, more, room)
           /\ g.left = rest /\ g.ok = TRUE /\ g.got = more /\ g.room = room
    BY AtType DEF At
  <2>2. /\ f \in ACursor /\ f.left = rest /\ f.ok = e.ok /\ f.got = more
        /\ f.room = e.room
    BY <1>16 DEF ACursor
  <2>3. f = g
    BY <1>12, <2>1, <2>2, SameCursor
  <2> QED
    BY <1>13, <2>1, <2>3
<1> QED
  BY <1>5, <1>15, <1>17, ReadsAllBack

\* An id and then a topic, as two types of packets have them: after them the
\* bytes that follow, or a failure if the topic has no room.
LEMMA ReadIdAndTopicAt ==
    ASSUME NEW id \in Word, NEW s \in Text, NEW rest \in Seq(Cell),
           NEW values \in Seq(Value), NEW room \in Nat,
           NEW d, d = At(Cat(U16(id), Cat(StringBytes(s), rest)), values, room)
    PROVE  /\ id \in Value /\ s \in Value
           /\ ReadTopic(ReadU16(d)) \in ACursor
           /\ Len(s) <= room =>
                ReadTopic(ReadU16(d)) = At(rest, Append(Append(values, id), s), Len(s))
           /\ Len(s) > room => ~ReadTopic(ReadU16(d)).ok
<1>1. StringBytes(s) \in Seq(Cell) /\ s \in Value
  BY StringType, BytesAreCells DEF Value
<1>2. Cat(StringBytes(s), rest) \in Seq(Cell)
  BY <1>1, CatCells
<1>3. ReadU16(d) = At(Cat(StringBytes(s), rest), Append(values, id), room) /\ id \in Value
  BY <1>2, ReadU16At
<1>4. PICK more \in Seq(Value) : more = Append(values, id)
  BY <1>3, AppendProperties
<1>5. PICK c : c = ReadU16(d)
  OBVIOUS
<1>6. c = At(Cat(StringBytes(s), rest), more, room)
  BY <1>3, <1>4, <1>5
<1>7. c \in ACursor
  BY <1>2, <1>6, AtType
<1>8. ReadTopic(c) \in ACursor
  BY <1>7, ReadTopicType DEF Follows
<1>9. /\ Len(s) <= room => ReadTopic(c) = At(rest, Append(more, s), Len(s))
      /\ Len(s) > room => ~ReadTopic(c).ok
  BY <1>6, ReadTopicAt
<1> QED
  BY <1>1, <1>3, <1>4, <1>5, <1>8, <1>9

LEMMA UnsubscribeReadsBack ==
    ASSUME NEW p \in Packet, Serializable(p), p.type = "UNSUBSCRIBE",
           RemainingLength(p) < 128, NEW rest \in Seq(Cell), NEW room \in Nat,
           NEW d, d = At(Cat(Body(p), rest), HeaderValues(p), room)
    PROVE  ReadsBack(p, rest, room, ReadUnsubscribe(d))
<1>1. p.packet_id \in Word /\ p.topic \in Text
  BY PacketKinds DEF UnsubscribePacket
<1>2. Body(p) = Cat(U16(p.packet_id), StringBytes(p.topic))
  BY DEF Body, IdOnlyTypes, EmptyTypes
<1>3. Meaning(p) = Cat(HeaderValues(p), <<p.packet_id, p.topic>>)
  BY DEF Meaning, HeaderValues, Cat, IdOnlyTypes, EmptyTypes
<1>4. Survives(p) /\ (RoomFor(p, room) <=> room > 0 /\ Len(p.topic) <= room)
  BY DEF Survives, RoomFor
<1>5. HeaderValues(p) \in Seq(Value)
  BY HeaderValuesType
<1>6. d = At(Cat(U16(p.packet_id), Cat(StringBytes(p.topic), rest)), HeaderValues(p), room)
  BY <1>1, <1>2, U16Type, StringType, BytesAreCells, CatCellGroups
<1>7. PICK c : c = ReadTopic(ReadU16(d))
  OBVIOUS
<1>8. /\ p.packet_id \in Value /\ p.topic \in Value
      /\ Len(p.topic) <= room =>
            c = At(rest, Append(Append(HeaderValues(p), p.packet_id), p.topic), Len(p.topic))
      /\ Len(p.topic) > room => ~c.ok
  BY <1>1, <1>5, <1>6, <1>7, ReadIdAndTopicAt
<1>9. ReadUnsubscribe(d) = IF room = 0 THEN Fail(d) ELSE c
  <2>1. d.room = room
    BY DEF At
  <2> QED
    BY <1>7, <2>1 DEF ReadUnsubscribe, WithRoom
<1>10. Len(p.topic) \in Nat
  BY <1>1 DEF Text
<1>11. CASE room > 0 /\ Len(p.topic) <= room
  <2>1. c = At(rest, Meaning(p), Len(p.topic))
    <3>1. Append(Append(HeaderValues(p), p.packet_id), p.topic)
            = Cat(HeaderValues(p), <<p.packet_id, p.topic>>)
      BY <1>5, <1>8, GatheredTwo
    <3> QED
      BY <1>3, <1>8, <1>11, <3>1
  <2> QED
    BY <1>4, <1>9, <1>11, <2>1, ReadsAllBack
<1>12. CASE room > 0 /\ Len(p.topic) > room
  <2>1. ReadUnsubscribe(d) = c /\ ~c.ok
    BY <1>8, <1>9, <1>12
  <2>2. ~RoomFor(p, room)
    BY <1>4, <1>10, <1>12
  <2> QED
    BY <2>1, <2>2, Refused
<1>13. CASE room = 0
  <2>1. d \in ACursor
    <3>1. Cat(U16(p.packet_id), Cat(StringBytes(p.topic), rest)) \in Seq(Cell)
      BY <1>1, U16Type, StringType, BytesAreCells, CatCells
    <3> QED
      BY <1>5, <1>6, <3>1, AtType
  <2>2. ~ReadUnsubscribe(d).ok
    BY <1>9, <1>13, <2>1, FailType
  <2>3. ~RoomFor(p, room)
    BY <1>4, <1>13
  <2> QED
    BY <2>2, <2>3, Refused
<1> QED
  BY <1>10, <1>11, <1>12, <1>13

LEMMA SubscribeReadsBack ==
    ASSUME NEW p \in Packet, Serializable(p), p.type = "SUBSCRIBE",
           RemainingLength(p) < 128, NEW rest \in Seq(Cell), NEW room \in Nat,
           NEW d, d = At(Cat(Body(p), rest), HeaderValues(p), room)
    PROVE  ReadsBack(p, rest, room, ReadSubscribe(d))
<1>1. p.packet_id \in Word /\ p.topic \in Text /\ p.qos \in Byte
  BY PacketKinds DEF SubscribePacket
<1>2. Body(p) = Cat(U16(p.packet_id), Cat(StringBytes(p.topic), One(p.qos)))
  BY DEF Body, One, IdOnlyTypes, EmptyTypes
<1>3. Meaning(p) = Cat(HeaderValues(p), <<p.packet_id, p.topic, p.qos>>)
  BY DEF Meaning, HeaderValues, Cat, IdOnlyTypes, EmptyTypes
<1>4. Survives(p) /\ RoomFor(p, room)
        <=> p.qos # MaxQos /\ room > 0 /\ Len(p.topic) <= room
  BY DEF Survives, RoomFor
<1>5. HeaderValues(p) \in Seq(Value)
  BY HeaderValuesType
<1>6. /\ U16(p.packet_id) \in Seq(Cell) /\ StringBytes(p.topic) \in Seq(Cell)
      /\ One(p.qos) \in Seq(Cell) /\ p.qos \in Value
  BY <1>1, U16Type, StringType, BytesAreCells, ByteIsValue, OneType
<1> DEFINE last == Cat(One(p.qos), rest)
<1>7. last \in Seq(Cell) /\ Cat(StringBytes(p.topic), last) \in Seq(Cell)
  BY <1>6, CatCells
<1>8. d = At(Cat(U16(p.packet_id), Cat(StringBytes(p.topic), last)), HeaderValues(p), room)
  <2>1. Cat(StringBytes(p.topic), One(p.qos)) \in Seq(Cell)
    BY <1>6, CatCells
  <2>2. Cat(Body(p), rest)
          = Cat(U16(p.packet_id), Cat(Cat(StringBytes(p.topic), One(p.qos)), rest))
    BY <1>2, <1>6, <2>1, CatCellGroups
  <2>3. Cat(Cat(StringBytes(p.topic), One(p.qos)), rest) = Cat(StringBytes(p.topic), last)
    BY <1>6, CatCellGroups
  <2> QED
    BY <2>2, <2>3
<1>9. PICK c : c = ReadTopic(ReadU16(d))
  OBVIOUS
<1> HIDE DEF last
<1>10. /\ p.packet_id \in Value /\ p.topic \in Value /\ c \in ACursor
       /\ Len(p.topic) <= room =>
             c = At(last, Append(Append(HeaderValues(p), p.packet_id), p.topic), Len(p.topic))
       /\ Len(p.topic) > room => ~c.ok
  BY <1>1, <1>5, <1>7, <1>8, <1>9, ReadIdAndTopicAt
<1>11. ReadSubscribe(d) = IF room = 0 THEN Fail(d) ELSE ReadQos(c)
  <2>1. d.room = room
    BY DEF At
  <2> QED
    BY <1>9, <2>1 DEF ReadSubscribe, WithRoom
<1>12. Len(p.topic) \in Nat
  BY <1>1 DEF Text
<1>13. CASE room > 0 /\ Len(p.topic) <= room
  <2>1. PICK more \in Seq(Value) :
           /\ c = At(last, more, Len(p.topic))
           /\ Append(more, p.qos) = Meaning(p)
    <3>1. Append(Append(HeaderValues(p), p.packet_id), p.topic) \in Seq(Value)
      BY <1>5, <1>10, AppendProperties
    <3>2. Append(Append(Append(HeaderValues(p), p.packet_id), p.topic), p.qos)
            = Cat(HeaderValues(p), <<p.packet_id, p.topic, p.qos>>)
      BY <1>5, <1>6, <1>10, GatheredThree
    <3> QED
      BY <1>3, <1>10, <1>13, <3>1, <3>2
  <2>2. QosAccepted(p.qos) <=> p.qos # MaxQos
    BY <1>1, QosOfPacket DEF Serializable
  <2>3. /\ QosAccepted(p.qos) => ReadQos(c) = At(rest, Append(more, p.qos), Len(p.topic))
        /\ ~QosAccepted(p.qos) => ~ReadQos(c).ok
    BY <1>1, <1>12, <2>1, ReadQosAt DEF last
  <2>4. ReadSubscribe(d) = ReadQos(c)
    BY <1>11, <1>13
  <2>5. CASE p.qos # MaxQos
    <3>1. ReadSubscribe(d) = At(rest, Meaning(p), Len(p.topic))
      BY <2>1, <2>2, <2>3, <2>4, <2>5
    <3> QED
      BY <1>4, <1>13, <2>5, <3>1, ReadsAllBack
  <2>6. CASE p.qos = MaxQos
    BY <1>4, <2>2, <2>3, <2>4, <2>6, Refused
  <2> QED
    BY <2>5, <2>6
<1>14. CASE room > 0 /\ Len(p.topic) > room
  <2>1. ~ReadQos(c).ok
    BY <1>10, <1>14, ReadQosType DEF Follows
  <2>2. ReadSubscribe(d) = ReadQos(c)
    BY <1>11, <1>14
  <2>3. ~(Survives(p) /\ RoomFor(p, room))
    BY <1>4, <1>12, <1>14
  <2> QED
    BY <2>1, <2>2, <2>3, Refused
<1>15. CASE room = 0
  <2>1. d \in ACursor
    <3>1. Cat(U16(p.packet_id), Cat(StringBytes(p.topic), last)) \in Seq(Cell)
      BY <1>6, <1>7, CatCells
    <3> QED
      BY <1>5, <1>8, <3>1, AtType
  <2>2. ~ReadSubscribe(d).ok
    BY <1>11, <1>15, <2>1, FailType
  <2>3. ~(Survives(p) /\ RoomFor(p, room))
    BY <1>4, <1>15
  <2> QED
    BY <2>2, <2>3, Refused
<1> QED
  BY <1>12, <1>13, <1>14, <1>15

\* The flags of a PUBLISH say its QoS.
LEMMA PublishFlags ==
    ASSUME NEW p \in Packet, Serializable(p), p.type = "PUBLISH"
    PROVE  p.qos \in 0..2 /\ p.qos <= MaxQos /\ (HeaderFlags(p) \div 2) % 4 = p.qos
<1>1. p.qos <= MaxQos
  BY DEF Serializable
<1>2. p.qos \in 0..2
  <2>1. MaxQos \in 0..2 /\ p.qos \in 0..255
    BY CodecAssumption, PacketKinds DEF PublishPacket, Byte
  <2> QED
    BY <1>1, <2>1
<1>3. PICK a \in 0..1, b \in 0..1 : a = Bit(p.retain) /\ b = Bit(p.duplicate)
  BY DEF Bit
<1>4. HeaderFlags(p) = 2 * p.qos + a + 8 * b
  BY <1>3 DEF HeaderFlags
<1>5. \A q \in 0..2 : \A x, y \in 0..1 : ((2 * q + x + 8 * y) \div 2) % 4 = q
  OBVIOUS
<1> QED
  BY <1>1, <1>2, <1>4, <1>5

\* What a PUBLISH is read as, in steps.
LEMMA ReadPublishIs ==
    ASSUME NEW p \in Packet, Serializable(p), p.type = "PUBLISH",
           NEW left, NEW room, NEW d, d = At(left, HeaderValues(p), room),
           NEW after_topic, after_topic = ReadTopic(d),
           NEW after, after = (RemainingLength(p) - (after_topic.room + 2)) % LengthMod,
           NEW named, NEW size
    PROVE  /\ room = 0 => ReadPublish(d) = Fail(d)
           /\ room # 0 /\ p.qos > 0 /\ after > IdSize
                /\ named = ReadU16(after_topic) /\ size = (after - IdSize) % LengthMod
                => ReadPublish(d) = IF CanRead(named, size)
                                    THEN Take(named, size, SubSeq(named.left, 1, size))
                                    ELSE Fail(named)
           /\ room # 0 /\ ~(p.qos > 0 /\ after > IdSize)
                /\ named = after_topic /\ size = after
                => ReadPublish(d) = IF CanRead(named, size)
                                    THEN Take(named, size, SubSeq(named.left, 1, size))
                                    ELSE Fail(named)
<1>1. d.room = room /\ d.got = HeaderValues(p)
  BY DEF At
<1>2. /\ d.got[2] = HeaderFlags(p) /\ d.got[3] = RemainingLength(p)
  BY <1>1 DEF HeaderValues
<1>3. (d.got[2] \div 2) % 4 = p.qos /\ ~(p.qos > MaxQos)
  <2>1. \A q \in 0..2 : \A m \in 0..2 : q <= m => ~(q > m)
    OBVIOUS
  <2> QED
    BY <1>2, <2>1, PublishFlags, CodecAssumption
<1>4. after = (d.got[3] - (after_topic.room + 2)) % LengthMod
  BY <1>2
<1>5. room = 0 => ReadPublish(d) = Fail(d)
  BY <1>1 DEF ReadPublish
<1>6. ASSUME room # 0, p.qos > 0, after > IdSize,
             named = ReadU16(after_topic), size = (after - IdSize) % LengthMod
      PROVE  ReadPublish(d) = IF CanRead(named, size)
                              THEN Take(named, size, SubSeq(named.left, 1, size))
                              ELSE Fail(named)
  BY <1>1, <1>3, <1>4, <1>6, Zenon DEF ReadPublish
<1>7. ASSUME room # 0, ~(p.qos > 0 /\ after > IdSize), named = after_topic, size = after
      PROVE  ReadPublish(d) = IF CanRead(named, size)
                              THEN Take(named, size, SubSeq(named.left, 1, size))
                              ELSE Fail(named)
  BY <1>1, <1>3, <1>4, <1>7, Zenon DEF ReadPublish
<1> QED
  BY <1>5, <1>6, <1>7

\* Without room for the topic nothing is read.
LEMMA PublishWithoutRoom ==
    ASSUME NEW p \in Packet, Serializable(p), p.type = "PUBLISH",
           NEW left \in Seq(Cell), NEW room \in Nat, NEW d, d = At(left, HeaderValues(p), room),
           room = 0 \/ ~ReadTopic(d).ok
    PROVE  ~ReadPublish(d).ok
<1>1. d \in ACursor
  BY HeaderValuesType, AtType
<1>2. CASE room = 0
  BY <1>1, <1>2, ReadPublishIs, FailType
<1>3. CASE room # 0 /\ ~ReadTopic(d).ok
  <2>1. PICK topic_read \in ACursor : topic_read = ReadTopic(d) /\ ~topic_read.ok
    BY <1>1, <1>3, ReadTopicType DEF Follows
  <2>2. PICK after : after = (RemainingLength(p) - (topic_read.room + 2)) % LengthMod
    OBVIOUS
  <2>3. ReadU16(topic_read) \in ACursor /\ ~ReadU16(topic_read).ok
    BY <2>1, ReadU16Type DEF Follows
  <2>4. ASSUME NEW named \in ACursor, ~named.ok, NEW size,
               ReadPublish(d) = IF CanRead(named, size)
                                THEN Take(named, size, SubSeq(named.left, 1, size))
                                ELSE Fail(named)
        PROVE  ~ReadPublish(d).ok
    BY <2>4, FailType DEF CanRead
  <2>5. CASE p.qos > 0 /\ after > IdSize
    BY <1>3, <2>1, <2>2, <2>3, <2>4, <2>5, ReadPublishIs
  <2>6. CASE ~(p.qos > 0 /\ after > IdSize)
    BY <1>3, <2>1, <2>2, <2>4, <2>6, ReadPublishIs
  <2> QED
    BY <2>5, <2>6
<1> QED
  BY <1>2, <1>3

\* The bytes between the topic and the payload.
IdBytes(p) == IF p.qos > 0 THEN U16(p.packet_id) ELSE <<>>

LEMMA PublishParts ==
    ASSUME NEW p \in Packet, Serializable(p), p.type = "PUBLISH",
           NEW rest \in Seq(Cell)
    PROVE  /\ p.topic \in Text /\ p.topic \in Value /\ Len(p.topic) \in Nat
           /\ p.data \in Seq(Cell) /\ p.data \in Value /\ Len(p.data) \in Nat
           /\ p.packet_id \in Word /\ p.packet_id \in Value
           /\ IdBytes(p) \in Seq(Cell)
           /\ Cat(Body(p), rest)
                = Cat(StringBytes(p.topic), Cat(IdBytes(p), Cat(p.data, rest)))
<1>1. p.topic \in Text /\ p.data \in Seq(Byte) /\ p.packet_id \in Word
  BY PacketKinds DEF PublishPacket
<1>2. /\ StringBytes(p.topic) \in Seq(Cell) /\ p.data \in Seq(Cell)
      /\ p.topic \in Seq(Cell)
  BY <1>1, StringType, BytesAreCells
<1>3. IdBytes(p) \in Seq(Cell)
  <2>1. <<>> \in Seq(Cell)
    OBVIOUS
  <2> QED
    BY <1>1, <2>1, U16Type, BytesAreCells DEF IdBytes
<1>4. Body(p) = Cat(StringBytes(p.topic), Cat(IdBytes(p), p.data))
  BY DEF Body, IdBytes, IdOnlyTypes, EmptyTypes
<1>5. Cat(Body(p), rest) = Cat(StringBytes(p.topic), Cat(Cat(IdBytes(p), p.data), rest))
  <2>1. Cat(IdBytes(p), p.data) \in Seq(Cell)
    BY <1>2, <1>3, CatCells
  <2> QED
    BY <1>2, <1>4, <2>1, CatCellGroups
<1>6. Cat(Cat(IdBytes(p), p.data), rest) = Cat(IdBytes(p), Cat(p.data, rest))
  BY <1>2, <1>3, CatCellGroups
<1>7. p.topic \in Value /\ p.data \in Value /\ p.packet_id \in Value
  BY <1>1, <1>2 DEF Value, Word
<1>8. Len(p.topic) \in Nat /\ Len(p.data) \in Nat
  BY <1>2, LenProperties
<1> QED
  BY <1>1, <1>2, <1>3, <1>5, <1>6, <1>7, <1>8

\* What is read as the payload has the length that was asked for, and is one
\* value more.
LEMMA PayloadRead ==
    ASSUME NEW c \in ACursor, NEW n \in Nat, NEW r,
           r = IF CanRead(c, n) THEN Take(c, n, SubSeq(c.left, 1, n)) ELSE Fail(c)
    PROVE  r.ok => \E v \in Value : Len(v) = n /\ r.got = Append(c.got, v)
<1>1. CASE CanRead(c, n)
  <2>1. SubSeq(c.left, 1, n) \in Value
    BY <1>1, TakeBytesType
  <2>2. Len(SubSeq(c.left, 1, n)) = n
    <3>1. c.left \in Seq(Cell) /\ n <= Len(c.left)
      BY <1>1 DEF ACursor, CanRead
    <3> QED
      BY <3>1
  <2>3. PICK v \in Value : v = SubSeq(c.left, 1, n) /\ Len(v) = n
    BY <2>1, <2>2
  <2>4. Take(c, n, v).got = Append(c.got, v)
    BY TakeType
  <2>5. r = Take(c, n, v)
    BY <1>1, <2>3
  <2> QED
    BY <2>3, <2>4, <2>5
<1>2. CASE ~CanRead(c, n)
  <2>1. r = Fail(c)
    BY <1>2
  <2>2. ~r.ok
    BY <2>1, FailType
  <2> QED
    BY <2>2
<1> QED
  BY <1>1, <1>2

LEMMA OtherPayload ==
    ASSUME NEW c \in ACursor, NEW n \in Nat, NEW r,
           r = IF CanRead(c, n) THEN Take(c, n, SubSeq(c.left, 1, n)) ELSE Fail(c),
           NEW values \in Seq(Value), c.got = values,
           NEW data \in Value, Len(data) # n
    PROVE  ~(r.ok /\ r.got = Append(values, data))
<1> SUFFICES ASSUME r.ok, r.got = Append(values, data) PROVE FALSE
  OBVIOUS
<1>1. PICK v \in Value : Len(v) = n /\ Append(values, v) = Append(values, data)
  BY PayloadRead
<1>2. /\ Append(values, v)[Len(values) + 1] = v
      /\ Append(values, data)[Len(values) + 1] = data
  BY ValueAppended
<1>3. v = data
  BY <1>1, <1>2
<1> QED
  BY <1>1, <1>3

LEMMA TooFewValues ==
    ASSUME NEW c \in ACursor, NEW n \in Nat, NEW r,
           r = IF CanRead(c, n) THEN Take(c, n, SubSeq(c.left, 1, n)) ELSE Fail(c),
           NEW values \in Seq(Value), c.got = values,
           NEW meaning, Len(meaning) # Len(values) + 1
    PROVE  ~(r.ok /\ r.got = meaning)
<1> SUFFICES ASSUME r.ok, r.got = meaning PROVE FALSE
  OBVIOUS
<1>1. PICK v \in Value : meaning = Append(values, v)
  BY PayloadRead
<1>2. Len(Append(values, v)) = Len(values) + 1
  BY ValueAppended
<1> QED
  BY <1>1, <1>2

\* The bytes after the topic of a short packet, and what is left of them when
\* the id counts as a pointer.
LEMMA SizeAfterTopic ==
    ASSUME NEW t \in Nat, NEW n \in Nat, NEW b \in 0..1, t + 2 + n + 2 * b < 128
    PROVE  n < 128 /\ ((t + 2 + n + 2 * b) - (t + 2)) % LengthMod = n + 2 * b
<1>1. /\ n < 128 /\ (t + 2 + n + 2 * b) - (t + 2) = n + 2 * b
      /\ n + 2 * b \in 0..127
  OBVIOUS
<1>2. \A x \in 0..127 : x % LengthMod = x
  BY CodecAssumption
<1> QED
  BY <1>1, <1>2

LEMMA SizeAfterId ==
    ASSUME NEW n \in Nat, n < 128, NEW after, after = n + 2, after > IdSize
    PROVE  \E size \in Nat : size = (after - IdSize) % LengthMod /\ n # size
<1>1. IdSize \in {4, 8}
  BY CodecAssumption DEF IdSize
<1>2. after - IdSize \in 0..127 /\ n # after - IdSize
  BY <1>1
<1>3. \A x \in 0..127 : x % LengthMod = x /\ x \in Nat
  BY CodecAssumption
<1>4. PICK size \in 0..127 : size = after - IdSize
  BY <1>2
<1>5. size \in Nat /\ size = (after - IdSize) % LengthMod /\ n # size
  BY <1>2, <1>3, <1>4
<1> QED
  BY <1>5

LEMMA PublishReadsBack ==
    ASSUME NEW p \in Packet, Serializable(p), p.type = "PUBLISH",
           RemainingLength(p) < 128, NEW rest \in Seq(Cell), NEW room \in Nat,
           NEW d, d = At(Cat(Body(p), rest), HeaderValues(p), room)
    PROVE  ReadsBack(p, rest, room, ReadPublish(d))
<1> DEFINE payload == Cat(p.data, rest)
           body == Cat(IdBytes(p), payload)
           whole == Cat(StringBytes(p.topic), body)
<1>1. /\ p.topic \in Text /\ p.topic \in Value /\ Len(p.topic) \in Nat
      /\ p.data \in Seq(Cell) /\ p.data \in Value /\ Len(p.data) \in Nat
      /\ p.packet_id \in Word /\ p.packet_id \in Value
      /\ IdBytes(p) \in Seq(Cell)
      /\ d = At(whole, HeaderValues(p), room)
  BY PublishParts
<1>2. payload \in Seq(Cell) /\ body \in Seq(Cell) /\ whole \in Seq(Cell)
  <2>1. payload \in Seq(Cell)
    BY <1>1, CatCells
  <2>2. body \in Seq(Cell)
    BY <1>1, <2>1, CatCells
  <2> QED
    BY <1>1, <2>1, <2>2, StringType, BytesAreCells, CatCells
<1>3. HeaderValues(p) \in Seq(Value) /\ Len(HeaderValues(p)) = 3
  BY HeaderValuesType
<1>4. p.qos \in 0..2
  BY PublishFlags
<1>5. Survives(p) /\ RoomFor(p, room) <=> p.qos = 0 /\ room > 0 /\ Len(p.topic) <= room
  BY DEF Survives, RoomFor
<1>6. /\ Len(p.topic) <= room =>
            ReadTopic(d) = At(body, Append(HeaderValues(p), p.topic), Len(p.topic))
      /\ Len(p.topic) > room => ~ReadTopic(d).ok
  BY <1>1, <1>2, <1>3, ReadTopicAt
<1> HIDE DEF payload, body, whole
<1>7. CASE room = 0 \/ Len(p.topic) > room
  <2>1. ~ReadPublish(d).ok
    BY <1>1, <1>2, <1>6, <1>7, PublishWithoutRoom
  <2>2. ~(room > 0 /\ Len(p.topic) <= room)
    BY <1>1, <1>7
  <2> QED
    BY <1>5, <2>1, <2>2, Refused
<1>8. CASE room > 0 /\ Len(p.topic) <= room
  <2>1. PICK head_topic \in Seq(Value) : head_topic = Append(HeaderValues(p), p.topic)
    BY <1>1, <1>3, AppendProperties
  <2>2. PICK topic_read \in ACursor :
           /\ topic_read = ReadTopic(d)
           /\ topic_read = At(body, head_topic, Len(p.topic))
           /\ topic_read.room = Len(p.topic)
    <3>1. At(body, head_topic, Len(p.topic)) \in ACursor
      BY <1>1, <1>2, AtType
    <3> QED
      BY <1>6, <1>8, <2>1, <3>1 DEF At
  <2>3. PICK after : after = (RemainingLength(p) - (topic_read.room + 2)) % LengthMod
    OBVIOUS
  <2>4. after = Len(p.data) + 2 * Bit(p.qos > 0) /\ Len(p.data) < 128
    <3>1. PICK bit \in 0..1 : bit = Bit(p.qos > 0)
      BY DEF Bit
    <3>2. PICK t \in Nat, n \in Nat : t = Len(p.topic) /\ n = Len(p.data)
      BY <1>1
    <3>3. RemainingLength(p) = t + 2 + n + 2 * bit
      BY <3>1, <3>2 DEF RemainingLength, IdOnlyTypes, EmptyTypes
    <3>4. n < 128 /\ ((t + 2 + n + 2 * bit) - (t + 2)) % LengthMod = n + 2 * bit
      <4>1. t + 2 + n + 2 * bit < 128
        BY <3>3
      <4> QED
        BY <4>1, SizeAfterTopic
    <3>5. after = ((t + 2 + n + 2 * bit) - (t + 2)) % LengthMod
      BY <2>2, <2>3, <3>2, <3>3
    <3> QED
      BY <3>1, <3>2, <3>4, <3>5
  <2>5. CASE p.qos = 0
    <3>1. after = Len(p.data) /\ body = payload
      <4>1. Cat(<<>>, payload) = payload
        BY <1>2, ConcatEmptySeq DEF Cat
      <4> QED
        BY <1>1, <2>4, <2>5, <4>1 DEF Bit, IdBytes, body
    <3>2. ReadPublish(d)
            = IF CanRead(topic_read, Len(p.data))
              THEN Take(topic_read, Len(p.data), SubSeq(topic_read.left, 1, Len(p.data)))
              ELSE Fail(topic_read)
      <4>1. room # 0 /\ ~(p.qos > 0 /\ after > IdSize)
        BY <1>8, <2>5
      <4>2. topic_read = ReadTopic(d) /\ Len(p.data) = after
        BY <2>2, <3>1
      <4> QED
        BY <1>1, <2>3, <4>1, <4>2, ReadPublishIs
    <3>3. topic_read = At(Cat(p.data, rest), head_topic, Len(p.topic))
      BY <2>2, <3>1 DEF payload
    <3>4. CanRead(topic_read, Len(p.data))
      BY <1>1, <3>3, SkipAt
    <3>5. SubSeq(topic_read.left, 1, Len(p.data)) = p.data
      <4>1. topic_read.left = Cat(p.data, rest)
        BY <3>3 DEF At
      <4>2. SubSeq(Cat(p.data, rest), 1, Len(p.data)) = p.data
        BY <1>1, CatFront
      <4> QED
        BY <4>1, <4>2
    <3>6. Take(topic_read, Len(p.data), p.data)
            = At(rest, Append(head_topic, p.data), Len(p.topic))
      BY <1>1, <3>3, TakeAt
    <3>7. Append(head_topic, p.data) = Meaning(p)
      <4>1. Meaning(p) = Cat(HeaderValues(p), <<p.topic, p.data>>)
        BY <2>5 DEF Meaning, HeaderValues, Cat, IdOnlyTypes, EmptyTypes
      <4>2. Append(Append(HeaderValues(p), p.topic), p.data)
              = Cat(HeaderValues(p), <<p.topic, p.data>>)
        BY <1>1, <1>3, GatheredTwo
      <4> QED
        BY <2>1, <4>1, <4>2
    <3>8. ReadPublish(d) = At(rest, Meaning(p), Len(p.topic))
      BY <3>2, <3>4, <3>5, <3>6, <3>7
    <3> QED
      BY <1>5, <1>8, <2>5, <3>8, ReadsAllBack
  <2>6. CASE p.qos > 0
    <3>1. Bit(p.qos > 0) = 1 /\ IdBytes(p) = U16(p.packet_id)
      BY <2>6 DEF Bit, IdBytes
    <3>2. PICK m5 \in Seq(Value) :
             /\ m5 = Append(head_topic, p.packet_id)
             /\ Meaning(p) = Append(m5, p.data)
      <4>1. Meaning(p) = Cat(HeaderValues(p), <<p.topic, p.packet_id, p.data>>)
        BY <2>6 DEF Meaning, HeaderValues, Cat, IdOnlyTypes, EmptyTypes
      <4>2. Append(head_topic, p.packet_id) \in Seq(Value)
        BY <1>1, AppendProperties
      <4>3. Append(Append(Append(HeaderValues(p), p.topic), p.packet_id), p.data)
              = Cat(HeaderValues(p), <<p.topic, p.packet_id, p.data>>)
        BY <1>1, <1>3, GatheredThree
      <4> QED
        BY <2>1, <4>1, <4>2, <4>3
    <3>3. Len(head_topic) = Len(HeaderValues(p)) + 1
      BY <1>1, <1>3, <2>1, ValueAppended
    <3>4. Len(m5) = Len(head_topic) + 1
      BY <1>1, <3>2, ValueAppended
    <3>5. Len(Append(m5, p.data)) = Len(m5) + 1
      BY <1>1, ValueAppended
    <3>6. topic_read.got = head_topic
      BY <2>2 DEF At
    <3>7. PICK n \in Nat : n = Len(p.data) /\ n < 128 /\ after = n + 2
      BY <1>1, <2>4, <3>1
    <3>8. CASE after > IdSize
      <4>1. PICK named : named = ReadU16(topic_read)
        OBVIOUS
      <4>2. named \in ACursor /\ named.got = m5
        <5>1. topic_read = At(Cat(U16(p.packet_id), payload), head_topic, Len(p.topic))
          BY <2>2, <3>1 DEF body
        <5>2. named = At(payload, m5, Len(p.topic))
          BY <1>1, <1>2, <3>2, <4>1, <5>1, ReadU16At
        <5> QED
          BY <1>1, <1>2, <5>2, AtType DEF At
      <4>3. PICK size \in Nat : size = (after - IdSize) % LengthMod /\ Len(p.data) # size
        <5>1. n < 128 /\ after = n + 2 /\ after > IdSize
          BY <3>7, <3>8
        <5>2. PICK size \in Nat : size = (after - IdSize) % LengthMod /\ n # size
          BY <3>7, <5>1, SizeAfterId
        <5>3. Len(p.data) # size
          BY <3>7, <5>2
        <5> QED
          BY <5>2, <5>3
      <4>4. ReadPublish(d) = IF CanRead(named, size)
                             THEN Take(named, size, SubSeq(named.left, 1, size))
                             ELSE Fail(named)
        <5>1. room # 0
          BY <1>8
        <5>2. after = (RemainingLength(p) - (topic_read.room + 2)) % LengthMod
          BY <2>3
        <5>3. topic_read = ReadTopic(d) /\ size = (after - IdSize) % LengthMod
          BY <2>2, <4>3
        <5> QED
          BY <1>1, <2>6, <3>8, <4>1, <5>1, <5>2, <5>3, ReadPublishIs
      <4>5. ~(ReadPublish(d).ok /\ ReadPublish(d).got = Append(m5, p.data))
        BY <1>1, <4>2, <4>3, <4>4, OtherPayload
      <4> QED
        BY <1>5, <2>6, <3>2, <4>5, Refused
    <3>9. CASE ~(after > IdSize)
      <4>1. ReadPublish(d) = IF CanRead(topic_read, after)
                             THEN Take(topic_read, after, SubSeq(topic_read.left, 1, after))
                             ELSE Fail(topic_read)
        <5>1. room # 0 /\ ~(p.qos > 0 /\ after > IdSize)
          BY <1>8, <3>9
        <5>2. topic_read = ReadTopic(d)
          BY <2>2
        <5> QED
          BY <1>1, <2>3, <5>1, <5>2, ReadPublishIs
      <4>2. after \in Nat /\ Len(Append(m5, p.data)) # Len(head_topic) + 1
        <5>1. Len(head_topic) = 4
          BY <1>3, <3>3
        <5>2. Len(m5) = 5
          BY <3>4, <5>1
        <5>3. Len(Append(m5, p.data)) = 6
          BY <3>5, <5>2
        <5>4. after \in Nat
          BY <3>7
        <5> QED
          BY <5>1, <5>3, <5>4
      <4>3. ~(ReadPublish(d).ok /\ ReadPublish(d).got = Append(m5, p.data))
        BY <3>6, <4>1, <4>2, TooFewValues
      <4> QED
        BY <1>5, <2>6, <3>2, <4>3, Refused
    <3> QED
      BY <3>8, <3>9
  <2> QED
    BY <1>4, <2>5, <2>6
<1> QED
  BY <1>1, <1>7, <1>8

-------------------------------------------------------------------------------
(***************************************************************************)
(* The strings of a CONNECT.                                               *)
(***************************************************************************)

TextChunks(ss) == [i \in DOMAIN ss |-> StringChunks(ss[i])]

LEMMA TextChunksType ==
    ASSUME NEW ss \in Seq(Text)
    PROVE  /\ TextChunks(ss) \in Seq(Seq(Seq(Byte)))
           /\ Len(TextChunks(ss)) = Len(ss)
           /\ \A i \in 1..Len(ss) : TextChunks(ss)[i] = StringChunks(ss[i])
<1>1. TextChunks(ss) \in Seq(Seq(Seq(Byte)))
  BY StringsType DEF TextChunks
<1>2. DOMAIN ss = 1..Len(ss) /\ Len(ss) \in Nat
  OBVIOUS
<1>3. DOMAIN TextChunks(ss) = 1..Len(ss)
  BY <1>2 DEF TextChunks
<1>4. Len(TextChunks(ss)) = Len(ss)
  <2>1. DOMAIN TextChunks(ss) = 1..Len(TextChunks(ss)) /\ Len(TextChunks(ss)) \in Nat
    BY <1>1, LenProperties
  <2> QED
    BY <1>2, <1>3, <2>1
<1>5. \A i \in 1..Len(ss) : TextChunks(ss)[i] = StringChunks(ss[i])
  BY <1>2, Zenon DEF TextChunks
<1> QED
  BY <1>1, <1>4, <1>5

LEMMA TextChunksConcat ==
    ASSUME NEW s \in Seq(Text), NEW t \in Seq(Text)
    PROVE  TextChunks(Cat(s, t)) = Cat(TextChunks(s), TextChunks(t))
<1> DEFINE both == Cat(s, t)
           C == Seq(Seq(Byte))
           u == TextChunks(s)
           v == TextChunks(t)
           w == TextChunks(both)
<1>1. /\ both \in Seq(Text) /\ Len(both) = Len(s) + Len(t)
      /\ \A i \in 1..Len(both) : both[i] = IF i <= Len(s) THEN s[i] ELSE t[i - Len(s)]
  BY ConcatProperties DEF Cat
<1>2. /\ u \in Seq(C) /\ Len(u) = Len(s) /\ \A i \in 1..Len(s) : u[i] = StringChunks(s[i])
      /\ v \in Seq(C) /\ Len(v) = Len(t) /\ \A i \in 1..Len(t) : v[i] = StringChunks(t[i])
  BY TextChunksType
<1> HIDE DEF both
<1>3. /\ w \in Seq(C) /\ Len(w) = Len(both)
      /\ \A i \in 1..Len(both) : w[i] = StringChunks(both[i])
  BY <1>1, TextChunksType
<1>4. Len(s) \in Nat /\ Len(t) \in Nat
  OBVIOUS
<1> HIDE DEF C, u, v, w
<1>5. /\ u \o v \in Seq(C) /\ Len(u \o v) = Len(u) + Len(v)
      /\ \A i \in 1..(Len(u) + Len(v)) :
            (u \o v)[i] = IF i <= Len(u) THEN u[i] ELSE v[i - Len(u)]
  <2>1. u \in Seq(C) /\ v \in Seq(C)
    BY <1>2
  <2> QED
    BY <2>1, ConcatProperties
<1>6. ASSUME NEW i \in 1..Len(w) PROVE w[i] = (u \o v)[i]
  <2>1. /\ i \in 1..Len(both) /\ i \in 1..(Len(u) + Len(v))
        /\ w[i] = StringChunks(both[i])
    BY <1>1, <1>2, <1>3
  <2>2. CASE i <= Len(s)
    <3>1. i \in 1..Len(s) /\ both[i] = s[i] /\ (u \o v)[i] = u[i]
      BY <1>1, <1>2, <1>4, <1>5, <2>1, <2>2
    <3> QED
      BY <1>2, <2>1, <3>1
  <2>3. CASE ~(i <= Len(s))
    <3>1. /\ i - Len(s) \in 1..Len(t) /\ both[i] = t[i - Len(s)]
          /\ (u \o v)[i] = v[i - Len(s)]
      BY <1>1, <1>2, <1>4, <1>5, <2>1, <2>3
    <3> QED
      BY <1>2, <2>1, <3>1
  <2> QED
    BY <2>2, <2>3
<1>7. Len(w) = Len(u \o v)
  BY <1>1, <1>2, <1>3, <1>5
<1>8. w = u \o v
  BY <1>3, <1>5, <1>6, <1>7, SeqEqual
<1> QED
  BY <1>8 DEF u, v, w, both, Cat

LEMMA StringsConcat ==
    ASSUME NEW s \in Seq(Text), NEW t \in Seq(Text)
    PROVE  StringsBytes(Cat(s, t)) = Cat(StringsBytes(s), StringsBytes(t))
<1>1. /\ TextChunks(s) \in Seq(Seq(Seq(Byte))) /\ TextChunks(t) \in Seq(Seq(Seq(Byte)))
  BY TextChunksType
<1>2. /\ StringsChunks(s) = FlattenSeq(TextChunks(s))
      /\ StringsChunks(t) = FlattenSeq(TextChunks(t))
      /\ StringsChunks(Cat(s, t)) = FlattenSeq(Cat(TextChunks(s), TextChunks(t)))
  BY TextChunksConcat, Zenon DEF StringsChunks, TextChunks
<1>3. StringsChunks(Cat(s, t)) = Cat(StringsChunks(s), StringsChunks(t))
  <2>1. FlattenSeq(TextChunks(s) \o TextChunks(t))
          = FlattenSeq(TextChunks(s)) \o FlattenSeq(TextChunks(t))
    BY <1>1, FlattenConcat, Zenon
  <2> QED
    BY <1>2, <2>1, Zenon DEF Cat
<1>4. StringsChunks(s) \in Seq(Seq(Byte)) /\ StringsChunks(t) \in Seq(Seq(Byte))
  BY StringsType
<1> QED
  BY <1>3, <1>4, CatChunks DEF StringsBytes

LEMMA StringsShort ==
    ASSUME NEW a \in Text, NEW b \in Text
    PROVE  /\ StringsBytes(<<>>) = <<>>
           /\ StringsBytes(<<a>>) = StringBytes(a)
           /\ StringsBytes(<<a, b>>) = Cat(StringBytes(a), StringBytes(b))
<1>1. StringsBytes(<<>>) = <<>>
  <2>1. StringsChunks(<<>>) = FlattenSeq(<<>>)
    BY DEF StringsChunks
  <2> QED
    BY <2>1, FlattenEmpty DEF StringsBytes
<1>2. ASSUME NEW s \in Text PROVE StringsBytes(<<s>>) = StringBytes(s)
  <2>1. [i \in DOMAIN <<s>> |-> StringChunks(<<s>>[i])] = <<StringChunks(s)>>
    OBVIOUS
  <2>2. StringChunks(s) \in Seq(Seq(Byte)) /\ FlattenSeq(StringChunks(s)) = StringBytes(s)
    BY StringType
  <2>3. FlattenSeq(<<StringChunks(s)>>) = StringChunks(s)
    BY <2>2, FlattenShort
  <2>4. StringsChunks(<<s>>) = StringChunks(s)
    BY <2>1, <2>3 DEF StringsChunks
  <2> QED
    BY <2>2, <2>4 DEF StringsBytes
<1>3. StringsBytes(<<a, b>>) = Cat(StringBytes(a), StringBytes(b))
  <2>1. <<a>> \in Seq(Text) /\ <<b>> \in Seq(Text)
    OBVIOUS
  <2>2. Cat(<<a>>, <<b>>) = <<a, b>>
    <3>1. <<a>> \o <<b>> = Append(<<a>>, b)
      BY <2>1, AppendIsConcat
    <3> QED
      BY <3>1, Appended DEF Cat
  <2>3. StringsBytes(Cat(<<a>>, <<b>>)) = Cat(StringsBytes(<<a>>), StringsBytes(<<b>>))
    BY <2>1, StringsConcat
  <2> QED
    BY <1>2, <2>2, <2>3
<1> QED
  BY <1>1, <1>2, <1>3

LEMMA TextIsValue ==
    /\ Text \subseteq Value
    /\ Seq(Text) \subseteq Seq(Value)
    /\ \A s \in Text : StringBytes(s) \in Seq(Cell) /\ Len(s) \in Nat
<1>1. Text \subseteq Value
  BY BytesAreCells DEF Text, Value
<1>2. Seq(Text) \subseteq Seq(Value)
  BY <1>1, SeqMonotonic
<1>3. \A s \in Text : StringBytes(s) \in Seq(Cell) /\ Len(s) \in Nat
  BY StringType, BytesAreCells DEF Text
<1> QED
  BY <1>1, <1>2, <1>3

LEMMA ReadOneAt ==
    ASSUME NEW s \in Text, NEW rest \in Seq(Cell), NEW values \in Seq(Value),
           NEW room \in Nat, NEW c, c = At(Cat(StringBytes(s), rest), values, room)
    PROVE  /\ c \in ACursor
           /\ Len(s) <= StringCap =>
                ReadString(c, StringCap) = At(rest, Append(values, s), room)
           /\ ~(Len(s) <= StringCap) => ~ReadString(c, StringCap).ok
<1>1. StringCap \in Nat
  BY CodecAssumption
<1>2. StringBytes(s) \in Seq(Cell) /\ s \in Seq(Cell) /\ Len(s) \in Nat
  BY TextIsValue, StringType, BytesAreCells
<1>3. Cat(StringBytes(s), rest) \in Seq(Cell) /\ Cat(s, rest) \in Seq(Cell)
  BY <1>2, CatCells
<1>4. c \in ACursor
  BY <1>3, AtType
<1>5. /\ Len(s) <= StringCap =>
           ReadString(c, StringCap) = At(rest, Append(values, s), room)
      /\ Len(s) > StringCap =>
           ReadString(c, StringCap) = Fail(At(Cat(s, rest), values, room))
  BY <1>1, ReadStringAt
<1>6. ~Fail(At(Cat(s, rest), values, room)).ok
  BY <1>3, AtType, FailType
<1>7. ~(Len(s) <= StringCap) => Len(s) > StringCap
  BY <1>1, <1>2
<1> QED
  BY <1>4, <1>5, <1>6, <1>7

LEMMA ReadTwoAt ==
    ASSUME NEW a \in Text, NEW b \in Text, NEW rest \in Seq(Cell),
           NEW values \in Seq(Value), NEW room \in Nat,
           NEW c, c = At(Cat(Cat(StringBytes(a), StringBytes(b)), rest), values, room)
    PROVE  /\ Len(a) <= StringCap /\ Len(b) <= StringCap =>
                ReadString(ReadString(c, StringCap), StringCap)
                  = At(rest, Append(Append(values, a), b), room)
           /\ ~(Len(a) <= StringCap /\ Len(b) <= StringCap) =>
                ~ReadString(ReadString(c, StringCap), StringCap).ok
<1>1. StringBytes(a) \in Seq(Cell) /\ StringBytes(b) \in Seq(Cell) /\ a \in Value
  BY TextIsValue
<1>2. PICK more \in Seq(Cell) : more = Cat(StringBytes(b), rest)
  BY <1>1, CatCells
<1>3. c = At(Cat(StringBytes(a), more), values, room)
  BY <1>1, <1>2, CatCellGroups
<1>4. PICK e : e = ReadString(c, StringCap)
  OBVIOUS
<1>5. CASE Len(a) <= StringCap
  <2>1. PICK first \in Seq(Value) : first = Append(values, a)
    BY <1>1, ValueAppended
  <2>2. e = At(Cat(StringBytes(b), rest), first, room)
    BY <1>2, <1>3, <1>4, <1>5, <2>1, ReadOneAt
  <2>3. /\ Len(b) <= StringCap =>
             ReadString(e, StringCap) = At(rest, Append(first, b), room)
        /\ ~(Len(b) <= StringCap) => ~ReadString(e, StringCap).ok
    BY <2>2, ReadOneAt
  <2> QED
    BY <1>4, <1>5, <2>1, <2>3
<1>6. CASE ~(Len(a) <= StringCap)
  <2>1. c \in ACursor /\ ~e.ok
    BY <1>3, <1>4, <1>6, ReadOneAt
  <2>2. StringCap \in Nat
    BY CodecAssumption
  <2>3. e \in ACursor
    BY <1>4, <2>1, <2>2, ReadStringType DEF Follows
  <2>4. ~ReadString(e, StringCap).ok
    BY <2>1, <2>2, <2>3, ReadStringType DEF Follows
  <2> QED
    BY <1>4, <1>6, <2>4
<1> QED
  BY <1>5, <1>6

LEMMA TextsAre ==
    ASSUME NEW ss \in Seq(Text)
    PROVE  /\ Len(ss) = 0 => ss = <<>>
           /\ Len(ss) = 1 => \E a \in Text : ss = <<a>>
           /\ Len(ss) = 2 => \E a, b \in Text : ss = <<a, b>>
<1>1. Len(ss) = 0 => ss = <<>>
  BY EmptySeq
<1>2. ASSUME NEW a \in Text, NEW b \in Text
      PROVE  /\ <<a>> \in Seq(Text) /\ Len(<<a>>) = 1 /\ <<a>>[1] = a
             /\ <<a, b>> \in Seq(Text) /\ Len(<<a, b>>) = 2
             /\ <<a, b>>[1] = a /\ <<a, b>>[2] = b
  OBVIOUS
<1>3. ASSUME Len(ss) = 1 PROVE \E a \in Text : ss = <<a>>
  <2>1. PICK a \in Text : a = ss[1]
    BY <1>3
  <2>2. PICK t \in Seq(Text) : t = <<a>> /\ Len(t) = 1 /\ t[1] = a
    BY <1>2
  <2>3. \A i \in 1..Len(ss) : ss[i] = t[i]
    BY <1>3, <2>1, <2>2
  <2>4. ss = t
    BY <1>3, <2>2, <2>3, SeqEqual
  <2> QED
    BY <2>2, <2>4
<1>4. ASSUME Len(ss) = 2 PROVE \E a, b \in Text : ss = <<a, b>>
  <2>1. PICK a \in Text, b \in Text : a = ss[1] /\ b = ss[2]
    BY <1>4
  <2>2. PICK t \in Seq(Text) : t = <<a, b>> /\ Len(t) = 2 /\ t[1] = a /\ t[2] = b
    <3>1. <<a, b>> \in Seq(Text) /\ Len(<<a, b>>) = 2
          /\ <<a, b>>[1] = a /\ <<a, b>>[2] = b
      BY <1>2
    <3> QED
      BY <3>1
  <2>3. \A i \in 1..Len(ss) : ss[i] = t[i]
    <3>1. ss[1] = t[1] /\ ss[2] = t[2]
      BY <2>1, <2>2
    <3>2. \A i \in 1..2 : i = 1 \/ i = 2
      OBVIOUS
    <3>3. 1..Len(ss) = 1..2
      BY <1>4
    <3> QED
      BY <3>1, <3>2, <3>3, Zenon
  <2>4. ss = t
    BY <1>4, <2>2, <2>3, SeqEqual
  <2> QED
    BY <2>2, <2>4
<1> QED
  BY <1>1, <1>3, <1>4

Short(ss) == \A i \in DOMAIN ss : Len(ss[i]) <= StringCap

LEMMA ShortAre ==
    ASSUME NEW a \in Text, NEW b \in Text
    PROVE  /\ Short(<<>>)
           /\ Short(<<a>>) <=> Len(a) <= StringCap
           /\ Short(<<a, b>>) <=> Len(a) <= StringCap /\ Len(b) <= StringCap
<1>1. Short(<<>>)
  BY DEF Short
<1>2. Short(<<a>>) <=> Len(a) <= StringCap
  <2>1. DOMAIN <<a>> = {1} /\ <<a>>[1] = a
    OBVIOUS
  <2> QED
    BY <2>1, Zenon DEF Short
<1>3. Short(<<a, b>>) <=> Len(a) <= StringCap /\ Len(b) <= StringCap
  <2>1. DOMAIN <<a, b>> = {1, 2} /\ <<a, b>>[1] = a /\ <<a, b>>[2] = b
    OBVIOUS
  <2> QED
    BY <2>1, Zenon DEF Short
<1> QED
  BY <1>1, <1>2, <1>3

\* The flags say which of the strings there are.
WillTold(flags, will) == flags.will = (will # <<>>)
CredentialsTold(flags, credentials) ==
    /\ flags.username = (credentials # <<>>)
    /\ flags.password = (Len(credentials) = 2)

\* Strings are read if they are short, and the packet is refused otherwise.
StringsRead(ss, rest, values, room, r) ==
    /\ Short(ss) => r = At(rest, Cat(values, ss), room)
    /\ ~Short(ss) => ~r.ok

LEMMA WillAt ==
    ASSUME NEW will \in Seq(Text), Len(will) \in {0, 2},
           NEW flags, WillTold(flags, will),
           NEW rest \in Seq(Cell), NEW values \in Seq(Value), NEW room \in Nat,
           NEW c, c = At(Cat(StringsBytes(will), rest), values, room)
    PROVE  StringsRead(will, rest, values, room, ReadWill(c, flags))
<1> USE DEF WillTold, StringsRead
<1>1. CASE Len(will) = 0
  <2>1. will = <<>>
    BY <1>1, TextsAre
  <2>2. ReadWill(c, flags) = c
    BY <2>1 DEF ReadWill
  <2>3. PICK a \in Text : TRUE
    <3>1. <<>> \in Text
      BY EmptySeq DEF Text
    <3> QED
      BY <3>1
  <2>4. StringsBytes(will) = <<>> /\ Short(will)
    BY <2>1, <2>3, StringsShort, ShortAre
  <2>5. Cat(<<>>, rest) = rest /\ Cat(values, <<>>) = values
    BY ConcatEmptySeq DEF Cat
  <2> QED
    BY <2>1, <2>2, <2>4, <2>5
<1>2. CASE Len(will) = 2
  <2>1. PICK a, b \in Text : will = <<a, b>>
    BY <1>2, TextsAre
  <2>2. flags.will = TRUE
    <3>1. will # <<>>
      <4>1. Len(will) # 0
        BY <1>2
      <4> QED
        BY <4>1, EmptySeq
    <3> QED
      BY <3>1
  <2>3. ReadWill(c, flags) = ReadString(ReadString(c, StringCap), StringCap)
    BY <2>2 DEF ReadWill
  <2>4. /\ StringsBytes(will) = Cat(StringBytes(a), StringBytes(b))
        /\ Short(will) <=> Len(a) <= StringCap /\ Len(b) <= StringCap
    BY <2>1, StringsShort, ShortAre
  <2>5. c = At(Cat(Cat(StringBytes(a), StringBytes(b)), rest), values, room)
    BY <2>4
  <2>6. Append(Append(values, a), b) = Cat(values, will)
    <3>1. a \in Value /\ b \in Value
      BY TextIsValue
    <3> QED
      BY <2>1, <3>1, Gathered
  <2>7. /\ Len(a) <= StringCap /\ Len(b) <= StringCap =>
             ReadString(ReadString(c, StringCap), StringCap)
               = At(rest, Append(Append(values, a), b), room)
        /\ ~(Len(a) <= StringCap /\ Len(b) <= StringCap) =>
             ~ReadString(ReadString(c, StringCap), StringCap).ok
    BY <2>5, ReadTwoAt
  <2> QED
    BY <2>3, <2>4, <2>6, <2>7
<1> QED
  BY <1>1, <1>2

ReadCredentials(c, flags) == ReadPassword(ReadUser(c, flags), flags)

LEMMA CredentialsAt ==
    ASSUME NEW credentials \in Seq(Text), Len(credentials) <= 2,
           NEW flags, CredentialsTold(flags, credentials),
           NEW rest \in Seq(Cell), NEW values \in Seq(Value), NEW room \in Nat,
           NEW c, c = At(Cat(StringsBytes(credentials), rest), values, room)
    PROVE  StringsRead(credentials, rest, values, room, ReadCredentials(c, flags))
<1> USE DEF CredentialsTold, StringsRead
<1> DEFINE r == ReadCredentials(c, flags)
<1>0. r = ReadPassword(ReadUser(c, flags), flags)
  BY DEF ReadCredentials
<1> HIDE DEF r
<1>1. CASE Len(credentials) = 0
  <2>1. credentials = <<>>
    BY <1>1, TextsAre
  <2>2. r = c
    BY <1>0, <2>1 DEF ReadUser, ReadPassword
  <2>3. PICK a \in Text : TRUE
    <3>1. <<>> \in Text
      BY EmptySeq DEF Text
    <3> QED
      BY <3>1
  <2>4. StringsBytes(credentials) = <<>> /\ Short(credentials)
    BY <2>1, <2>3, StringsShort, ShortAre
  <2>5. Cat(<<>>, rest) = rest /\ Cat(values, <<>>) = values
    BY ConcatEmptySeq DEF Cat
  <2> QED
    BY <2>1, <2>2, <2>4, <2>5 DEF r
<1>2. CASE Len(credentials) = 1
  <2>1. PICK a \in Text : credentials = <<a>>
    BY <1>2, TextsAre
  <2>2. flags.username = TRUE /\ flags.password = FALSE
    <3>1. credentials # <<>>
      <4>1. Len(credentials) # 0
        BY <1>2
      <4> QED
        BY <4>1, EmptySeq
    <3>2. Len(credentials) # 2
      BY <1>2
    <3> QED
      BY <3>1, <3>2
  <2>3. r = ReadString(c, StringCap)
    BY <1>0, <2>2 DEF ReadUser, ReadPassword
  <2>4. /\ StringsBytes(credentials) = StringBytes(a)
        /\ Short(credentials) <=> Len(a) <= StringCap
    BY <2>1, StringsShort, ShortAre
  <2>5. c = At(Cat(StringBytes(a), rest), values, room)
    BY <2>4
  <2>6. Append(values, a) = Cat(values, credentials)
    <3>1. a \in Value
      BY TextIsValue
    <3> QED
      BY <2>1, <3>1, Gathered
  <2> QED
    BY <2>3, <2>4, <2>5, <2>6, ReadOneAt DEF r
<1>3. CASE Len(credentials) = 2
  <2>1. PICK a, b \in Text : credentials = <<a, b>>
    BY <1>3, TextsAre
  <2>2. flags.username = TRUE /\ flags.password = TRUE
    <3>1. credentials # <<>>
      <4>1. Len(credentials) # 0
        BY <1>3
      <4> QED
        BY <4>1, EmptySeq
    <3>2. Len(credentials) = 2
      BY <1>3
    <3> QED
      BY <3>1, <3>2
  <2>3. r = ReadString(ReadString(c, StringCap), StringCap)
    BY <1>0, <2>2 DEF ReadUser, ReadPassword
  <2>4. /\ StringsBytes(credentials) = Cat(StringBytes(a), StringBytes(b))
        /\ Short(credentials) <=> Len(a) <= StringCap /\ Len(b) <= StringCap
    BY <2>1, StringsShort, ShortAre
  <2>5. c = At(Cat(Cat(StringBytes(a), StringBytes(b)), rest), values, room)
    BY <2>4
  <2>6. Append(Append(values, a), b) = Cat(values, credentials)
    <3>1. a \in Value /\ b \in Value
      BY TextIsValue
    <3> QED
      BY <2>1, <3>1, Gathered
  <2>7. /\ Len(a) <= StringCap /\ Len(b) <= StringCap =>
             ReadString(ReadString(c, StringCap), StringCap)
               = At(rest, Append(Append(values, a), b), room)
        /\ ~(Len(a) <= StringCap /\ Len(b) <= StringCap) =>
             ~ReadString(ReadString(c, StringCap), StringCap).ok
    BY <2>5, ReadTwoAt
  <2> QED
    BY <2>3, <2>4, <2>6, <2>7 DEF r
<1>4. PICK n \in Nat : n = Len(credentials) /\ n <= 2
  BY LenProperties
<1>5. n = 0 \/ n = 1 \/ n = 2
  BY <1>4
<1> QED
  BY <1>1, <1>2, <1>3, <1>4, <1>5

FlagsOf(p) ==
    [clean_session |-> p.clean_session, will |-> p.will # <<>>, will_qos |-> p.will_qos,
     will_retain |-> p.will_retain, username |-> p.credentials # <<>>,
     password |-> Len(p.credentials) = 2]

LEMMA BitRead ==
    ASSUME NEW b \in BOOLEAN
    PROVE  Bit(b) \in 0..1 /\ (b <=> Bit(b) = 1)
  BY DEF Bit

\* The byte of the flags and its fields.
LEMMA FlagsWithoutCredentials ==
    ASSUME NEW c \in 0..1, NEW b, b = 2 * c
    PROVE  /\ (b \div 2) % 2 = c /\ (b \div 4) % 4 = 0 /\ (b \div 8) % 4 = 0
           /\ (b \div 32) % 2 = 0 /\ (b \div 64) % 2 = 0 /\ (b \div 128) % 2 = 0
  OBVIOUS

LEMMA FlagsWithCredentials ==
    ASSUME NEW c \in 0..1, NEW w \in 0..1, NEW b, b = 2 * c + 128 + 64 * w
    PROVE  /\ (b \div 2) % 2 = c /\ (b \div 4) % 4 = 0 /\ (b \div 8) % 4 = 0
           /\ (b \div 32) % 2 = 0 /\ (b \div 64) % 2 = w /\ (b \div 128) % 2 = 1
  OBVIOUS

LEMMA FlagsWithWill ==
    ASSUME NEW c \in 0..1, NEW w \in 0..1, NEW h \in 0..1, NEW r \in 0..1,
           NEW b, b = 2 * c + 128 + 64 * w + (12 + 16 * h + 32 * r)
    PROVE  /\ (b \div 2) % 2 = c /\ (b \div 4) % 4 = 3 /\ (b \div 8) % 4 = 1 + 2 * h
           /\ (b \div 32) % 2 = r /\ (b \div 64) % 2 = w /\ (b \div 128) % 2 = 1
  OBVIOUS

LEMMA FlagsRead ==
    ASSUME NEW b, NEW c \in 0..1, NEW v \in 0..3, NEW q \in 0..3, NEW r \in 0..1,
           NEW w \in 0..1, NEW u \in 0..1,
           (b \div 2) % 2 = c, (b \div 4) % 4 = v, (b \div 8) % 4 = q,
           (b \div 32) % 2 = r, (b \div 64) % 2 = w, (b \div 128) % 2 = u
    PROVE  ConnectFlagsRead(b)
             = [clean_session |-> c = 1, will |-> v # 0, will_qos |-> q,
                will_retain |-> r = 1, password |-> w = 1, username |-> u = 1]
  BY DEF ConnectFlagsRead

LEMMA FlagsType ==
    ASSUME NEW clean \in BOOLEAN, NEW willed \in BOOLEAN, NEW qos \in Nat,
           NEW retain \in BOOLEAN, NEW named \in BOOLEAN, NEW both \in BOOLEAN
    PROVE  [clean_session |-> clean, will |-> willed, will_qos |-> qos,
            will_retain |-> retain, username |-> named, password |-> both] \in Flags
  BY DEF Flags

LEMMA FlagsSame ==
    ASSUME NEW c \in 0..1, NEW v \in 0..3, NEW q \in 0..3, NEW r \in 0..1,
           NEW w \in 0..1, NEW u \in 0..1,
           NEW clean \in BOOLEAN, NEW willed \in BOOLEAN, NEW qos \in Nat,
           NEW retain \in BOOLEAN, NEW named \in BOOLEAN, NEW both \in BOOLEAN
    PROVE  [clean_session |-> c = 1, will |-> v # 0, will_qos |-> q,
            will_retain |-> r = 1, password |-> w = 1, username |-> u = 1]
           = [clean_session |-> clean, will |-> willed, will_qos |-> qos,
              will_retain |-> retain, username |-> named, password |-> both]
             <=> /\ (c = 1 <=> clean) /\ (v # 0 <=> willed) /\ q = qos
                 /\ (r = 1 <=> retain) /\ (u = 1 <=> named) /\ (w = 1 <=> both)
  OBVIOUS

\* The flags are read as they were written if a will comes with credentials and
\* has the QoS that the flag of the will overlaps.
LEMMA ConnectFlagsBack ==
    ASSUME NEW p \in Packet, Serializable(p), p.type = "CONNECT"
    PROVE  /\ ConnectFlagsRead(ConnectFlags(p)) \in Flags
           /\ ConnectFlagsRead(ConnectFlags(p)) = FlagsOf(p)
                <=> (p.will # <<>> => p.credentials # <<>> /\ p.will_qos = 1)
<1>1. /\ p.clean_session \in BOOLEAN /\ p.will_retain \in BOOLEAN /\ p.will_qos \in 0..255
      /\ p.will = <<>> => p.will_qos = 0 /\ ~p.will_retain
  BY PacketKinds DEF ConnectPacket, Byte
<1>2. PICK clean \in BOOLEAN, willed \in BOOLEAN, qos \in Nat,
           retain \in BOOLEAN, named \in BOOLEAN, both \in BOOLEAN :
         /\ clean = p.clean_session /\ willed = (p.will # <<>>) /\ qos = p.will_qos
         /\ retain = p.will_retain /\ named = (p.credentials # <<>>)
         /\ both = (Len(p.credentials) = 2)
  <2>1. p.will_qos \in Nat
    <3>1. \A n \in 0..255 : n \in Nat
      OBVIOUS
    <3> QED
      BY <1>1, <3>1
  <2> QED
    BY <1>1, <2>1
<1>3. /\ ~willed => qos = 0 /\ ~retain
      /\ willed => qos \in 0..2
      /\ ~named => ~both
  <2>1. ~willed => qos = 0 /\ ~retain
    BY <1>1, <1>2
  <2>2. willed => qos \in 0..2
    <3>1. willed => p.will_qos <= 2
      BY <1>2 DEF Serializable
    <3>2. willed => qos <= 2
      BY <1>2, <3>1
    <3>3. \A n \in Nat : n <= 2 => n \in 0..2
      OBVIOUS
    <3> QED
      BY <3>2, <3>3
  <2>3. ~named => ~both
    <3>1. p.credentials = <<>> => Len(p.credentials) = 0
      OBVIOUS
    <3>2. Len(p.credentials) = 0 => Len(p.credentials) # 2
      OBVIOUS
    <3> QED
      BY <1>2, <3>1, <3>2
  <2> QED
    BY <2>1, <2>2, <2>3
<1>4. FlagsOf(p) = [clean_session |-> clean, will |-> willed, will_qos |-> qos,
                    will_retain |-> retain, username |-> named, password |-> both]
  BY <1>2 DEF FlagsOf
<1>5. PICK c \in 0..1, w \in 0..1, r \in 0..1 :
         /\ c = Bit(clean) /\ (clean <=> c = 1)
         /\ w = Bit(both) /\ (both <=> w = 1)
         /\ r = Bit(retain) /\ (retain <=> r = 1)
  BY BitRead
<1>6. PICK b : b = ConnectFlags(p)
  OBVIOUS
<1>7. /\ ~named => b = 2 * c
      /\ named /\ ~willed => b = 2 * c + 128 + 64 * w
      /\ named /\ willed => b = 2 * c + 128 + 64 * w + (12 + 16 * (qos \div 2) + 32 * r)
  <2>1. Bit(p.clean_session) = c /\ Bit(Len(p.credentials) = 2) = w /\ Bit(p.will_retain) = r
    BY <1>2, <1>5
  <2>2. WillFlags(p) = 4 + 8 + 16 * (qos \div 2) + 32 * r
    BY <1>2, <2>1 DEF WillFlags
  <2>3. b = 2 * c + IF p.credentials = <<>> THEN 0
                    ELSE 128 + 64 * w + IF p.will = <<>> THEN 0 ELSE WillFlags(p)
    BY <1>6, <2>1 DEF ConnectFlags
  <2>4. PICK h \in Nat : h = qos \div 2
    OBVIOUS
  <2>5. ~named => b = 2 * c
    <3>1. p.credentials = <<>> => b = 2 * c + 0
      BY <2>3
    <3>2. 2 * c + 0 = 2 * c
      OBVIOUS
    <3>3. ~named => p.credentials = <<>>
      BY <1>2
    <3> QED
      BY <3>1, <3>2, <3>3
  <2>6. named /\ ~willed => b = 2 * c + 128 + 64 * w
    BY <1>2, <2>3
  <2>7. named /\ willed => b = 2 * c + (128 + 64 * w + (4 + 8 + 16 * h + 32 * r))
    BY <1>2, <2>2, <2>3, <2>4
  <2>8. 2 * c + (128 + 64 * w + (4 + 8 + 16 * h + 32 * r))
          = 2 * c + 128 + 64 * w + (12 + 16 * h + 32 * r)
    OBVIOUS
  <2> QED
    BY <2>4, <2>5, <2>6, <2>7, <2>8
<1>8. ASSUME NEW v \in 0..3, NEW q \in 0..3, NEW s \in 0..1, NEW o \in 0..1, NEW u \in 0..1,
             (b \div 2) % 2 = c, (b \div 4) % 4 = v, (b \div 8) % 4 = q,
             (b \div 32) % 2 = s, (b \div 64) % 2 = o, (b \div 128) % 2 = u
      PROVE  /\ ConnectFlagsRead(b) \in Flags
             /\ ConnectFlagsRead(b) = FlagsOf(p)
                  <=> /\ (v # 0 <=> willed) /\ q = qos
                      /\ (s = 1 <=> retain) /\ (u = 1 <=> named) /\ (o = 1 <=> both)
  <2>1. ConnectFlagsRead(b)
          = [clean_session |-> c = 1, will |-> v # 0, will_qos |-> q,
             will_retain |-> s = 1, password |-> o = 1, username |-> u = 1]
    BY <1>8, FlagsRead
  <2>2. ConnectFlagsRead(b) = FlagsOf(p)
          <=> /\ (c = 1 <=> clean) /\ (v # 0 <=> willed) /\ q = qos
              /\ (s = 1 <=> retain) /\ (u = 1 <=> named) /\ (o = 1 <=> both)
    <3>1. [clean_session |-> c = 1, will |-> v # 0, will_qos |-> q,
           will_retain |-> s = 1, password |-> o = 1, username |-> u = 1]
          = [clean_session |-> clean, will |-> willed, will_qos |-> qos,
             will_retain |-> retain, username |-> named, password |-> both]
            <=> /\ (c = 1 <=> clean) /\ (v # 0 <=> willed) /\ q = qos
                /\ (s = 1 <=> retain) /\ (u = 1 <=> named) /\ (o = 1 <=> both)
      BY FlagsSame
    <3> QED
      BY <1>4, <2>1, <3>1
  <2>3. ConnectFlagsRead(b) \in Flags
    <3>1. q \in Nat
      OBVIOUS
    <3> QED
      BY <2>1, <3>1 DEF Flags
  <2> QED
    BY <1>5, <2>2, <2>3
<1>9. CASE ~named
  <2>1. /\ (b \div 2) % 2 = c /\ (b \div 4) % 4 = 0 /\ (b \div 8) % 4 = 0
        /\ (b \div 32) % 2 = 0 /\ (b \div 64) % 2 = 0 /\ (b \div 128) % 2 = 0
    BY <1>7, <1>9, FlagsWithoutCredentials
  <2>2. /\ ConnectFlagsRead(b) \in Flags
        /\ ConnectFlagsRead(b) = FlagsOf(p)
             <=> /\ (0 # 0 <=> willed) /\ 0 = qos
                 /\ (0 = 1 <=> retain) /\ (0 = 1 <=> named) /\ (0 = 1 <=> both)
    <3>1. 0 \in 0..3 /\ 0 \in 0..1
      OBVIOUS
    <3> QED
      BY <1>8, <2>1, <3>1
  <2>3. ConnectFlagsRead(b) = FlagsOf(p) <=> ~willed
    BY <1>3, <1>9, <2>2
  <2> QED
    BY <1>2, <1>6, <1>9, <2>2, <2>3
<1>10. CASE named /\ ~willed
  <2>1. /\ (b \div 2) % 2 = c /\ (b \div 4) % 4 = 0 /\ (b \div 8) % 4 = 0
        /\ (b \div 32) % 2 = 0 /\ (b \div 64) % 2 = w /\ (b \div 128) % 2 = 1
    BY <1>7, <1>10, FlagsWithCredentials
  <2>2. /\ ConnectFlagsRead(b) \in Flags
        /\ ConnectFlagsRead(b) = FlagsOf(p)
             <=> /\ (0 # 0 <=> willed) /\ 0 = qos
                 /\ (0 = 1 <=> retain) /\ (1 = 1 <=> named) /\ (w = 1 <=> both)
    <3>1. 0 \in 0..3 /\ 0 \in 0..1 /\ 1 \in 0..1
      OBVIOUS
    <3> QED
      BY <1>8, <2>1, <3>1
  <2>3. ConnectFlagsRead(b) = FlagsOf(p)
    BY <1>3, <1>5, <1>10, <2>2
  <2> QED
    BY <1>2, <1>6, <1>10, <2>2, <2>3
<1>11. CASE named /\ willed
  <2>1. PICK h \in 0..1 :
           h = qos \div 2 /\ 1 + 2 * h \in 0..3 /\ (1 + 2 * h = qos <=> qos = 1)
    <3>1. \A n \in 0..2 : /\ n \div 2 \in 0..1 /\ 1 + 2 * (n \div 2) \in 0..3
                          /\ (1 + 2 * (n \div 2) = n <=> n = 1)
      OBVIOUS
    <3> QED
      BY <1>3, <1>11, <3>1
  <2>2. b = 2 * c + 128 + 64 * w + (12 + 16 * h + 32 * r)
    BY <1>7, <1>11, <2>1
  <2>3. /\ (b \div 2) % 2 = c /\ (b \div 4) % 4 = 3 /\ (b \div 8) % 4 = 1 + 2 * h
        /\ (b \div 32) % 2 = r /\ (b \div 64) % 2 = w /\ (b \div 128) % 2 = 1
    BY <2>2, FlagsWithWill
  <2>4. PICK q \in 0..3 : q = 1 + 2 * h
    BY <2>1
  <2>5. /\ ConnectFlagsRead(b) \in Flags
        /\ ConnectFlagsRead(b) = FlagsOf(p)
             <=> /\ (3 # 0 <=> willed) /\ q = qos
                 /\ (r = 1 <=> retain) /\ (1 = 1 <=> named) /\ (w = 1 <=> both)
    <3>1. 3 \in 0..3 /\ 1 \in 0..1
      OBVIOUS
    <3> QED
      BY <1>8, <2>3, <2>4, <3>1
  <2>6. ConnectFlagsRead(b) = FlagsOf(p) <=> qos = 1
    BY <1>5, <1>11, <2>1, <2>4, <2>5
  <2> QED
    BY <1>2, <1>6, <1>11, <2>5, <2>6
<1> QED
  BY <1>9, <1>10, <1>11

LEMMA CatValues ==
    ASSUME NEW s \in Seq(Value), NEW t \in Seq(Value)
    PROVE  /\ Cat(s, t) \in Seq(Value)
           /\ \A i \in 1..Len(s) : Cat(s, t)[i] = s[i]
BY DEF Cat

LEMMA CatValueGroups ==
    ASSUME NEW s \in Seq(Value), NEW t \in Seq(Value), NEW u \in Seq(Value)
    PROVE  Cat(Cat(s, t), u) = Cat(s, Cat(t, u))
BY Associative DEF Cat

\* The values before the strings.
FourMore(s, a, b, c, d) == Append(Append(Append(Append(s, a), b), c), d)

FixedValues(p, flags) ==
    FourMore(HeaderValues(p), ProtocolName, ProtocolLevel, flags, p.keepalive)

LEMMA FourGathered ==
    ASSUME NEW h \in Seq(Value), NEW a \in Value, NEW b \in Value, NEW c \in Value,
           NEW d \in Value
    PROVE  FourMore(h, a, b, c, d) = Cat(h, <<a, b, c, d>>)
<1>1. Append(Append(Append(h, a), b), c) = Cat(h, <<a, b, c>>)
  BY GatheredThree
<1>2. PICK three \in Seq(Value) : three = <<a, b, c>>
  <2>1. <<a, b, c>> \in Seq(Value)
    OBVIOUS
  <2> QED
    BY <2>1
<1>3. h \o Append(three, d) = Append(h \o three, d)
  BY AppendLast
<1>4. PICK four \in Seq(Value) :
         /\ four = <<a, b, c, d>> /\ Len(four) = 4
         /\ four[1] = a /\ four[2] = b /\ four[3] = c /\ four[4] = d
  <2>1. <<a, b, c, d>> \in Seq(Value)
    OBVIOUS
  <2> QED
    BY <2>1
<1>5. Len(three) = 3 /\ three[1] = a /\ three[2] = b /\ three[3] = c
  BY <1>2
<1>6. PICK more \in Seq(Value) :
         /\ more = Append(three, d) /\ Len(more) = Len(three) + 1
         /\ more[Len(three) + 1] = d
         /\ \A i \in 1..Len(three) : more[i] = three[i]
  BY ValueAppended, ValuesKept
<1>7. Len(more) = 4 /\ more[1] = a /\ more[2] = b /\ more[3] = c /\ more[4] = d
  BY <1>5, <1>6
<1>8. more = four
  BY <1>4, <1>7, SeqEqual
<1>9. h \o four = Append(h \o three, d)
  BY <1>3, <1>6, <1>8
<1>10. Append(Append(Append(h, a), b), c) = h \o three
  BY <1>1, <1>2 DEF Cat
<1> QED
  BY <1>4, <1>9, <1>10 DEF FourMore, Cat

LEMMA FourMoreIs ==
    ASSUME NEW h \in Seq(Value), Len(h) = 3, NEW a \in Value, NEW b \in Value,
           NEW c \in Value, NEW d \in Value
    PROVE  /\ FourMore(h, a, b, c, d) \in Seq(Value)
           /\ Len(FourMore(h, a, b, c, d)) = 7
           /\ FourMore(h, a, b, c, d)[6] = c
<1>1. PICK h1 \in Seq(Value) : h1 = Append(h, a) /\ Len(h1) = Len(h) + 1
  BY ValueAppended
<1>2. PICK h2 \in Seq(Value) : h2 = Append(h1, b) /\ Len(h2) = Len(h1) + 1
  BY ValueAppended
<1>3. PICK h3 \in Seq(Value) :
         h3 = Append(h2, c) /\ Len(h3) = Len(h2) + 1 /\ h3[Len(h2) + 1] = c
  BY ValueAppended
<1>4. PICK h4 \in Seq(Value) :
         /\ h4 = Append(h3, d) /\ Len(h4) = Len(h3) + 1
         /\ \A i \in 1..Len(h3) : h4[i] = h3[i]
  BY ValueAppended, ValuesKept
<1>5. Len(h1) = 4
  BY <1>1
<1>6. Len(h2) = 5
  BY <1>2, <1>5
<1>7. Len(h3) = 6
  BY <1>3, <1>6
<1>8. Len(h4) = 7
  BY <1>4, <1>7
<1>9. h4[6] = c
  <2>1. Len(h2) + 1 = 6 /\ 6 \in 1..Len(h3)
    BY <1>6, <1>7
  <2>2. h3[6] = c
    BY <1>3, <2>1
  <2> QED
    BY <1>4, <2>1, <2>2
<1>10. h4 = FourMore(h, a, b, c, d)
  BY <1>1, <1>2, <1>3, <1>4 DEF FourMore
<1> QED
  BY <1>8, <1>9, <1>10

LEMMA FixedType ==
    ASSUME NEW p \in Packet, Serializable(p), p.type = "CONNECT", NEW flags \in Flags
    PROVE  /\ p.keepalive \in Word /\ p.keepalive \in Value
           /\ ProtocolName \in Text /\ ProtocolName \in Value
           /\ ProtocolLevel \in Byte /\ ProtocolLevel \in Value
           /\ FixedValues(p, flags) \in Seq(Value)
           /\ Len(FixedValues(p, flags)) = 7
           /\ FixedValues(p, flags)[6] = flags
           /\ FixedValues(p, flags)
                = Cat(HeaderValues(p), <<ProtocolName, ProtocolLevel, flags, p.keepalive>>)
<1>1. p.keepalive \in Word /\ p.keepalive \in Value
  BY PacketKinds DEF ConnectPacket, Word, Value
<1>2. ProtocolName \in Text
  BY DEF ProtocolName, Text, Byte
<1>3. ProtocolName \in Value
  BY <1>2, TextIsValue
<1>4. ProtocolLevel \in Byte /\ ProtocolLevel \in Value
  BY DEF ProtocolLevel, Byte, Value
<1>5. flags \in Value
  BY DEF Value
<1>6. HeaderValues(p) \in Seq(Value) /\ Len(HeaderValues(p)) = 3
  BY HeaderValuesType
<1>7. /\ FixedValues(p, flags) \in Seq(Value) /\ Len(FixedValues(p, flags)) = 7
      /\ FixedValues(p, flags)[6] = flags
  <2>1. PICK h \in Seq(Value) : h = HeaderValues(p) /\ Len(h) = 3
    BY <1>6
  <2>2. PICK a \in Value, b \in Value, c \in Value, d \in Value :
           a = ProtocolName /\ b = ProtocolLevel /\ c = flags /\ d = p.keepalive
    BY <1>1, <1>3, <1>4, <1>5
  <2>3. PICK all : all = FourMore(h, a, b, c, d)
    OBVIOUS
  <2>4. all \in Seq(Value) /\ Len(all) = 7 /\ all[6] = c
    <3>1. /\ FourMore(h, a, b, c, d) \in Seq(Value)
          /\ Len(FourMore(h, a, b, c, d)) = 7
          /\ FourMore(h, a, b, c, d)[6] = c
      <4>1. Len(h) = 3
        BY <2>1
      <4> QED
        BY <4>1, FourMoreIs
    <3> QED
      BY <2>3, <3>1
  <2>5. FixedValues(p, flags) = all
    BY <2>1, <2>2, <2>3 DEF FixedValues
  <2> QED
    BY <2>2, <2>4, <2>5
<1>8. FixedValues(p, flags)
        = Cat(HeaderValues(p), <<ProtocolName, ProtocolLevel, flags, p.keepalive>>)
  BY <1>1, <1>3, <1>4, <1>5, <1>6, FourGathered DEF FixedValues
<1> QED
  BY <1>1, <1>2, <1>3, <1>4, <1>7, <1>8

LEMMA ConnectMeaning ==
    ASSUME NEW p \in Packet, Serializable(p), p.type = "CONNECT"
    PROVE  /\ ConnectStrings(p) \in Seq(Value)
           /\ FlagsOf(p) \in Flags
           /\ Meaning(p) = Cat(FixedValues(p, FlagsOf(p)), ConnectStrings(p))
<1>1. ConnectStrings(p) \in Seq(Value)
  BY PacketKinds, ConnectStringsType, TextIsValue
<1>2. FlagsOf(p) \in Flags
  <2>1. /\ p.clean_session \in BOOLEAN /\ p.will_retain \in BOOLEAN /\ p.will_qos \in Byte
    BY PacketKinds DEF ConnectPacket
  <2>2. p.will_qos \in Nat
    <3>1. \A n \in 0..255 : n \in Nat
      OBVIOUS
    <3> QED
      BY <2>1, <3>1 DEF Byte
  <2>3. PICK willed \in BOOLEAN, named \in BOOLEAN, both \in BOOLEAN :
           /\ willed = (p.will # <<>>) /\ named = (p.credentials # <<>>)
           /\ both = (Len(p.credentials) = 2)
    OBVIOUS
  <2>4. [clean_session |-> p.clean_session, will |-> willed, will_qos |-> p.will_qos,
         will_retain |-> p.will_retain, username |-> named, password |-> both] \in Flags
    BY <2>1, <2>2, FlagsType
  <2> QED
    BY <2>3, <2>4 DEF FlagsOf
<1> DEFINE four == <<ProtocolName, ProtocolLevel, FlagsOf(p), p.keepalive>>
<1>3. Meaning(p) = Cat(HeaderValues(p), Cat(four, ConnectStrings(p)))
  BY DEF Meaning, HeaderValues, FlagsOf, Cat, IdOnlyTypes, EmptyTypes
<1>4. four \in Seq(Value)
  <2>1. /\ ProtocolName \in Value /\ ProtocolLevel \in Value /\ p.keepalive \in Value
    BY <1>2, FixedType
  <2>2. FlagsOf(p) \in Value
    BY <1>2 DEF Value
  <2> QED
    BY <2>1, <2>2
<1>5. FixedValues(p, FlagsOf(p)) = Cat(HeaderValues(p), four)
  BY <1>2, FixedType
<1> HIDE DEF four
<1>6. Cat(Cat(HeaderValues(p), four), ConnectStrings(p))
        = Cat(HeaderValues(p), Cat(four, ConnectStrings(p)))
  BY <1>1, <1>4, HeaderValuesType, CatValueGroups
<1> QED
  BY <1>1, <1>2, <1>3, <1>5, <1>6

-------------------------------------------------------------------------------
(***************************************************************************)
(* The whole of a CONNECT.                                                 *)
(***************************************************************************)

LEMMA ReadFlagsAt ==
    ASSUME NEW b \in Cell, ConnectFlagsRead(b) \in Flags, NEW rest \in Seq(Cell),
           NEW values \in Seq(Value), NEW room \in Nat,
           NEW c, c = At(Cat(One(b), rest), values, room)
    PROVE  ReadConnectFlags(c) = At(rest, Append(values, ConnectFlagsRead(b)), room)
<1>1. PICK f \in Value : f = ConnectFlagsRead(b)
  BY DEF Value
<1>2. /\ CanRead(c, 1) /\ c.left[1] = b
      /\ \A v \in Value : Take(c, 1, v) = At(rest, Append(values, v), room)
  BY ReadByteAt
<1>3. Take(c, 1, f) = At(rest, Append(values, f), room)
  BY <1>2
<1> QED
  BY <1>1, <1>2, <1>3 DEF ReadConnectFlags

\* The bytes of a CONNECT, one field after the other.
LEMMA ConnectParts ==
    ASSUME NEW p \in Packet, Serializable(p), p.type = "CONNECT",
           NEW rest \in Seq(Cell), NEW tail,
           tail = Cat(StringsBytes(ConnectStrings(p)), rest)
    PROVE  /\ ConnectStrings(p) \in Seq(Text)
           /\ tail \in Seq(Cell)
           /\ Cat(Body(p), rest)
                = Cat(StringBytes(ProtocolName),
                      Cat(One(ProtocolLevel),
                          Cat(One(ConnectFlags(p)), Cat(U16(p.keepalive), tail))))
<1>1. ConnectStrings(p) \in Seq(Text)
  BY PacketKinds, ConnectStringsType
<1>2. PICK strings \in Seq(Cell) : strings = StringsBytes(ConnectStrings(p))
  BY <1>1, StringsType, BytesAreCells
<1>3. PICK name \in Seq(Cell) : name = StringBytes(ProtocolName)
  <2>1. ProtocolName \in Text
    BY DEF ProtocolName, Text, Byte
  <2> QED
    BY <2>1, TextIsValue
<1>4. PICK level \in Seq(Cell) : level = One(ProtocolLevel)
  <2>1. ProtocolLevel \in Byte
    BY DEF ProtocolLevel, Byte
  <2> QED
    BY <2>1, ByteIsValue, OneType
<1>5. PICK flags \in Seq(Cell) : flags = One(ConnectFlags(p))
  BY ConnectFlagsType, ByteIsValue, OneType
<1>6. PICK keepalive \in Seq(Cell) : keepalive = U16(p.keepalive)
  <2>1. p.keepalive \in Word
    BY PacketKinds DEF ConnectPacket
  <2> QED
    BY <2>1, U16Type, BytesAreCells
<1>7. Body(p) = Cat(name, Cat(level, Cat(flags, Cat(keepalive, strings))))
  BY <1>2, <1>3, <1>4, <1>5, <1>6 DEF Body, One, IdOnlyTypes, EmptyTypes
<1>8. PICK part1 \in Seq(Cell) : part1 = Cat(keepalive, strings)
  BY CatCells
<1>9. PICK part2 \in Seq(Cell) : part2 = Cat(flags, part1)
  BY CatCells
<1>10. PICK part3 \in Seq(Cell) : part3 = Cat(level, part2)
  BY CatCells
<1>11. Cat(part1, rest) = Cat(keepalive, Cat(strings, rest))
  BY <1>8, CatCellGroups
<1>12. Cat(part2, rest) = Cat(flags, Cat(part1, rest))
  BY <1>9, CatCellGroups
<1>13. Cat(part3, rest) = Cat(level, Cat(part2, rest))
  BY <1>10, CatCellGroups
<1>14. Cat(Cat(name, part3), rest) = Cat(name, Cat(part3, rest))
  BY CatCellGroups
<1>15. tail \in Seq(Cell) /\ tail = Cat(strings, rest)
  BY <1>2, CatCells
<1>16. Body(p) = Cat(name, part3)
  BY <1>7, <1>8, <1>9, <1>10
<1>17. Cat(Body(p), rest) = Cat(name, Cat(level, Cat(flags, Cat(keepalive, tail))))
  BY <1>11, <1>12, <1>13, <1>14, <1>15, <1>16
<1> QED
  BY <1>1, <1>3, <1>4, <1>5, <1>6, <1>15, <1>17

LEMMA FixedAt ==
    ASSUME NEW p \in Packet, Serializable(p), p.type = "CONNECT",
           NEW rest \in Seq(Cell), NEW room \in Nat,
           NEW d, d = At(Cat(Body(p), rest), HeaderValues(p), room),
           NEW tail, tail = Cat(StringsBytes(ConnectStrings(p)), rest),
           NEW flags, flags = ConnectFlagsRead(ConnectFlags(p))
    PROVE  /\ d \in ACursor
           /\ Len(ProtocolName) <= StringCap =>
                ReadFixed(d) = At(tail, FixedValues(p, flags), room)
           /\ ~(Len(ProtocolName) <= StringCap) => ~ReadFixed(d).ok
<1>1. PICK h \in Seq(Value) : h = HeaderValues(p)
  BY HeaderValuesType
<1>2. flags \in Flags
  BY ConnectFlagsBack
<1>3. /\ p.keepalive \in Word /\ p.keepalive \in Value
      /\ ProtocolName \in Text /\ ProtocolName \in Value
      /\ ProtocolLevel \in Byte /\ ProtocolLevel \in Value
      /\ flags \in Value
  BY <1>2, FixedType DEF Value
<1>4. ConnectFlags(p) \in Cell /\ ProtocolLevel \in Cell
  BY <1>3, ConnectFlagsType, ByteIsValue
<1>5. tail \in Seq(Cell)
  BY ConnectParts
<1>6. PICK x3 \in Seq(Cell) : x3 = Cat(U16(p.keepalive), tail)
  BY <1>3, <1>5, U16Type, BytesAreCells, CatCells
<1>7. PICK x2 \in Seq(Cell) : x2 = Cat(One(ConnectFlags(p)), x3)
  BY <1>4, OneType, CatCells
<1>8. PICK x1 \in Seq(Cell) : x1 = Cat(One(ProtocolLevel), x2)
  BY <1>4, OneType, CatCells
<1>9. d = At(Cat(StringBytes(ProtocolName), x1), h, room)
  BY <1>1, <1>6, <1>7, <1>8, ConnectParts
<1>10. PICK e : e = ReadString(d, StringCap)
  OBVIOUS
<1>11. /\ d \in ACursor
       /\ Len(ProtocolName) <= StringCap => e = At(x1, Append(h, ProtocolName), room)
       /\ ~(Len(ProtocolName) <= StringCap) => ~e.ok
  BY <1>3, <1>9, <1>10, ReadOneAt
<1>12. ReadFixed(d) = ReadU16(ReadConnectFlags(ReadByte(e)))
  BY <1>10 DEF ReadFixed
<1>13. ASSUME ~(Len(ProtocolName) <= StringCap) PROVE ~ReadFixed(d).ok
  <2>1. StringCap \in Nat
    BY CodecAssumption
  <2>2. e \in ACursor /\ ~e.ok
    BY <1>10, <1>11, <1>13, <2>1, ReadStringType DEF Follows
  <2>3. ReadByte(e) \in ACursor /\ ~ReadByte(e).ok
    BY <2>2, ReadByteType DEF Follows
  <2>4. ReadConnectFlags(ReadByte(e)) \in ACursor /\ ~ReadConnectFlags(ReadByte(e)).ok
    BY <2>3, ReadConnectFlagsType DEF Follows
  <2> QED
    BY <1>12, <2>4, ReadU16Type DEF Follows
<1>14. ASSUME Len(ProtocolName) <= StringCap
       PROVE  ReadFixed(d) = At(tail, FixedValues(p, flags), room)
  <2>1. PICK v1 \in Seq(Value) : v1 = Append(h, ProtocolName)
    BY <1>3, ValueAppended
  <2>2. e = At(Cat(One(ProtocolLevel), x2), v1, room)
    BY <1>8, <1>11, <1>14, <2>1
  <2>3. PICK v2 \in Seq(Value) : v2 = Append(v1, ProtocolLevel)
    BY <1>3, ValueAppended
  <2>4. ReadByte(e) = At(x2, v2, room)
    BY <1>4, <2>2, <2>3, ReadByteAt
  <2>5. PICK f : f = ReadByte(e)
    OBVIOUS
  <2>6. PICK v3 \in Seq(Value) : v3 = Append(v2, flags)
    BY <1>3, ValueAppended
  <2>7. ReadConnectFlags(f) = At(x3, v3, room)
    <3>1. f = At(Cat(One(ConnectFlags(p)), x3), v2, room)
      BY <1>7, <2>4, <2>5
    <3> QED
      BY <1>2, <1>4, <2>6, <3>1, ReadFlagsAt
  <2>8. PICK g : g = ReadConnectFlags(f)
    OBVIOUS
  <2>9. ReadU16(g) = At(tail, Append(v3, p.keepalive), room)
    <3>1. g = At(Cat(U16(p.keepalive), tail), v3, room)
      BY <1>6, <2>7, <2>8
    <3> QED
      BY <1>3, <1>5, <3>1, ReadU16At
  <2>10. Append(v3, p.keepalive) = FixedValues(p, flags)
    BY <1>1, <2>1, <2>3, <2>6 DEF FixedValues, FourMore
  <2> QED
    BY <1>12, <2>5, <2>8, <2>9, <2>10
<1> QED
  BY <1>11, <1>13, <1>14

\* What is read after the fields of every CONNECT.
ReadStrings(c, flags) ==
    ReadPassword(ReadUser(ReadWill(ReadString(c, StringCap), flags), flags), flags)

LEMMA ReadStringsType ==
    ASSUME NEW c \in ACursor, NEW flags
    PROVE  /\ Follows(c, ReadStrings(c, flags))
           /\ \A d \in ACursor : ~d.ok => /\ ~ReadPassword(ReadUser(d, flags), flags).ok
                                          /\ ~ReadWill(d, flags).ok
<1>1. StringCap \in Nat
  BY CodecAssumption
<1>2. \A d \in ACursor : Follows(d, ReadString(d, StringCap))
  BY <1>1, ReadStringType
<1>3. ASSUME NEW d \in ACursor
      PROVE  /\ Follows(d, ReadWill(d, flags))
             /\ Follows(d, ReadUser(d, flags))
             /\ Follows(d, ReadPassword(d, flags))
  <2>1. PICK e : e = ReadString(d, StringCap)
    OBVIOUS
  <2>2. Follows(d, e) /\ e \in ACursor
    BY <1>2, <2>1 DEF Follows
  <2>3. Follows(d, ReadString(e, StringCap))
    BY <1>2, <2>2, FollowsAgain
  <2>4. Follows(d, d)
    BY FollowsItself
  <2> QED
    BY <2>1, <2>2, <2>3, <2>4 DEF ReadWill, ReadUser, ReadPassword
<1>4. ASSUME NEW d \in ACursor
      PROVE  Follows(d, ReadPassword(ReadUser(d, flags), flags))
  <2>1. Follows(d, ReadUser(d, flags)) /\ ReadUser(d, flags) \in ACursor
    BY <1>3 DEF Follows
  <2> QED
    BY <1>3, <2>1, FollowsAgain
<1>5. Follows(c, ReadStrings(c, flags))
  <2>1. PICK d : d = ReadString(c, StringCap)
    OBVIOUS
  <2>2. Follows(c, d) /\ d \in ACursor
    BY <1>2, <2>1 DEF Follows
  <2>3. PICK e : e = ReadWill(d, flags)
    OBVIOUS
  <2>4. Follows(c, e) /\ e \in ACursor
    BY <1>3, <2>2, <2>3, FollowsAgain DEF Follows
  <2>5. Follows(c, ReadPassword(ReadUser(e, flags), flags))
    BY <1>4, <2>4, FollowsAgain
  <2> QED
    BY <2>1, <2>3, <2>5 DEF ReadStrings
<1>6. ASSUME NEW d \in ACursor, ~d.ok
      PROVE  ~ReadPassword(ReadUser(d, flags), flags).ok /\ ~ReadWill(d, flags).ok
  BY <1>3, <1>4, <1>6 DEF Follows
<1> QED
  BY <1>5, <1>6

\* A text is short, or all of several are.
LEMMA ShortConcat ==
    ASSUME NEW s \in Seq(Text), NEW t \in Seq(Text)
    PROVE  Short(Cat(s, t)) <=> Short(s) /\ Short(t)
<1>1. PICK both : both = Cat(s, t)
  OBVIOUS
<1>2. /\ both \in Seq(Text) /\ Len(both) = Len(s) + Len(t)
      /\ \A i \in 1..Len(s) : both[i] = s[i]
      /\ \A i \in 1..Len(t) : both[Len(s) + i] = t[i]
  BY <1>1 DEF Cat
<1>3. /\ Len(s) \in Nat /\ Len(t) \in Nat
      /\ DOMAIN s = 1..Len(s) /\ DOMAIN t = 1..Len(t)
      /\ DOMAIN both = 1..(Len(s) + Len(t))
  BY <1>2
<1>4. ASSUME Short(both) PROVE Short(s) /\ Short(t)
  <2>1. \A i \in 1..Len(s) : i \in DOMAIN both
    BY <1>3
  <2>2. \A i \in 1..Len(t) : Len(s) + i \in DOMAIN both
    BY <1>3
  <2> QED
    BY <1>2, <1>3, <1>4, <2>1, <2>2 DEF Short
<1>5. ASSUME Short(s), Short(t) PROVE Short(both)
  <2> SUFFICES ASSUME NEW i \in DOMAIN both PROVE Len(both[i]) <= StringCap
    BY DEF Short
  <2>1. CASE i \in 1..Len(s)
    BY <1>2, <1>3, <1>5, <2>1 DEF Short
  <2>2. CASE i \notin 1..Len(s)
    <3>1. PICK j \in 1..Len(t) : i = Len(s) + j
      <4>1. i - Len(s) \in 1..Len(t) /\ i = Len(s) + (i - Len(s))
        BY <1>3, <2>2
      <4> QED
        BY <4>1
    <3>2. both[i] = t[j]
      BY <1>2, <3>1
    <3> QED
      BY <1>3, <1>5, <3>2 DEF Short
  <2> QED
    BY <2>1, <2>2
<1> QED
  BY <1>1, <1>4, <1>5

LEMMA ReadStringsAt ==
    ASSUME NEW p \in Packet, Serializable(p), p.type = "CONNECT",
           NEW flags, flags = FlagsOf(p),
           NEW rest \in Seq(Cell), NEW values \in Seq(Value), NEW room \in Nat,
           NEW c, c = At(Cat(StringsBytes(ConnectStrings(p)), rest), values, room)
    PROVE  /\ Short(ConnectStrings(p)) =>
                ReadStrings(c, flags) = At(rest, Cat(values, ConnectStrings(p)), room)
           /\ ~Short(ConnectStrings(p)) => ~ReadStrings(c, flags).ok
<1>1. PICK id \in Text, will \in Seq(Text), credentials \in Seq(Text) :
         /\ id = p.client_id /\ will = p.will /\ credentials = p.credentials
         /\ Len(will) \in {0, 2} /\ Len(credentials) <= 2
  BY PacketKinds DEF ConnectPacket
<1>2. WillTold(flags, will) /\ CredentialsTold(flags, credentials)
  BY <1>1 DEF FlagsOf, WillTold, CredentialsTold
<1>3. PICK ids \in Seq(Text) : ids = <<id>>
  <2>1. <<id>> \in Seq(Text)
    OBVIOUS
  <2> QED
    BY <2>1
<1>4. PICK named \in Seq(Text) : named = Cat(ids, will)
  <2>1. Cat(ids, will) \in Seq(Text)
    BY DEF Cat
  <2> QED
    BY <2>1
<1>5. ConnectStrings(p) = Cat(named, credentials)
  BY <1>1, <1>3, <1>4 DEF ConnectStrings, Cat
<1>6. /\ Short(ConnectStrings(p))
           <=> Len(id) <= StringCap /\ Short(will) /\ Short(credentials)
  <2>1. Short(ids) <=> Len(id) <= StringCap
    BY <1>3, ShortAre
  <2>2. Short(named) <=> Short(ids) /\ Short(will)
    BY <1>4, ShortConcat
  <2>3. Short(Cat(named, credentials)) <=> Short(named) /\ Short(credentials)
    BY ShortConcat
  <2> QED
    BY <1>5, <2>1, <2>2, <2>3
<1>7. PICK x3 \in Seq(Cell) : x3 = StringsBytes(credentials)
  BY StringsType, BytesAreCells
<1>8. PICK x2 \in Seq(Cell) : x2 = StringsBytes(will)
  BY StringsType, BytesAreCells
<1>9. PICK x1 \in Seq(Cell) : x1 = StringBytes(id)
  BY TextIsValue
<1>10. PICK y3 \in Seq(Cell) : y3 = Cat(x3, rest)
  BY CatCells
<1>11. PICK y2 \in Seq(Cell) : y2 = Cat(x2, y3)
  BY CatCells
<1>12. Cat(StringsBytes(ConnectStrings(p)), rest) = Cat(x1, y2)
  <2>1. StringsBytes(ConnectStrings(p)) = Cat(StringsBytes(named), x3)
    BY <1>5, <1>7, StringsConcat
  <2>2. StringsBytes(named) = Cat(StringsBytes(ids), x2)
    BY <1>4, <1>8, StringsConcat
  <2>3. StringsBytes(ids) = x1
    BY <1>3, <1>9, StringsShort
  <2>4. PICK z \in Seq(Cell) : z = Cat(x1, x2)
    BY CatCells
  <2>5. Cat(Cat(z, x3), rest) = Cat(z, y3)
    BY <1>10, CatCellGroups
  <2>6. Cat(z, y3) = Cat(x1, y2)
    BY <1>11, <2>4, CatCellGroups
  <2> QED
    BY <2>1, <2>2, <2>3, <2>4, <2>5, <2>6
<1>13. c = At(Cat(StringBytes(id), y2), values, room)
  BY <1>9, <1>12
<1>14. PICK v1 \in Seq(Value) : v1 = Append(values, id) /\ v1 = Cat(values, ids)
  <2>1. id \in Value
    BY TextIsValue
  <2> QED
    BY <1>3, <2>1, ValueAppended, Gathered
<1>15. PICK c1 : c1 = ReadString(c, StringCap)
  OBVIOUS
<1>16. /\ c \in ACursor
       /\ Len(id) <= StringCap => c1 = At(y2, v1, room)
       /\ ~(Len(id) <= StringCap) => ~c1.ok
  <2>1. /\ c \in ACursor
        /\ Len(id) <= StringCap =>
             ReadString(c, StringCap) = At(y2, Append(values, id), room)
        /\ ~(Len(id) <= StringCap) => ~ReadString(c, StringCap).ok
    BY <1>13, ReadOneAt
  <2> QED
    BY <1>14, <1>15, <2>1
<1>17. PICK c2 : c2 = ReadWill(c1, flags)
  OBVIOUS
<1>18. PICK c3 : c3 = ReadPassword(ReadUser(c2, flags), flags)
  OBVIOUS
<1>19. ReadStrings(c, flags) = c3
  BY <1>15, <1>17, <1>18 DEF ReadStrings
<1>20. c1 \in ACursor
  <2>1. StringCap \in Nat
    BY CodecAssumption
  <2> QED
    BY <1>15, <1>16, <2>1, ReadStringType DEF Follows
<1>21. will \in Seq(Value) /\ credentials \in Seq(Value) /\ ids \in Seq(Value)
  BY TextIsValue
<1>22. c2 \in ACursor /\ (~c1.ok => ~c2.ok) /\ (~c2.ok => ~c3.ok)
  <2>1. PICK e : e = ReadString(c1, StringCap)
    OBVIOUS
  <2>2. StringCap \in Nat
    BY CodecAssumption
  <2>3. e \in ACursor /\ ReadString(e, StringCap) \in ACursor
    BY <1>20, <2>1, <2>2, ReadStringType DEF Follows
  <2>4. c2 \in ACursor
    BY <1>17, <1>20, <2>1, <2>3 DEF ReadWill
  <2> QED
    BY <1>16, <1>17, <1>18, <1>20, <2>4, ReadStringsType
<1>23. ASSUME Len(id) <= StringCap
       PROVE  /\ Short(will) => c2 = At(y3, Cat(v1, will), room)
              /\ ~Short(will) => ~c2.ok
  <2>1. c1 = At(Cat(StringsBytes(will), y3), v1, room)
    BY <1>8, <1>11, <1>16, <1>23
  <2> QED
    <3>1. StringsRead(will, y3, v1, room, ReadWill(c1, flags))
      <4>1. Len(will) \in {0, 2}
        BY <1>1
      <4> QED
        BY <1>2, <2>1, <4>1, WillAt
    <3> QED
      BY <1>17, <3>1 DEF StringsRead
<1>24. PICK v2 \in Seq(Value) : v2 = Cat(v1, will)
  BY <1>21, CatValues
<1>25. ASSUME Len(id) <= StringCap, Short(will)
       PROVE  /\ Short(credentials) => c3 = At(rest, Cat(v2, credentials), room)
              /\ ~Short(credentials) => ~c3.ok
  <2>1. c2 = At(Cat(StringsBytes(credentials), rest), v2, room)
    BY <1>7, <1>10, <1>23, <1>24, <1>25
  <2> QED
    <3>1. Len(credentials) <= 2
      BY <1>1
    <3>2. c3 = ReadCredentials(c2, flags)
      BY <1>18 DEF ReadCredentials
    <3>3. StringsRead(credentials, rest, v2, room, ReadCredentials(c2, flags))
      BY <1>2, <2>1, <3>1, CredentialsAt
    <3> QED
      BY <3>2, <3>3 DEF StringsRead
<1>26. Cat(v2, credentials) = Cat(values, ConnectStrings(p))
  <2>1. v2 = Cat(values, named)
    BY <1>4, <1>14, <1>21, <1>24, CatValueGroups
  <2>2. named \in Seq(Value)
    BY TextIsValue
  <2> QED
    BY <1>5, <1>21, <2>1, <2>2, CatValueGroups
<1>27. ASSUME Short(ConnectStrings(p))
       PROVE  c3 = At(rest, Cat(values, ConnectStrings(p)), room)
  BY <1>6, <1>25, <1>26, <1>27
<1>28. ASSUME ~Short(ConnectStrings(p)) PROVE ~c3.ok
  <2>1. CASE ~(Len(id) <= StringCap)
    BY <1>16, <1>22, <2>1
  <2>2. CASE Len(id) <= StringCap /\ ~Short(will)
    BY <1>22, <1>23, <2>2
  <2>3. CASE Len(id) <= StringCap /\ Short(will) /\ ~Short(credentials)
    BY <1>25, <2>3
  <2> QED
    BY <1>6, <1>28, <2>1, <2>2, <2>3
<1> QED
  BY <1>19, <1>27, <1>28

\* A CONNECT is read back if its flags say what it has and its strings fit.
LEMMA ConnectReadsBack ==
    ASSUME NEW p \in Packet, Serializable(p), p.type = "CONNECT",
           RemainingLength(p) < 128, NEW rest \in Seq(Cell), NEW room \in Nat,
           NEW d, d = At(Cat(Body(p), rest), HeaderValues(p), room)
    PROVE  ReadsBack(p, rest, room, ReadConnect(d))
<1>1. PICK flags \in Flags :
         /\ flags = ConnectFlagsRead(ConnectFlags(p))
         /\ flags = FlagsOf(p)
              <=> (p.will # <<>> => p.credentials # <<>> /\ p.will_qos = 1)
  BY ConnectFlagsBack
<1>2. PICK tail : tail = Cat(StringsBytes(ConnectStrings(p)), rest)
  OBVIOUS
<1>3. tail \in Seq(Cell)
  BY <1>2, ConnectParts
<1>4. PICK values \in Seq(Value) :
         values = FixedValues(p, flags) /\ Len(values) = 7 /\ values[6] = flags
  BY FixedType
<1>5. PICK fixed : fixed = ReadFixed(d)
  OBVIOUS
<1>6. /\ d \in ACursor
      /\ Len(ProtocolName) <= StringCap => fixed = At(tail, values, room)
      /\ ~(Len(ProtocolName) <= StringCap) => ~fixed.ok
  BY <1>1, <1>2, <1>4, <1>5, FixedAt
<1>7. Survives(p) /\ RoomFor(p, room)
        <=> /\ flags = FlagsOf(p)
            /\ Len(ProtocolName) <= StringCap
            /\ Short(ConnectStrings(p))
  BY <1>1 DEF Survives, RoomFor, Short
<1>8. CASE ~(Len(ProtocolName) <= StringCap)
  <2>1. ReadConnect(d) = fixed
    BY <1>5, <1>6, <1>8 DEF ReadConnect
  <2> QED
    BY <1>6, <1>7, <1>8, <2>1, Refused
<1>9. CASE Len(ProtocolName) <= StringCap
  <2>1. fixed = At(tail, values, room) /\ fixed.ok /\ fixed.got = values
    BY <1>6, <1>9 DEF At
  <2>2. fixed.got[Len(fixed.got) - 1] = flags
    <3>1. Len(fixed.got) - 1 = 6
      BY <1>4, <2>1
    <3> QED
      BY <1>4, <2>1, <3>1
  <2>3. PICK r : r = ReadStrings(fixed, flags)
    OBVIOUS
  <2>4. ReadConnect(d) = r
    BY <1>5, <2>1, <2>2, <2>3 DEF ReadConnect, ReadStrings
  <2>5. CASE flags # FlagsOf(p)
    <3>1. Follows(fixed, r)
      BY <1>3, <2>1, <2>3, AtType, ReadStringsType
    <3>2. r.got[6] = flags
      <4>1. 6 \in 1..Len(values)
        BY <1>4
      <4>2. \A i \in 1..Len(fixed.got) : r.got[i] = fixed.got[i]
        BY <3>1 DEF Follows, Begins
      <4> QED
        BY <1>4, <2>1, <4>1, <4>2
    <3>3. Meaning(p)[6] = FlagsOf(p)
      <4>1. PICK meant \in Seq(Value) :
               /\ meant = FixedValues(p, FlagsOf(p)) /\ Len(meant) = 7
               /\ meant[6] = FlagsOf(p)
        BY FixedType, ConnectMeaning
      <4>2. 6 \in 1..Len(meant)
        BY <4>1
      <4>3. Cat(meant, ConnectStrings(p))[6] = meant[6]
        BY <4>2, ConnectMeaning, CatValues
      <4> QED
        BY <4>1, <4>3, ConnectMeaning
    <3>4. r.got # Meaning(p)
      BY <2>5, <3>2, <3>3
    <3> QED
      BY <1>7, <2>4, <2>5, <3>4, Refused
  <2>6. CASE flags = FlagsOf(p)
    <3>1. /\ Short(ConnectStrings(p)) => r = At(rest, Cat(values, ConnectStrings(p)), room)
          /\ ~Short(ConnectStrings(p)) => ~r.ok
      BY <1>2, <2>1, <2>3, <2>6, ReadStringsAt
    <3>2. Cat(values, ConnectStrings(p)) = Meaning(p)
      BY <1>4, <2>6, ConnectMeaning
    <3>3. CASE Short(ConnectStrings(p))
      BY <1>7, <1>9, <2>4, <2>6, <3>1, <3>2, <3>3, ReadsAllBack
    <3>4. CASE ~Short(ConnectStrings(p))
      BY <1>7, <2>4, <3>1, <3>4, Refused
    <3> QED
      BY <3>3, <3>4
  <2> QED
    BY <2>5, <2>6
<1> QED
  BY <1>8, <1>9

-------------------------------------------------------------------------------
(***************************************************************************)
(* Every packet.                                                           *)
(***************************************************************************)

\* Every meaning begins with the values of the header.
LEMMA MeaningLength ==
    ASSUME NEW p \in Packet, Serializable(p), RemainingLength(p) >= 128
    PROVE  Meaning(p)[3] = RemainingLength(p)
<1>1. PICK h \in Seq(Value) :
         h = HeaderValues(p) /\ Len(h) = 3 /\ h[3] = RemainingLength(p)
  BY HeaderValuesType DEF HeaderValues
<1>2. 3 \in 1..Len(h)
  BY <1>1
<1>3. ASSUME NEW tail \in Seq(Value), Meaning(p) = Cat(h, tail)
      PROVE  Meaning(p)[3] = RemainingLength(p)
  <2>1. Cat(h, tail)[3] = h[3]
    BY <1>2, CatValues
  <2> QED
    BY <1>1, <1>3, <2>1
<1>4. CASE p.type = "CONNECT"
  <2>1. PICK meant \in Seq(Value) :
           meant = FixedValues(p, FlagsOf(p)) /\ Len(meant) = 7 /\ meant[3] = h[3]
    <3>1. PICK four \in Seq(Value) :
             four = <<ProtocolName, ProtocolLevel, FlagsOf(p), p.keepalive>>
      <4>1. /\ ProtocolName \in Value /\ ProtocolLevel \in Value /\ p.keepalive \in Value
            /\ FlagsOf(p) \in Value
        BY <1>4, FixedType, ConnectMeaning DEF Value
      <4>2. <<ProtocolName, ProtocolLevel, FlagsOf(p), p.keepalive>> \in Seq(Value)
        BY <4>1
      <4> QED
        BY <4>2
    <3>2. FixedValues(p, FlagsOf(p)) = Cat(h, four)
      BY <1>1, <1>4, <3>1, FixedType, ConnectMeaning
    <3>3. Cat(h, four)[3] = h[3]
      BY <1>2, CatValues
    <3> QED
      BY <1>4, <3>2, <3>3, FixedType, ConnectMeaning
  <2>2. 3 \in 1..Len(meant)
    BY <2>1
  <2>3. Cat(meant, ConnectStrings(p))[3] = meant[3]
    BY <1>4, <2>2, ConnectMeaning, CatValues
  <2> QED
    BY <1>1, <1>4, <2>1, <2>3, ConnectMeaning
<1>5. CASE p.type = "PUBLISH"
  <2>1. PICK topic_value \in Value, id \in Value, data \in Value :
           topic_value = p.topic /\ id = p.packet_id /\ data = p.data
    <3>1. <<>> \in Seq(Cell)
      OBVIOUS
    <3> QED
      BY <1>5, <3>1, PublishParts
  <2>2. <<topic_value, data>> \in Seq(Value) /\ <<topic_value, id, data>> \in Seq(Value)
    OBVIOUS
  <2>3. \/ Meaning(p) = Cat(h, <<topic_value, data>>)
        \/ Meaning(p) = Cat(h, <<topic_value, id, data>>)
    <3>1. p.qos \in 0..2
      BY <1>5, PublishFlags
    <3>2. p.qos = 0 \/ p.qos > 0
      BY <3>1
    <3>3. CASE p.qos = 0
      <4>1. Meaning(p) = Cat(HeaderValues(p), <<p.topic, p.data>>)
        BY <1>5, <3>3 DEF Meaning, HeaderValues, Cat, IdOnlyTypes, EmptyTypes
      <4> QED
        BY <1>1, <2>1, <4>1
    <3>4. CASE p.qos > 0
      <4>1. p.qos # 0
        BY <3>1, <3>4
      <4>2. Meaning(p) = Cat(HeaderValues(p), <<p.topic, p.packet_id, p.data>>)
        BY <1>5, <3>4, <4>1 DEF Meaning, HeaderValues, Cat, IdOnlyTypes, EmptyTypes
      <4> QED
        BY <1>1, <2>1, <4>2
    <3> QED
      BY <3>2, <3>3, <3>4
  <2> QED
    BY <1>3, <2>2, <2>3
<1>6. CASE p.type = "SUBSCRIBE"
  <2>1. PICK topic_value \in Value, id \in Value, qos \in Value :
           topic_value = p.topic /\ id = p.packet_id /\ qos = p.qos
    <3>1. p.topic \in Text /\ p.packet_id \in Word /\ p.qos \in Byte
      BY <1>6, PacketKinds DEF SubscribePacket
    <3> QED
      BY <3>1, TextIsValue, ByteIsValue DEF Word, Value
  <2>2. <<id, topic_value, qos>> \in Seq(Value)
    OBVIOUS
  <2>3. Meaning(p) = Cat(h, <<id, topic_value, qos>>)
    <3>1. Meaning(p) = Cat(HeaderValues(p), <<p.packet_id, p.topic, p.qos>>)
      BY <1>6 DEF Meaning, HeaderValues, Cat, IdOnlyTypes, EmptyTypes
    <3> QED
      BY <1>1, <2>1, <3>1
  <2> QED
    BY <1>3, <2>2, <2>3
<1>7. CASE p.type = "UNSUBSCRIBE"
  <2>1. PICK topic_value \in Value, id \in Value :
           topic_value = p.topic /\ id = p.packet_id
    <3>1. p.topic \in Text /\ p.packet_id \in Word
      BY <1>7, PacketKinds DEF UnsubscribePacket
    <3> QED
      BY <3>1, TextIsValue DEF Word, Value
  <2>2. <<id, topic_value>> \in Seq(Value)
    OBVIOUS
  <2>3. Meaning(p) = Cat(h, <<id, topic_value>>)
    <3>1. Meaning(p) = Cat(HeaderValues(p), <<p.packet_id, p.topic>>)
      BY <1>7 DEF Meaning, HeaderValues, Cat, IdOnlyTypes, EmptyTypes
    <3> QED
      BY <1>1, <2>1, <3>1
  <2> QED
    BY <1>3, <2>2, <2>3
<1>8. p.type \notin {"CONNACK", "SUBACK"} \cup IdOnlyTypes \cup EmptyTypes
  <2>1. SUFFICES ASSUME p.type \in {"CONNACK", "SUBACK"} \cup IdOnlyTypes \cup EmptyTypes
                 PROVE  RemainingLength(p) \in {0, 2, 3}
    <3>1. \A n \in {0, 2, 3} : ~(n >= 128)
      OBVIOUS
    <3> QED
      BY <3>1
  <2> QED
    BY <2>1 DEF RemainingLength, IdOnlyTypes, EmptyTypes
<1> QED
  BY <1>4, <1>5, <1>6, <1>7, <1>8, PacketKinds

\* What one end of the library writes, the other end reads, or refuses, or takes
\* for another packet.
LEMMA PacketReadsBack ==
    ASSUME NEW p \in Packet, Serializable(p), NEW rest \in Seq(Cell), NEW room \in Nat,
           NEW c, c = Cursor(Cat(Bytes(p), rest), room)
    PROVE  ReadsBack(p, rest, room, ReadPacketFrom(c))
<1>1. PICK header \in Seq(Cell), body \in Seq(Cell) :
         header = Header(p) /\ body = Body(p) /\ Bytes(p) = Cat(header, body)
  BY HeaderType, PacketWritten, BytesAreCells DEF WellWritten
<1>2. PICK left \in Seq(Cell) : left = Cat(body, rest)
  BY CatCells
<1>3. c = Cursor(Cat(Header(p), left), room)
  BY <1>1, <1>2, CatCellGroups
<1>4. PICK d : d = ReadHeader(c)
  OBVIOUS
<1>5. PICK r : r = ReadPacketFrom(c)
  OBVIOUS
<1>6. /\ RemainingLength(p) < 128 => d = At(left, HeaderValues(p), room)
      /\ RemainingLength(p) >= 128 =>
           \E after \in Seq(Cell) : \E n \in 0..127 :
               d = At(after, <<TypeCode[p.type], HeaderFlags(p), n>>, room)
  <2>1. HeaderRead(p, left, room, ReadHeader(c))
    BY <1>3, ReadHeaderAt
  <2> QED
    BY <1>4, <2>1 DEF HeaderRead
<1>7. PICK length \in Nat : length = RemainingLength(p)
  BY RemainingLengthType
<1>8. CASE length < 128
  <2>1. d = At(Cat(Body(p), rest), HeaderValues(p), room)
    BY <1>1, <1>2, <1>6, <1>7, <1>8
  <2>2. d.ok /\ d.got[1] = TypeCode[p.type]
    BY <2>1 DEF At, HeaderValues
  <2>3. p.type \in DOMAIN TypeCode
    BY PacketKinds, TypeOfCode
  <2>4. PICK type : type = CHOOSE t \in DOMAIN TypeCode : TypeCode[t] = d.got[1]
    OBVIOUS
  <2>5. type = p.type
    BY <2>2, <2>3, <2>4, TypeOfCode
  <2>6. /\ type = "CONNECT" => r = ReadConnect(d)
        /\ type = "CONNACK" => r = ReadConnack(d)
        /\ type = "PUBLISH" => r = ReadPublish(d)
        /\ type = "SUBSCRIBE" => r = ReadSubscribe(d)
        /\ type = "UNSUBSCRIBE" => r = ReadUnsubscribe(d)
        /\ type = "SUBACK" => r = ReadSuback(d)
        /\ type \in IdOnlyTypes => r = ReadIdOnly(d)
        /\ type \in EmptyTypes => r = ReadEmpty(d)
    BY <1>4, <1>5, <2>2, <2>4 DEF ReadPacketFrom, IdOnlyTypes, EmptyTypes
  <2>7. RemainingLength(p) < 128
    BY <1>7, <1>8
  <2>8. CASE p.type = "CONNECT"
    BY <1>5, <2>1, <2>5, <2>6, <2>7, <2>8, ConnectReadsBack
  <2>9. CASE p.type = "CONNACK"
    BY <1>5, <2>1, <2>5, <2>6, <2>7, <2>9, ConnackReadsBack
  <2>10. CASE p.type = "PUBLISH"
    BY <1>5, <2>1, <2>5, <2>6, <2>7, <2>10, PublishReadsBack
  <2>11. CASE p.type = "SUBSCRIBE"
    BY <1>5, <2>1, <2>5, <2>6, <2>7, <2>11, SubscribeReadsBack
  <2>12. CASE p.type = "UNSUBSCRIBE"
    BY <1>5, <2>1, <2>5, <2>6, <2>7, <2>12, UnsubscribeReadsBack
  <2>13. CASE p.type = "SUBACK"
    BY <1>5, <2>1, <2>5, <2>6, <2>7, <2>13, SubackReadsBack
  <2>14. CASE p.type \in IdOnlyTypes
    BY <1>5, <2>1, <2>5, <2>6, <2>7, <2>14, IdOnlyReadsBack
  <2>15. CASE p.type \in EmptyTypes
    BY <1>5, <2>1, <2>5, <2>6, <2>7, <2>15, EmptyReadsBack
  <2> QED
    BY <2>8, <2>9, <2>10, <2>11, <2>12, <2>13, <2>14, <2>15, PacketKinds
<1>9. CASE length >= 128
  <2>1. PICK after \in Seq(Cell), n \in 0..127 :
           d = At(after, <<TypeCode[p.type], HeaderFlags(p), n>>, room)
    BY <1>6, <1>7, <1>9
  <2>2. d.got[3] = n /\ Len(d.got) = 3
    BY <2>1 DEF At
  <2>3. Follows(d, r)
    <3>1. c \in ACursor /\ c.got = <<>>
      <4>1. Cat(header, left) \in Seq(Cell)
        BY CatCells
      <4>2. <<>> \in Seq(Value)
        OBVIOUS
      <4> QED
        BY <1>1, <1>3, <4>1, <4>2 DEF Cursor, ACursor
    <3> QED
      BY <1>4, <1>5, <3>1, ReadPacketType
  <2>4. r.got[3] = n
    <3>1. 3 \in 1..Len(d.got)
      BY <2>2
    <3> QED
      BY <2>2, <2>3, <3>1 DEF Follows, Begins
  <2>5. r.got # Meaning(p)
    <3>1. Meaning(p)[3] = length
      BY <1>7, <1>9, MeaningLength
    <3>2. n # length
      BY <1>9
    <3> QED
      BY <2>4, <3>1, <3>2
  <2>6. ~Survives(p)
    <3>1. ~(RemainingLength(p) < 128)
      BY <1>7, <1>9
    <3> QED
      BY <3>1 DEF Survives
  <2> QED
    BY <1>5, <2>5, <2>6, Refused
<1> QED
  BY <1>7, <1>8, <1>9

-------------------------------------------------------------------------------
(***************************************************************************)
(* The buffer: the packets in it are read one after the other.             *)
(***************************************************************************)

\* The packets up to one of them, this one, and the ones after it.
LEMMA WrittenParts ==
    ASSUME NEW packets, Good(packets), NEW m \in Nat, m < Len(packets),
           NEW p, p = packets[m + 1]
    PROVE  /\ p \in Packet /\ Serializable(p)
           /\ Bytes(p) \in Seq(Byte)
           /\ Written(SubSeq(packets, 1, m)) \in Seq(Byte)
           /\ Written(SubSeq(packets, 1, m + 1))
                = Cat(Written(SubSeq(packets, 1, m)), Bytes(p))
           /\ \E rest \in Seq(Byte) :
                Written(packets) = Cat(Written(SubSeq(packets, 1, m)), Cat(Bytes(p), rest))
<1>1. PICK n \in Nat : n = Len(packets) /\ m < n /\ DOMAIN packets = 1..n
  BY DEF Good
<1>2. /\ packets \in Seq(Packets)
      /\ \A i \in 1..n : packets[i] \in Packets /\ Serializable(packets[i])
  BY <1>1 DEF Good
<1>3. p \in Packets /\ p \in Packet /\ Serializable(p)
  <2>1. m + 1 \in 1..n
    BY <1>1
  <2> QED
    BY <1>2, <2>1, ExchangeAssumption
<1>4. PICK first \in Seq(Packets) :
         /\ first = SubSeq(packets, 1, m) /\ Len(first) = m
         /\ \A i \in 1..m : first[i] = packets[i]
  <2>1. \A i \in 1..m : packets[i] \in Packets
    BY <1>1, <1>2
  <2>2. SubSeq(packets, 1, m) \in Seq(Packets) /\ Len(SubSeq(packets, 1, m)) = m
        /\ \A i \in 1..m : SubSeq(packets, 1, m)[i] = packets[i]
    BY <2>1, SubSeqProperties
  <2> QED
    BY <2>2
<1>5. PICK upto \in Seq(Packets) :
         /\ upto = SubSeq(packets, 1, m + 1) /\ Len(upto) = m + 1
         /\ \A i \in 1..(m + 1) : upto[i] = packets[i]
  <2>1. \A i \in 1..(m + 1) : packets[i] \in Packets
    BY <1>1, <1>2
  <2>2. m + 1 \in Nat
    OBVIOUS
  <2>3. /\ SubSeq(packets, 1, m + 1) \in Seq(Packets)
        /\ Len(SubSeq(packets, 1, m + 1)) = m + 1
        /\ \A i \in 1..(m + 1) : SubSeq(packets, 1, m + 1)[i] = packets[i]
    BY <2>1, <2>2, SubSeqProperties
  <2> QED
    BY <2>3
<1>6. PICK later \in Seq(Packets) :
         /\ Len(later) = n - (m + 1)
         /\ \A i \in 1..Len(later) : later[i] = packets[m + 1 + i]
  <2> DEFINE l == [i \in 1..(n - (m + 1)) |-> packets[m + 1 + i]]
  <2>1. n - (m + 1) \in Nat
    BY <1>1
  <2>2. \A i \in 1..(n - (m + 1)) : m + 1 + i \in 1..n
    BY <1>1
  <2>3. l \in Seq(Packets) /\ Len(l) = n - (m + 1)
    BY <1>2, <2>1, <2>2
  <2>4. \A i \in 1..Len(l) : l[i] = packets[m + 1 + i]
    BY <2>3
  <2> HIDE DEF l
  <2> QED
    BY <2>3, <2>4
<1>7. Good(first) /\ Good(upto) /\ Good(later)
  <2>1. DOMAIN first = 1..m /\ DOMAIN upto = 1..(m + 1) /\ DOMAIN later = 1..Len(later)
    BY <1>4, <1>5, <1>6
  <2>2. Good(first)
    BY <1>1, <1>2, <1>4, <2>1 DEF Good
  <2>3. Good(upto)
    BY <1>1, <1>2, <1>5, <2>1 DEF Good
  <2>4. \A i \in 1..Len(later) : m + 1 + i \in 1..n
    BY <1>1, <1>6
  <2>5. Good(later)
    BY <1>2, <1>6, <2>1, <2>4 DEF Good
  <2> QED
    BY <2>2, <2>3, <2>5
<1>8. upto = Append(first, p)
  <2>1. PICK more \in Seq(Packets) :
           /\ more = Append(first, p) /\ Len(more) = m + 1
           /\ \A i \in 1..m : more[i] = first[i]
           /\ more[m + 1] = p
    <3>1. PICK added : added = Append(first, p)
      OBVIOUS
    <3>2. /\ added \in Seq(Packets) /\ Len(added) = Len(first) + 1
          /\ \A i \in 1..Len(first) : added[i] = first[i]
          /\ added[Len(first) + 1] = p
      BY <1>3, <3>1, Extended
    <3> QED
      BY <1>4, <3>1, <3>2
  <2>2. ASSUME NEW i \in 1..(m + 1) PROVE upto[i] = more[i]
    <3>1. i \in 1..m \/ i = m + 1
      OBVIOUS
    <3> QED
      BY <1>4, <1>5, <2>1, <3>1
  <2>3. upto = more
    BY <1>5, <2>1, <2>2, SeqEqual
  <2> QED
    BY <2>1, <2>3
<1>9. /\ Bytes(p) \in Seq(Byte)
      /\ Written(upto) = Cat(Written(first), Bytes(p))
      /\ Written(first) \in Seq(Byte)
  BY <1>3, <1>7, <1>8, WrittenAppend, WrittenType
<1>10. Written(packets) = Cat(Written(upto), Written(later))
  <2>1. /\ Images(packets) \in Seq(Seq(Byte)) /\ Len(Images(packets)) = n
        /\ \A i \in 1..n : Images(packets)[i] = Bytes(packets[i])
    BY <1>1, ImagesType
  <2>2. /\ Images(upto) \in Seq(Seq(Byte)) /\ Len(Images(upto)) = m + 1
        /\ \A i \in 1..(m + 1) : Images(upto)[i] = Bytes(packets[i])
    <3>1. /\ Images(upto) \in Seq(Seq(Byte)) /\ Len(Images(upto)) = Len(upto)
          /\ \A i \in 1..Len(upto) : Images(upto)[i] = Bytes(upto[i])
      BY <1>7, ImagesType
    <3> QED
      BY <1>5, <3>1
  <2>3. /\ Images(later) \in Seq(Seq(Byte)) /\ Len(Images(later)) = n - (m + 1)
        /\ \A i \in 1..(n - (m + 1)) : Images(later)[i] = Bytes(packets[m + 1 + i])
    <3>1. /\ Images(later) \in Seq(Seq(Byte)) /\ Len(Images(later)) = Len(later)
          /\ \A i \in 1..Len(later) : Images(later)[i] = Bytes(later[i])
      BY <1>7, ImagesType
    <3> QED
      BY <1>6, <3>1
  <2>4. PICK all \in Seq(Seq(Byte)), front \in Seq(Seq(Byte)), back \in Seq(Seq(Byte)) :
           all = Images(packets) /\ front = Images(upto) /\ back = Images(later)
    BY <2>1, <2>2, <2>3
  <2>5. all = Cat(front, back)
    <3>1. PICK both : both = Cat(front, back)
      OBVIOUS
    <3>2. /\ both \in Seq(Seq(Byte)) /\ Len(both) = Len(front) + Len(back)
          /\ \A i \in 1..Len(both) :
               both[i] = IF i <= Len(front) THEN front[i] ELSE back[i - Len(front)]
      BY <3>1, ConcatProperties DEF Cat
    <3>3. Len(both) = n
      BY <1>1, <2>2, <2>3, <2>4, <3>2
    <3>4. ASSUME NEW i \in 1..n PROVE all[i] = both[i]
      <4>1. all[i] = Bytes(packets[i])
        BY <2>1, <2>4
      <4>2. CASE i <= m + 1
        <5>1. i \in 1..(m + 1)
          BY <4>2
        <5>2. both[i] = front[i]
          BY <2>2, <2>4, <3>2, <3>3, <4>2
        <5> QED
          BY <2>2, <2>4, <4>1, <5>1, <5>2
      <4>3. CASE ~(i <= m + 1)
        <5>1. PICK j \in 1..(n - (m + 1)) : j = i - (m + 1) /\ m + 1 + j = i
          BY <1>1, <4>3
        <5>2. both[i] = back[j]
          BY <2>2, <2>4, <3>2, <3>3, <4>3, <5>1
        <5>3. back[j] = Bytes(packets[m + 1 + j])
          BY <2>3, <2>4, <5>1
        <5> QED
          BY <4>1, <5>1, <5>2, <5>3
      <4> QED
        BY <4>2, <4>3
    <3>5. Len(all) = n
      BY <2>1, <2>4
    <3>6. all = both
      BY <3>2, <3>3, <3>4, <3>5, SeqEqual
    <3> QED
      BY <3>1, <3>6
  <2>6. FlattenSeq(Cat(front, back)) = Cat(FlattenSeq(front), FlattenSeq(back))
    BY CatChunks
  <2>7. /\ Written(packets) = FlattenSeq(all) /\ Written(upto) = FlattenSeq(front)
        /\ Written(later) = FlattenSeq(back)
    BY <2>4 DEF Written, Images
  <2> QED
    BY <2>5, <2>6, <2>7
<1>11. PICK rest \in Seq(Byte) : rest = Written(later)
  BY <1>7, WrittenType
<1>12. Written(packets) = Cat(Written(first), Cat(Bytes(p), rest))
  BY <1>9, <1>10, <1>11, CatGroups
<1> QED
  BY <1>3, <1>4, <1>5, <1>9, <1>11, <1>12

Results == [ok : BOOLEAN, values : Seq(Value)]

\* The result of a read that succeeds with some values.
Success(values) == [ok |-> TRUE, values |-> values]

LEMMA SuccessIs ==
    ASSUME NEW ok \in BOOLEAN, NEW s, NEW v
    PROVE  [ok |-> ok, values |-> s] = Success(v) <=> ok /\ s = v
<1>1. CASE ok = TRUE
  BY <1>1 DEF Success
<1>2. CASE ok = FALSE
  <2>1. [ok |-> ok, values |-> s].ok # Success(v).ok
    BY <1>2 DEF Success
  <2> QED
    BY <1>2, <2>1
<1> QED
  BY <1>1, <1>2

LEMMA ResultIs ==
    ASSUME NEW r \in ACursor, NEW x, x = [ok |-> r.ok, values |-> r.got], NEW values
    PROVE  x \in Results /\ (x = Success(values) <=> r.ok /\ r.got = values)
<1>1. r.ok \in BOOLEAN /\ r.got \in Seq(Value)
  BY DEF ACursor
<1>2. PICK ok \in BOOLEAN, sequence \in Seq(Value) : ok = r.ok /\ sequence = r.got
  BY <1>1
<1>3. x = [ok |-> ok, values |-> sequence]
  BY <1>2
<1>4. x \in Results
  BY <1>3 DEF Results
<1>5. x = Success(values) <=> ok /\ sequence = values
  <2>1. [ok |-> ok, values |-> sequence] = Success(values) <=> ok /\ sequence = values
    BY SuccessIs
  <2> QED
    BY <1>3, <2>1
<1> QED
  BY <1>2, <1>4, <1>5

LEMMA AsSentAppend ==
    ASSUME NEW results \in Seq(Results), NEW x \in Results, Len(sent) \in Nat
    PROVE  AsSent(Append(results, x))
             <=> /\ AsSent(results)
                 /\ Len(results) + 1 <= Len(sent)
                 /\ x = Success(Meaning(sent[Len(results) + 1]))
<1>1. PICK n \in Nat : n = Len(results) /\ DOMAIN results = 1..n
  BY LenProperties
<1>2. PICK more \in Seq(Results) :
         /\ more = Append(results, x) /\ DOMAIN more = 1..(n + 1)
         /\ \A i \in 1..n : more[i] = results[i]
         /\ more[n + 1] = x
  <2>1. PICK added : added = Append(results, x)
    OBVIOUS
  <2>2. /\ added \in Seq(Results) /\ Len(added) = Len(results) + 1
        /\ \A i \in 1..Len(results) : added[i] = results[i]
        /\ added[Len(results) + 1] = x
    BY <2>1, Extended
  <2>3. DOMAIN added = 1..(n + 1)
    BY <1>1, <2>2
  <2> QED
    BY <1>1, <2>1, <2>2, <2>3
<1>3. AsSent(results) <=> \A i \in 1..n :
          i <= Len(sent) /\ results[i] = Success(Meaning(sent[i]))
  BY <1>1 DEF AsSent, Success
<1>4. AsSent(more) <=> \A i \in 1..(n + 1) :
          i <= Len(sent) /\ more[i] = Success(Meaning(sent[i]))
  BY <1>2 DEF AsSent, Success
<1>5. \A i : i \in 1..(n + 1) <=> i \in 1..n \/ i = n + 1
  OBVIOUS
<1>6. AsSent(more)
        <=> /\ \A i \in 1..n : i <= Len(sent) /\ more[i] = Success(Meaning(sent[i]))
            /\ n + 1 <= Len(sent) /\ more[n + 1] = Success(Meaning(sent[n + 1]))
  BY <1>4, <1>5
<1> QED
  BY <1>1, <1>2, <1>3, <1>6

\* The reader is at the end of a packet as long as it has read all of them as
\* they were sent.
AtEnd(results, read) ==
    AsSent(results) => /\ Len(results) <= Len(sent)
                       /\ read = Len(Written(SubSeq(sent, 1, Len(results))))

ReaderInv ==
    /\ got \in Seq(Results)
    /\ phase # "reading" => got = <<>>
    /\ phase = "reading" => AtEnd(got, instream.read)

\* What is left to read is the rest of what was written.
LEMMA UnreadIs ==
    ASSUME ExchangeInv, phase = "reading", NEW s \in Seq(Byte), NEW t \in Seq(Byte),
           Written(sent) = Cat(s, t), instream.read = Len(s)
    PROVE  Unread = t
<1> USE BufferAssumption
<1>1. PICK w \in 0..BufferSize : w = outstream.written /\ w = instream.size
  BY ExchangeFacts DEF ExchangeInv
<1>2. PICK m \in [1..BufferSize -> Cell] : m = memory
  BY ExchangeFacts
<1>3. PICK both \in Seq(Cell) : both = Cat(s, t)
  BY BytesAreCells, CatCells
<1>4. both = SubSeq(m, 1, w)
  <2>1. IsPrefix(both, SubSeq(m, 1, w)) /\ Len(both) = w
    BY <1>1, <1>2, <1>3 DEF ExchangeInv, BufferHoldsPackets
  <2>2. SubSeq(m, 1, w) \in Seq(Cell) /\ Len(SubSeq(m, 1, w)) = w
    <3>1. \A i \in 1..w : m[i] \in Cell
      OBVIOUS
    <3> QED
      BY <3>1, SubSeqProperties
  <2> QED
    BY <2>1, <2>2, PrefixLemma
<1>5. Len(both) = w /\ \A i \in 1..w : both[i] = m[i]
  <2>1. \A i \in 1..w : m[i] \in Cell
    OBVIOUS
  <2>2. /\ Len(SubSeq(m, 1, w)) = w
        /\ \A i \in 1..w : SubSeq(m, 1, w)[i] = m[i]
    BY <2>1, SubSeqProperties
  <2> QED
    BY <1>4, <2>2
<1>6. /\ Len(s) \in Nat /\ Len(t) \in Nat /\ w = Len(s) + Len(t)
      /\ \A i \in 1..Len(t) : both[Len(s) + i] = t[i]
  <2>1. s \in Seq(Cell) /\ t \in Seq(Cell)
    BY BytesAreCells
  <2>2. /\ Len(Cat(s, t)) = Len(s) + Len(t)
        /\ \A i \in 1..Len(t) : Cat(s, t)[Len(s) + i] = t[i]
    BY <2>1, CatCells
  <2> QED
    BY <1>3, <1>5, <2>2, LenProperties
<1>7. PICK u : u = SubSeq(m, Len(s) + 1, w)
  OBVIOUS
<1>8. /\ u \in Seq(Cell) /\ Len(u) = Len(t)
      /\ \A i \in 1..Len(t) : u[i] = m[Len(s) + i]
  <2>1. \A i \in (Len(s) + 1)..w : m[i] \in Cell
    BY <1>6
  <2>2. /\ u \in Seq(Cell)
        /\ Len(u) = IF Len(s) + 1 <= w THEN w - (Len(s) + 1) + 1 ELSE 0
        /\ \A i \in 1..(w - (Len(s) + 1) + 1) : u[i] = m[(Len(s) + 1) + i - 1]
    BY <1>6, <1>7, <2>1, SubSeqProperties
  <2>3. w - (Len(s) + 1) + 1 = Len(t)
    BY <1>6
  <2>4. ASSUME NEW i \in 1..Len(t) PROVE u[i] = m[Len(s) + i]
    <3>1. (Len(s) + 1) + i - 1 = Len(s) + i
      BY <1>6
    <3> QED
      BY <2>2, <2>3, <3>1
  <2>5. Len(u) = Len(t)
    BY <1>6, <2>2, <2>3
  <2> QED
    BY <2>2, <2>4, <2>5
<1>9. ASSUME NEW i \in 1..Len(t) PROVE u[i] = t[i]
  <2>1. Len(s) + i \in 1..w
    BY <1>6
  <2> QED
    BY <1>5, <1>6, <1>8, <2>1
<1>10. u = t
  <2>1. t \in Seq(Cell)
    BY BytesAreCells
  <2> QED
    BY <1>8, <1>9, <2>1, SeqEqual
<1> QED
  BY <1>1, <1>2, <1>7, <1>10, UnreadType

LEMMA DeserializeReads ==
    ASSUME ExchangeInv, ReaderInv, Deserialize
    PROVE  /\ got' \in Seq(Results)
           /\ Len(got') = Len(got) + 1
           /\ AsSent(got') => AsSent(got)
           /\ AsSent(got) =>
                AsSent(got') <=> Survives(sent[Len(got) + 1]) /\ HasRoom(sent[Len(got) + 1])
           /\ AtEnd(got', instream'.read)
<1> USE BufferAssumption, ExchangeAssumption
<1>1. PICK result : result = ReadPacketFrom(Cursor(Unread, topic))
  OBVIOUS
<1>2. PICK x : x = [ok |-> result.ok, values |-> result.got]
  OBVIOUS
<1>3. /\ Read(Len(Unread) - Len(result.left))
      /\ got' = Append(got, x)
      /\ phase = "reading" /\ Unread # <<>>
  BY <1>1, <1>2 DEF Deserialize, MayRead
<1>4. result \in ACursor
  BY <1>1, UnreadType, ReadPacketType DEF Follows
<1>5. x \in Results /\ \A values : x = Success(values) <=> result.ok /\ result.got = values
  BY <1>2, <1>4, ResultIs
<1>6. PICK m \in Nat : m = Len(got) /\ got \in Seq(Results)
  BY DEF ReaderInv
<1>7. Good(sent) /\ Len(sent) \in Nat
  BY ExchangeFacts DEF Good
<1>8. got' \in Seq(Results) /\ Len(got') = m + 1
  <2>1. /\ Append(got, x) \in Seq(Results)
        /\ Len(Append(got, x)) = Len(got) + 1
    BY <1>5, <1>6, Extended
  <2> QED
    BY <1>3, <1>6, <2>1
<1>9. AsSent(got')
        <=> /\ AsSent(got)
            /\ m + 1 <= Len(sent)
            /\ x = Success(Meaning(sent[m + 1]))
  BY <1>3, <1>5, <1>6, <1>7, AsSentAppend
<1>10. instream'.read = instream.read + (Len(Unread) - Len(result.left))
  <2>1. PICK n : n = Len(Unread) - Len(result.left)
    OBVIOUS
  <2>2. instream' = [instream EXCEPT !.read = @ + n, !.param = @ + n]
    BY <1>3, <2>1 DEF Read
  <2>3. PICK at, size : instream = [param |-> at, read |-> at, size |-> size]
    BY ExchangeFacts
  <2>4. instream'.read = at + n /\ instream.read = at
    BY <2>2, <2>3
  <2> QED
    BY <2>1, <2>4
<1>11. CASE ~AsSent(got)
  BY <1>6, <1>8, <1>9, <1>11 DEF AtEnd
<1>12. CASE AsSent(got)
  <2>1. m <= Len(sent) /\ instream.read = Len(Written(SubSeq(sent, 1, m)))
    BY <1>3, <1>6, <1>12 DEF ReaderInv, AtEnd
  <2>2. m < Len(sent)
    <3> SUFFICES ASSUME m = Len(sent) PROVE FALSE
      BY <1>7, <2>1
    <3>1. SubSeq(sent, 1, m) = sent
      BY <1>7 DEF Good
    <3>2. Written(sent) \in Seq(Byte)
      BY <1>7, WrittenType
    <3>3. Written(sent) = Cat(Written(sent), <<>>)
      BY <3>2, CatNothing
    <3>4. PICK none \in Seq(Byte) : none = <<>>
      <4>1. <<>> \in Seq(Byte)
        OBVIOUS
      <4> QED
        BY <4>1
    <3>5. Written(sent) = Cat(Written(sent), none) /\ instream.read = Len(Written(sent))
      BY <2>1, <3>1, <3>3, <3>4
    <3>6. Unread = none
      BY <1>3, <3>2, <3>5, UnreadIs
    <3> QED
      BY <1>3, <3>4, <3>6
  <2>3. PICK p : p = sent[m + 1]
    OBVIOUS
  <2>4. PICK before \in Seq(Byte), bytes \in Seq(Byte) :
           /\ before = Written(SubSeq(sent, 1, m)) /\ bytes = Bytes(p)
           /\ p \in Packet /\ Serializable(p)
           /\ Written(SubSeq(sent, 1, m + 1)) = Cat(before, bytes)
           /\ \E rest \in Seq(Byte) : Written(sent) = Cat(before, Cat(bytes, rest))
    BY <1>7, <2>2, <2>3, WrittenParts
  <2>5. PICK rest \in Seq(Byte) : Written(sent) = Cat(before, Cat(bytes, rest))
    BY <2>4
  <2>6. PICK left \in Seq(Byte) : left = Cat(bytes, rest) /\ Len(left) = Len(bytes) + Len(rest)
    BY CatBytes
  <2>7. Unread = left
    BY <1>3, <2>1, <2>4, <2>5, <2>6, UnreadIs
  <2>8. ReadsBack(p, rest, topic, result)
    <3>1. result = ReadPacketFrom(Cursor(Cat(Bytes(p), rest), topic))
      BY <1>1, <2>4, <2>6, <2>7
    <3>2. topic \in Nat
      BY DEF ExchangeInv, TypeOK
    <3>3. rest \in Seq(Cell)
      BY BytesAreCells
    <3>4. ReadsBack(p, rest, topic, ReadPacketFrom(Cursor(Cat(Bytes(p), rest), topic)))
      BY <2>4, <3>2, <3>3, PacketReadsBack
    <3> QED
      BY <3>1, <3>4
  <2>9. AsSent(got') <=> Survives(p) /\ HasRoom(p)
    <3>1. m + 1 <= Len(sent)
      BY <1>7, <2>2
    <3>2. AsSent(got') <=> result.ok /\ result.got = Meaning(p)
      BY <1>5, <1>9, <1>12, <2>3, <3>1
    <3> QED
      BY <2>8, <3>2 DEF ReadsBack, RoomFor, HasRoom
  <2>10. AtEnd(got', instream'.read)
    <3> SUFFICES ASSUME AsSent(got')
                 PROVE  /\ m + 1 <= Len(sent)
                        /\ instream'.read = Len(Written(SubSeq(sent, 1, m + 1)))
      BY <1>8 DEF AtEnd
    <3>1. result.left = rest
      BY <2>8, <2>9 DEF ReadsBack, RoomFor, HasRoom
    <3>2. Len(Cat(before, bytes)) = Len(before) + Len(bytes)
      BY CatBytes
    <3>3. Len(before) \in Nat /\ Len(bytes) \in Nat /\ Len(rest) \in Nat
      OBVIOUS
    <3>4. instream'.read = Len(before) + (Len(left) - Len(rest))
      BY <1>10, <2>1, <2>4, <2>7, <3>1
    <3>5. instream'.read = Len(before) + Len(bytes)
      BY <2>6, <3>3, <3>4
    <3> QED
      BY <1>7, <2>2, <2>4, <3>2, <3>5
  <2> QED
    BY <1>6, <1>8, <1>12, <2>3, <2>9, <2>10
<1> QED
  BY <1>11, <1>12

LEMMA InitReader == Init => ReaderInv
<1> SUFFICES ASSUME Init PROVE ReaderInv
  OBVIOUS
<1>1. got = <<>> /\ phase = "writing"
  BY DEF Init
<1> QED
  BY <1>1 DEF ReaderInv

LEMMA NextReader == ExchangeInv /\ ReaderInv /\ [Next]_vars => ReaderInv'
<1> SUFFICES ASSUME ExchangeInv, ReaderInv, [Next]_vars PROVE ReaderInv'
  OBVIOUS
<1>1. CASE \E p \in Packets : Serialize(p)
  <2>1. got' = got /\ phase = "writing" /\ phase' # "reading"
    BY <1>1 DEF Serialize
  <2> QED
    BY <2>1 DEF ReaderInv
<1>2. CASE HandOver
  <2>1. got' = got /\ phase = "writing" /\ sent' = sent
    BY <1>2 DEF HandOver
  <2>2. got = <<>>
    BY <2>1 DEF ReaderInv
  <2>3. instream'.read = 0
    <3>1. instream' = [instream EXCEPT !.param = @ - instream.read,
                                       !.size = outstream.written, !.read = 0]
      BY <1>2 DEF HandOver, ResetInput
    <3>2. PICK at, size : instream = [param |-> at, read |-> at, size |-> size]
      BY ExchangeFacts
    <3> QED
      BY <3>1, <3>2
  <2>4. Len(Written(SubSeq(sent, 1, 0))) = 0
    <3>1. SubSeq(sent, 1, 0) = <<>>
      BY SubSeqEmpty
    <3>2. Written(<<>>) = <<>>
      BY ExchangeFacts, WrittenType
    <3>3. Written(SubSeq(sent, 1, 0)) = <<>>
      BY <3>1, <3>2, Zenon
    <3> QED
      BY <3>3
  <2>5. Len(sent) \in Nat
    BY ExchangeFacts DEF Good
  <2>6. Len(<<>>) = 0
    OBVIOUS
  <2>7. AtEnd(<<>>, 0)'
    BY <2>1, <2>4, <2>5, <2>6 DEF AtEnd
  <2> QED
    BY <2>1, <2>2, <2>3, <2>7 DEF ReaderInv
<1>3. CASE Deserialize
  <2>1. phase' = phase /\ sent' = sent /\ phase = "reading"
    BY <1>3 DEF Deserialize, MayRead
  <2>2. got' \in Seq(Results) /\ AtEnd(got', instream'.read)
    BY <1>3, DeserializeReads
  <2>3. AtEnd(got, instream.read)'
    BY <2>1, <2>2 DEF AtEnd, AsSent
  <2> QED
    BY <2>1, <2>2, <2>3 DEF ReaderInv
<1>4. CASE Recycle
  <2>1. got' = <<>> /\ phase' = "writing"
    BY <1>4 DEF Recycle
  <2> QED
    BY <2>1 DEF ReaderInv
<1>5. CASE UNCHANGED vars
  BY <1>5 DEF vars, streamVars, ReaderInv, AtEnd, AsSent
<1> QED
  BY <1>1, <1>2, <1>3, <1>4, <1>5 DEF Next

LEMMA ReaderInvariant == Spec => [](ExchangeInv /\ ReaderInv)
<1>1. ExchangeInv /\ ReaderInv /\ [Next]_vars => (ExchangeInv /\ ReaderInv)'
  BY NextExchange, NextReader
<1> QED
  BY InitExchange, InitReader, <1>1, PTL DEF Spec

\* The reader is at the end of a packet as long as the packets have been read
\* back as they were sent, and never past what was written: whatever it takes
\* the bytes for, and whatever is left in the buffer from before.
THEOREM ReaderAtEnds == Spec => []ReaderKeepsPace
<1>1. ExchangeInv /\ ReaderInv => ReaderKeepsPace
  <2> SUFFICES ASSUME ExchangeInv, ReaderInv, phase = "reading"
               PROVE  /\ instream.read <= outstream.written
                      /\ AsSent(got) => instream.read
                                          = Len(Written(SubSeq(sent, 1, Len(got))))
    BY DEF ReaderKeepsPace
  <2>1. instream.size = outstream.written /\ instream.read \in 0..instream.size
        /\ instream.size \in 0..BufferSize
    BY ExchangeFacts DEF ExchangeInv
  <2>2. instream.read <= outstream.written
    BY <2>1, BufferAssumption
  <2> QED
    BY <2>2 DEF ReaderInv, AtEnd
<1> QED
  BY <1>1, ReaderInvariant, PTL

\* What the deserializers make of what the serializers wrote, for any packets:
\* after packets that were read back as they were sent, the next one is read
\* back exactly if it survives and its topic has room.  The others are lost,
\* those within the limits of the configuration too.
THEOREM ReadsOnlySurvivors ==
    Spec => [][ ReadsNext =>
                  (AsSent(got') <=> Survives(sent[Len(got')])
                                       /\ HasRoom(sent[Len(got')])) ]_vars
<1> DEFINE Back ==
      ReadsNext =>
          (AsSent(got') <=> Survives(sent[Len(got')]) /\ HasRoom(sent[Len(got')]))
<1>1. ExchangeInv /\ ReaderInv /\ [Next]_vars => [Back]_vars
  <2> SUFFICES ASSUME ExchangeInv, ReaderInv, Next,
                      ReadsNext
               PROVE  AsSent(got')
                        <=> Survives(sent[Len(got')]) /\ HasRoom(sent[Len(got')])
    OBVIOUS
  <2>1. Len(got) \in Nat /\ Len(got') = Len(got) + 1 /\ AsSent(got)
    BY DEF ReaderInv, ReadsNext
  <2>2. CASE \E p \in Packets : Serialize(p)
    <3>1. got' = got
      BY <2>2 DEF Serialize
    <3> QED
      BY <2>1, <3>1
  <2>3. CASE HandOver
    <3>1. got' = got
      BY <2>3 DEF HandOver
    <3> QED
      BY <2>1, <3>1
  <2>4. CASE Deserialize
    BY <2>1, <2>4, DeserializeReads
  <2>5. CASE Recycle
    <3>1. Len(got') = 0
      BY <2>5 DEF Recycle
    <3> QED
      BY <2>1, <3>1
  <2> QED
    BY <2>2, <2>3, <2>4, <2>5 DEF Next
<1> QED
  BY <1>1, ReaderInvariant, PTL DEF Spec

\* What one end of the library writes, for any packets, the other end reads, as
\* long as they survive and their topics have room.
THEOREM ReadsAsSent == Spec => ReadAsSent
<1>1. (ReadsNext => (AsSent(got') <=> Survives(sent[Len(got')])
                                       /\ HasRoom(sent[Len(got')])))
        => (ReadsNext /\ Survives(sent[Len(got')]) /\ HasRoom(sent[Len(got')])
              => AsSent(got'))
  OBVIOUS
<1> QED
  BY <1>1, ReadsOnlySurvivors, PTL DEF ReadAsSent
===============================================================================
