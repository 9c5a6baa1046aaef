------------------------------ MODULE TurnProofs ------------------------------
(* The turns that the workers run (ResidentTurn, RollbackTurn), for any       *)
(* vocabulary, budget and limit: what was published is at every step what     *)
(* the parser has of the message, in every dialect; and the parser has split  *)
(* what it was fed of the text of all tokens.                                 *)
EXTENDS ResidentTurn, RollbackTurn, OrderLemmas, TLAPS

-----------------------------------------------------------------------------
(* The three streams of an answer of which some reasoning and then some       *)
(* content was streamed.                                                      *)

AllGlyphs == {"<", "k", "t", "/", "s", "w", "?"}
Texts == Seq(AllGlyphs)

Opened(b, t) == [block |-> b, text |-> t, open |-> TRUE]
Stopped(b, t) == [block |-> b, text |-> t, open |-> FALSE]
BlockRecords == [block : {"reasoning", "content", "call"}, text : Seq(AllGlyphs \cup {"call"}), open : BOOLEAN]
Reads(blocks) == [blocks |-> blocks, ok |-> TRUE]

\* A client opens the block that comes next.
LEMMA ReceivesStart ==
    ASSUME NEW B \in Seq(BlockRecords), NEW b, NEW t
    PROVE  Receive(Reads(B), Event("start", Len(B), b, t)) = Reads(Append(B, Opened(b, t)))
  BY DEF Receive, Reads, Event, Opened

Names == {"reasoning", "content", "call"}
AnyText == Seq(AllGlyphs \cup {"call"})

\* A record of a block with one field changed.
LEMMA BlockChanged ==
    ASSUME NEW b, NEW t, NEW o, NEW v, NEW r, r = [block |-> b, text |-> t, open |-> o]
    PROVE  /\ [r EXCEPT !.open = v] = [block |-> b, text |-> t, open |-> v]
           /\ [r EXCEPT !.text = v] = [block |-> b, text |-> v, open |-> o]
  OBVIOUS

\* Records of blocks.
LEMMA BlockTyped ==
    ASSUME NEW b \in Names, NEW t \in AnyText
    PROVE  Opened(b, t) \in BlockRecords /\ Stopped(b, t) \in BlockRecords
  BY DEF Opened, Stopped, BlockRecords, Names, AnyText

\* An open block says what it is.
LEMMA BlockFields ==
    ASSUME NEW b, NEW t
    PROVE  Opened(b, t).open = TRUE /\ Opened(b, t).block = b /\ Opened(b, t).text = t
  BY DEF Opened

\* What a client makes of a block.
LEMMA BlockFed ==
    ASSUME NEW b, NEW t, NEW u
    PROVE  Fed(Opened(b, t), u) = Opened(b, t \o u)
  <1>a. PICK r : r = Opened(b, t)
    OBVIOUS
  <1>b. PICK yes : yes = TRUE
    OBVIOUS
  <1>d. r = [block |-> b, text |-> t, open |-> yes]
    BY <1>a, <1>b DEF Opened
  <1>1. PICK v : v = t \o u
    OBVIOUS
  <1>2. [r EXCEPT !.text = v] = [block |-> b, text |-> v, open |-> yes]
    BY <1>d, BlockChanged
  <1>3. [r EXCEPT !.text = v] = Opened(b, v)
    BY Zenon, <1>2, <1>b DEF Opened
  <1>4. Opened(b, t).text = t
    BY ZenonT(60), BlockFields
  <1>5. Fed(Opened(b, t), u) = [r EXCEPT !.text = v]
    BY Zenon, <1>4, <1>a, <1>1 DEF Fed
  <1> QED
    BY Zenon, <1>1, <1>3, <1>5

\* What a client makes of the end of a block.
LEMMA BlockClosed ==
    ASSUME NEW b, NEW t
    PROVE  Closed(Opened(b, t)) = Stopped(b, t)
  <1>a. PICK r : r = Opened(b, t)
    OBVIOUS
  <1>b. PICK yes : yes = TRUE
    OBVIOUS
  <1>c. PICK no : no = FALSE
    OBVIOUS
  <1>d. r = [block |-> b, text |-> t, open |-> yes]
    BY <1>a, <1>b DEF Opened
  <1>1. [r EXCEPT !.open = no] = [block |-> b, text |-> t, open |-> no]
    BY <1>d, BlockChanged
  <1> QED
    BY Zenon, <1>1, <1>a, <1>c DEF Stopped, Closed

\* A client adds to an open block.
LEMMA ReceivesDelta ==
    ASSUME NEW B \in Seq(BlockRecords), NEW i \in 1..Len(B), NEW b, NEW t, NEW u, B[i] = Opened(b, t)
    PROVE  Receive(Reads(B), Event("delta", i - 1, b, u)) = Reads([B EXCEPT ![i] = Opened(b, t \o u)])
  <1> DEFINE e == Event("delta", i - 1, b, u)
             c == Reads(B)
  <1>1. e.kind = "delta" /\ e.index + 1 = i /\ e.text = u /\ e.block = b
    BY DEF Event
  <1>2. c.blocks = B /\ c.ok = TRUE
    BY DEF Reads
  <1>0. B[i].open = TRUE /\ B[i].block = b
    <2>1. Opened(b, t).open = TRUE /\ Opened(b, t).block = b
      BY BlockFields
    <2> QED
      BY <2>1
  <1>3. i \in DOMAIN c.blocks
    BY <1>2
  <1>4. Receive(c, e) = [blocks |-> [c.blocks EXCEPT ![i] = Fed(@, e.text)],
                         ok |-> c.ok /\ c.blocks[i].open /\ c.blocks[i].block = e.block]
    <2> HIDE DEF e, c
    <2> QED BY <1>1, <1>3 DEF Receive
  <1>5. (c.ok /\ c.blocks[i].open /\ c.blocks[i].block = e.block) = TRUE
    <2> HIDE DEF e, c
    <2> QED BY <1>0, <1>1, <1>2
  <1> QED
    <2>1. Reads([B EXCEPT ![i] = Fed(B[i], u)]) = [blocks |-> [c.blocks EXCEPT ![i] = Fed(@, e.text)], ok |-> TRUE]
      <3> HIDE DEF e, c
      <3> QED BY Zenon, <1>1, <1>2 DEF Reads
    <2> HIDE DEF e, c
    <2>2. Receive(c, e) = Reads([B EXCEPT ![i] = Fed(B[i], u)])
      BY Zenon, <1>4, <1>5, <2>1
    <2>3. Fed(B[i], u) = Opened(b, t \o u)
      BY Zenon, BlockFed
    <2> QED BY Zenon, <2>2, <2>3 DEF e, c

\* A client closes an open block.
LEMMA ReceivesStop ==
    ASSUME NEW B \in Seq(BlockRecords), NEW i \in 1..Len(B), NEW b, NEW t, NEW u, B[i] = Opened(b, t)
    PROVE  Receive(Reads(B), Event("stop", i - 1, b, u)) = Reads([B EXCEPT ![i] = Stopped(b, t)])
  <1> DEFINE e == Event("stop", i - 1, b, u)
             c == Reads(B)
  <1>1. e.kind = "stop" /\ e.index + 1 = i
    BY DEF Event
  <1>2. c.blocks = B /\ c.ok = TRUE
    BY DEF Reads
  <1>0. B[i].open = TRUE /\ B[i].block = b
    <2>1. Opened(b, t).open = TRUE /\ Opened(b, t).block = b
      BY BlockFields
    <2> QED
      BY <2>1
  <1>3. i \in DOMAIN c.blocks
    BY <1>2
  <1>4. Receive(c, e) = [blocks |-> [c.blocks EXCEPT ![i] = Closed(@)],
                         ok |-> c.ok /\ c.blocks[i].open]
    <2> HIDE DEF e, c
    <2> QED BY <1>1, <1>3 DEF Receive
  <1>5. (c.ok /\ c.blocks[i].open) = TRUE
    <2> HIDE DEF e, c
    <2> QED BY <1>0, <1>1, <1>2
  <1>6. Reads([B EXCEPT ![i] = Closed(B[i])]) = [blocks |-> [c.blocks EXCEPT ![i] = Closed(@)], ok |-> TRUE]
    <2> HIDE DEF e, c
    <2> QED BY Zenon, <1>1, <1>2 DEF Reads
  <1> HIDE DEF e, c
  <1>7. Receive(c, e) = Reads([B EXCEPT ![i] = Closed(B[i])])
    BY Zenon, <1>4, <1>5, <1>6
  <1>8. Closed(B[i]) = Stopped(b, t)
    BY Zenon, BlockClosed
  <1> QED BY Zenon, <1>7, <1>8 DEF e, c

\* Three blocks.
LEMMA TripleAppended ==
    ASSUME NEW x \in BlockRecords, NEW y \in BlockRecords, NEW z \in BlockRecords
    PROVE  Append(<<x, y>>, z) = <<x, y, z>>
  <1>1. <<x, y>> \in Seq(BlockRecords) /\ Len(<<x, y>>) = 2
    OBVIOUS
  <1>2. PICK s : s = Append(<<x, y>>, z)
    OBVIOUS
  <1>3. s \in Seq(BlockRecords) /\ Len(s) = 3
    BY <1>1, <1>2
  <1>4. s[1] = x /\ s[2] = y /\ s[3] = z
    BY <1>1, <1>2
  <1>5. s = <<x, y, z>>
    BY <1>3, <1>4
  <1> QED
    BY <1>2, <1>5

\* One and two blocks, with the last of them changed.
LEMMA ChangedLast ==
    ASSUME NEW x \in BlockRecords, NEW y \in BlockRecords, NEW z \in BlockRecords, NEW u
    PROVE  /\ <<x>> \in Seq(BlockRecords) /\ <<x, y>> \in Seq(BlockRecords) /\ <<x, y, z>> \in Seq(BlockRecords)
           /\ Len(<<x>>) = 1 /\ Len(<<x, y>>) = 2 /\ Len(<<x, y, z>>) = 3
           /\ <<x>>[1] = x /\ <<x, y>>[1] = x /\ <<x, y>>[2] = y
           /\ <<x, y, z>>[1] = x /\ <<x, y, z>>[2] = y /\ <<x, y, z>>[3] = z
           /\ Append(<<>>, x) = <<x>> /\ Append(<<x>>, y) = <<x, y>> /\ Append(<<x, y>>, z) = <<x, y, z>>
           /\ [<<x>> EXCEPT ![1] = u] = <<u>>
           /\ [<<x, y>> EXCEPT ![1] = u] = <<u, y>> /\ [<<x, y>> EXCEPT ![2] = u] = <<x, u>>
           /\ [<<x, y, z>> EXCEPT ![3] = u] = <<x, y, u>>
  <1>1. /\ <<x>> \in Seq(BlockRecords) /\ <<x, y>> \in Seq(BlockRecords) /\ <<x, y, z>> \in Seq(BlockRecords)
        /\ Len(<<x>>) = 1 /\ Len(<<x, y>>) = 2 /\ Len(<<x, y, z>>) = 3
        /\ <<x>>[1] = x /\ <<x, y>>[1] = x /\ <<x, y>>[2] = y
        /\ <<x, y, z>>[1] = x /\ <<x, y, z>>[2] = y /\ <<x, y, z>>[3] = z
    OBVIOUS
  <1>2. Append(<<>>, x) = <<x>> /\ Append(<<x>>, y) = <<x, y>> /\ Append(<<x, y>>, z) = <<x, y, z>>
    <2>1. Append(<<>>, x) = <<x>>
      OBVIOUS
    <2>2. Append(<<x>>, y) = <<x, y>>
      <3>1. <<x>> \in Seq(BlockRecords) /\ Len(<<x>>) = 1 /\ <<x>>[1] = x
        OBVIOUS
      <3>2. PICK s : s = Append(<<x>>, y)
        OBVIOUS
      <3>3. s \in Seq(BlockRecords) /\ Len(s) = 2
        BY <3>1, <3>2
      <3>4. s[1] = x /\ s[2] = y
        BY <3>1, <3>2
      <3>5. s = <<x, y>>
        BY <3>3, <3>4
      <3> QED
        BY <3>2, <3>5
    <2>3. Append(<<x, y>>, z) = <<x, y, z>>
      BY TripleAppended
    <2> QED
      BY <2>1, <2>2, <2>3
  <1>3. [<<x>> EXCEPT ![1] = u] = <<u>>
    OBVIOUS
  <1>4. [<<x, y>> EXCEPT ![1] = u] = <<u, y>>
    OBVIOUS
  <1>5. [<<x, y>> EXCEPT ![2] = u] = <<x, u>>
    OBVIOUS
  <1>6. [<<x, y, z>> EXCEPT ![3] = u] = <<x, y, u>>
    <2>1. DOMAIN <<x, y, z>> = 1..3 /\ DOMAIN <<x, y, u>> = 1..3
      OBVIOUS
    <2>2. \A i \in 1..3 : i = 1 \/ i = 2 \/ i = 3
      OBVIOUS
    <2>3. \A i \in 1..3 : [<<x, y, z>> EXCEPT ![3] = u][i] = <<x, y, u>>[i]
      BY <2>1, <2>2
    <2> QED
      BY <2>1, <2>3
  <1> QED
    BY <1>1, <1>2, <1>3, <1>4, <1>5, <1>6

\* The first block.
LEMMA ReadsFirst ==
    ASSUME NEW b \in Names, NEW t \in AnyText, NEW u \in AnyText
    PROVE  /\ Receive(Reads(<<Opened(b, t)>>), Event("delta", 0, b, u)) = Reads(<<Opened(b, t \o u)>>)
           /\ Receive(Reads(<<Opened(b, t)>>), Event("stop", 0, b, u)) = Reads(<<Stopped(b, t)>>)
           /\ Receive(Reads(<<>>), Event("start", 0, b, t)) = Reads(<<Opened(b, t)>>)
  <1>1. PICK o : o = Opened(b, t)
    OBVIOUS
  <1>2. o \in BlockRecords
    BY BlockTyped, <1>1
  <1>3. PICK B : B = <<o>>
    OBVIOUS
  <1>4. B \in Seq(BlockRecords) /\ 1 \in 1..Len(B)
    BY <1>2, <1>3, ChangedLast
  <1>5. B[1] = Opened(b, t)
    BY <1>1, <1>2, <1>3, ChangedLast
  <1>6. Receive(Reads(B), Event("delta", 1 - 1, b, u)) = Reads([B EXCEPT ![1] = Opened(b, t \o u)])
    BY <1>4, <1>5, ReceivesDelta
  <1>6a. Receive(Reads(B), Event("stop", 1 - 1, b, u)) = Reads([B EXCEPT ![1] = Stopped(b, t)])
    BY <1>4, <1>5, ReceivesStop
  <1>7. [B EXCEPT ![1] = Opened(b, t \o u)] = <<Opened(b, t \o u)>>
    BY <1>2, <1>3, ChangedLast
  <1>8. [B EXCEPT ![1] = Stopped(b, t)] = <<Stopped(b, t)>>
    BY <1>2, <1>3, ChangedLast
  <1>9. 1 - 1 = 0
    OBVIOUS
  <1>10. Receive(Reads(<<>>), Event("start", 0, b, t)) = Reads(<<Opened(b, t)>>)
    <2>1. <<>> \in Seq(BlockRecords) /\ Len(<<>>) = 0
      BY ChangedLast
    <2>2. Receive(Reads(<<>>), Event("start", Len(<<>>), b, t)) = Reads(Append(<<>>, Opened(b, t)))
      BY <2>1, ReceivesStart
    <2>3. Append(<<>>, o) = <<o>>
      BY <1>2, ChangedLast
    <2> QED
      BY Zenon, <1>1, <2>1, <2>2, <2>3
  <1> QED
    BY Zenon, <1>1, <1>3, <1>6, <1>6a, <1>7, <1>8, <1>9, <1>10

\* The second block.
LEMMA ReadsSecond ==
    ASSUME NEW x \in BlockRecords, NEW b \in Names, NEW t \in AnyText, NEW u \in AnyText
    PROVE  /\ Receive(Reads(<<x, Opened(b, t)>>), Event("delta", 1, b, u)) = Reads(<<x, Opened(b, t \o u)>>)
           /\ Receive(Reads(<<x, Opened(b, t)>>), Event("stop", 1, b, u)) = Reads(<<x, Stopped(b, t)>>)
           /\ Receive(Reads(<<x>>), Event("start", 1, b, t)) = Reads(<<x, Opened(b, t)>>)
  <1>1. PICK o : o = Opened(b, t)
    OBVIOUS
  <1>2. o \in BlockRecords
    BY BlockTyped, <1>1
  <1>3. PICK B : B = <<x, o>>
    OBVIOUS
  <1>4. B \in Seq(BlockRecords) /\ 2 \in 1..Len(B)
    BY <1>2, <1>3, ChangedLast
  <1>5. B[2] = Opened(b, t)
    BY <1>1, <1>2, <1>3, ChangedLast
  <1>6. Receive(Reads(B), Event("delta", 2 - 1, b, u)) = Reads([B EXCEPT ![2] = Opened(b, t \o u)])
    BY <1>4, <1>5, ReceivesDelta
  <1>6a. Receive(Reads(B), Event("stop", 2 - 1, b, u)) = Reads([B EXCEPT ![2] = Stopped(b, t)])
    BY <1>4, <1>5, ReceivesStop
  <1>7. [B EXCEPT ![2] = Opened(b, t \o u)] = <<x, Opened(b, t \o u)>>
    BY <1>2, <1>3, ChangedLast
  <1>8. [B EXCEPT ![2] = Stopped(b, t)] = <<x, Stopped(b, t)>>
    BY <1>2, <1>3, ChangedLast
  <1>9. 2 - 1 = 1
    OBVIOUS
  <1>10. Receive(Reads(<<x>>), Event("start", 1, b, t)) = Reads(<<x, Opened(b, t)>>)
    <2>1. <<x>> \in Seq(BlockRecords) /\ Len(<<x>>) = 1
      BY ChangedLast
    <2>2. Receive(Reads(<<x>>), Event("start", Len(<<x>>), b, t)) = Reads(Append(<<x>>, Opened(b, t)))
      BY <2>1, ReceivesStart
    <2>3. Append(<<x>>, o) = <<x, o>>
      BY <1>2, ChangedLast
    <2> QED
      BY Zenon, <1>1, <2>1, <2>2, <2>3
  <1> QED
    BY Zenon, <1>1, <1>3, <1>6, <1>6a, <1>7, <1>8, <1>9, <1>10

\* The third block.
LEMMA ReadsThird ==
    ASSUME NEW x \in BlockRecords, NEW y \in BlockRecords, NEW b \in Names, NEW t \in AnyText, NEW u \in AnyText
    PROVE  /\ Receive(Reads(<<x, y, Opened(b, t)>>), Event("delta", 2, b, u)) = Reads(<<x, y, Opened(b, t \o u)>>)
           /\ Receive(Reads(<<x, y, Opened(b, t)>>), Event("stop", 2, b, u)) = Reads(<<x, y, Stopped(b, t)>>)
           /\ Receive(Reads(<<x, y>>), Event("start", 2, b, t)) = Reads(<<x, y, Opened(b, t)>>)
  <1>1. PICK o : o = Opened(b, t)
    OBVIOUS
  <1>2. o \in BlockRecords
    BY BlockTyped, <1>1
  <1>3. PICK B : B = <<x, y, o>>
    OBVIOUS
  <1>4. B \in Seq(BlockRecords) /\ 3 \in 1..Len(B)
    BY <1>2, <1>3, ChangedLast
  <1>5. B[3] = Opened(b, t)
    BY <1>1, <1>2, <1>3, ChangedLast
  <1>6. Receive(Reads(B), Event("delta", 3 - 1, b, u)) = Reads([B EXCEPT ![3] = Opened(b, t \o u)])
    BY <1>4, <1>5, ReceivesDelta
  <1>6a. Receive(Reads(B), Event("stop", 3 - 1, b, u)) = Reads([B EXCEPT ![3] = Stopped(b, t)])
    BY <1>4, <1>5, ReceivesStop
  <1>7. [B EXCEPT ![3] = Opened(b, t \o u)] = <<x, y, Opened(b, t \o u)>>
    BY <1>2, <1>3, ChangedLast
  <1>8. [B EXCEPT ![3] = Stopped(b, t)] = <<x, y, Stopped(b, t)>>
    BY <1>2, <1>3, ChangedLast
  <1>9. 3 - 1 = 2
    OBVIOUS
  <1>10. Receive(Reads(<<x, y>>), Event("start", 2, b, t)) = Reads(<<x, y, Opened(b, t)>>)
    <2>1. <<x, y>> \in Seq(BlockRecords) /\ Len(<<x, y>>) = 2
      BY ChangedLast
    <2>2. Receive(Reads(<<x, y>>), Event("start", Len(<<x, y>>), b, t)) = Reads(Append(<<x, y>>, Opened(b, t)))
      BY <2>1, ReceivesStart
    <2>3. Append(<<x, y>>, o) = <<x, y, o>>
      BY <1>2, TripleAppended
    <2> QED
      BY Zenon, <1>1, <2>1, <2>2, <2>3
  <1> QED
    BY Zenon, <1>1, <1>3, <1>6, <1>6a, <1>7, <1>8, <1>9, <1>10

\* The first of two blocks.
LEMMA ReadsEarlier ==
    ASSUME NEW y \in BlockRecords, NEW b \in Names, NEW t \in AnyText, NEW u \in AnyText
    PROVE  /\ Receive(Reads(<<Opened(b, t), y>>), Event("delta", 0, b, u)) = Reads(<<Opened(b, t \o u), y>>)
           /\ Receive(Reads(<<Opened(b, t), y>>), Event("stop", 0, b, u)) = Reads(<<Stopped(b, t), y>>)
  <1>1. PICK o : o = Opened(b, t)
    OBVIOUS
  <1>2. o \in BlockRecords
    BY BlockTyped, <1>1
  <1>3. PICK B : B = <<o, y>>
    OBVIOUS
  <1>4. B \in Seq(BlockRecords) /\ 1 \in 1..Len(B)
    BY <1>2, <1>3, ChangedLast
  <1>5. B[1] = Opened(b, t)
    BY <1>1, <1>2, <1>3, ChangedLast
  <1>6. Receive(Reads(B), Event("delta", 1 - 1, b, u)) = Reads([B EXCEPT ![1] = Opened(b, t \o u)])
    BY <1>4, <1>5, ReceivesDelta
  <1>6a. Receive(Reads(B), Event("stop", 1 - 1, b, u)) = Reads([B EXCEPT ![1] = Stopped(b, t)])
    BY <1>4, <1>5, ReceivesStop
  <1>7. [B EXCEPT ![1] = Opened(b, t \o u)] = <<Opened(b, t \o u), y>>
    BY <1>2, <1>3, ChangedLast
  <1>8. [B EXCEPT ![1] = Stopped(b, t)] = <<Stopped(b, t), y>>
    BY <1>2, <1>3, ChangedLast
  <1>9. 1 - 1 = 0
    OBVIOUS
  <1> QED
    BY Zenon, <1>1, <1>3, <1>6, <1>6a, <1>7, <1>8, <1>9

-----------------------------------------------------------------------------
(* The Responses stream.                                                      *)

Resp(items, client) == [items |-> items, client |-> client]

\* Where an item is among the items.
LEMMA ItemIndexIs ==
    ASSUME NEW items, NEW b, NEW i \in DOMAIN items, items[i] = b,
           \A j \in DOMAIN items : items[j] = b => j = i
    PROVE  ItemIndex(items, b) = i - 1
  BY DEF ItemIndex

\* The items that there can be.
LEMMA ItemIndexes ==
    ASSUME NEW a, NEW b, NEW c, a # b, a # c, b # c
    PROVE  /\ ItemIndex(<<a>>, a) = 0
           /\ ItemIndex(<<a, b>>, a) = 0 /\ ItemIndex(<<a, b>>, b) = 1
           /\ ItemIndex(<<a, b, c>>, c) = 2
           /\ a \notin ToSet(<<>>) /\ a \in ToSet(<<a>>) /\ b \notin ToSet(<<a>>)
           /\ a \in ToSet(<<a, b>>) /\ b \in ToSet(<<a, b>>) /\ c \notin ToSet(<<a, b>>)
  <1>1. /\ DOMAIN <<>> = {} /\ DOMAIN <<a>> = {1} /\ DOMAIN <<a, b>> = {1, 2} /\ DOMAIN <<a, b, c>> = {1, 2, 3}
        /\ <<a>>[1] = a /\ <<a, b>>[1] = a /\ <<a, b>>[2] = b
        /\ <<a, b, c>>[1] = a /\ <<a, b, c>>[2] = b /\ <<a, b, c>>[3] = c
    OBVIOUS
  <1>2. 1 - 1 = 0 /\ 2 - 1 = 1 /\ 3 - 1 = 2 /\ 1 # 2 /\ 2 # 3 /\ 1 # 3
    OBVIOUS
  <1>3. ItemIndex(<<a>>, a) = 0
    BY <1>1, <1>2, ItemIndexIs
  <1>4. ItemIndex(<<a, b>>, a) = 0
    BY <1>1, <1>2, ItemIndexIs
  <1>5. ItemIndex(<<a, b>>, b) = 1
    BY <1>1, <1>2, ItemIndexIs
  <1>6. ItemIndex(<<a, b, c>>, c) = 2
    BY <1>1, <1>2, ItemIndexIs
  <1>7. a \notin ToSet(<<>>) /\ a \in ToSet(<<a>>) /\ b \notin ToSet(<<a>>)
    BY <1>1 DEF ToSet
  <1>8. a \in ToSet(<<a, b>>) /\ b \in ToSet(<<a, b>>) /\ c \notin ToSet(<<a, b>>)
    BY <1>1 DEF ToSet
  <1> QED
    BY <1>3, <1>4, <1>5, <1>6, <1>7, <1>8

\* An event of an item.
LEMMA OfItemIs ==
    ASSUME NEW items, NEW client, NEW kind, NEW b, NEW t
    PROVE  OfItem(Resp(items, client), kind, b, t)
              = Resp(items, Receive(client, Event(kind, ItemIndex(items, b), b, t)))
  <1>1. PICK r : r = Resp(items, client)
    OBVIOUS
  <1>2. r = [items |-> items, client |-> client] /\ r.items = items /\ r.client = client
    BY <1>1 DEF Resp
  <1>3. PICK x : x = Receive(client, Event(kind, ItemIndex(items, b), b, t))
    OBVIOUS
  <1>4. [r EXCEPT !.client = x] = [items |-> items, client |-> x]
    BY <1>2
  <1>5. OfItem(r, kind, b, t) = [r EXCEPT !.client = Receive(r.client, Event(kind, ItemIndex(r.items, b), b, t))]
    BY Zenon DEF OfItem
  <1>6. Receive(r.client, Event(kind, ItemIndex(r.items, b), b, t)) = x
    BY Zenon, <1>2, <1>3
  <1>7. OfItem(r, kind, b, t) = [r EXCEPT !.client = x]
    BY Zenon, <1>5, <1>6
  <1> QED
    BY Zenon, <1>1, <1>3, <1>4, <1>7 DEF Resp

\* An item that is there is not added, another is.
LEMMA AddIs ==
    ASSUME NEW items, NEW client, NEW b
    PROVE  /\ b \in ToSet(items) => ResponsesAdd(Resp(items, client), b) = Resp(items, client)
           /\ b \notin ToSet(items) =>
                 ResponsesAdd(Resp(items, client), b)
                    = Resp(Append(items, b),
                           Receive(client, Event("start", ItemIndex(Append(items, b), b), b, <<>>)))
  <1>1. PICK r : r = Resp(items, client)
    OBVIOUS
  <1>2. r = [items |-> items, client |-> client] /\ r.items = items
    BY <1>1 DEF Resp
  <1>3. PICK more : more = Append(items, b)
    OBVIOUS
  <1>4. [r EXCEPT !.items = more] = [items |-> more, client |-> client]
    BY <1>2
  <1>5. b \in ToSet(items) => ResponsesAdd(r, b) = r
    BY Zenon, <1>2 DEF ResponsesAdd
  <1>6. b \notin ToSet(items) => ResponsesAdd(r, b) = OfItem([r EXCEPT !.items = Append(r.items, b)], "start", b, <<>>)
    BY Zenon, <1>2 DEF ResponsesAdd
  <1>7. [r EXCEPT !.items = Append(r.items, b)] = Resp(more, client)
    <2>1. [r EXCEPT !.items = Append(r.items, b)] = [r EXCEPT !.items = more]
      BY Zenon, <1>2, <1>3
    <2> QED
      BY Zenon, <2>1, <1>4 DEF Resp
  <1>8. OfItem(Resp(more, client), "start", b, <<>>)
           = Resp(more, Receive(client, Event("start", ItemIndex(more, b), b, <<>>)))
    BY OfItemIs
  <1> QED
    BY Zenon, <1>1, <1>3, <1>5, <1>6, <1>7, <1>8

\* The stream when R and then C was streamed.
RespNames(R, C) ==
    IF R = <<>> THEN (IF C = <<>> THEN <<>> ELSE <<"content">>)
    ELSE IF C = <<>> THEN <<"reasoning">> ELSE <<"reasoning", "content">>
RespBlocks(R, C) ==
    IF R = <<>> THEN (IF C = <<>> THEN <<>> ELSE <<Opened("content", C)>>)
    ELSE IF C = <<>> THEN <<Opened("reasoning", R)>> ELSE <<Opened("reasoning", R), Opened("content", C)>>
RespOf(R, C) == Resp(RespNames(R, C), Reads(RespBlocks(R, C)))

Delta(ch, t) == [channel |-> ch, text |-> t]

\* Texts are texts of blocks, and longer with a piece that is not empty.
LEMMA TextFacts ==
    ASSUME NEW t \in Texts, NEW u \in Texts
    PROVE  /\ t \in AnyText /\ <<>> \in AnyText /\ <<>> \in Texts /\ t \o u \in Texts /\ t \o u \in AnyText
           /\ <<>> \o u = u /\ t \o <<>> = t /\ (u # <<>> => t \o u # <<>>)
  <1>1. t \in AnyText /\ u \in AnyText /\ <<>> \in AnyText /\ <<>> \in Texts
    BY DEF Texts, AnyText
  <1>2. t \o u \in Texts
    BY DEF Texts
  <1>3. t \o u \in AnyText
    BY <1>1 DEF AnyText
  <1>4. <<>> \o u = u /\ t \o <<>> = t
    BY DEF Texts
  <1>5. u # <<>> => t \o u # <<>>
    <2>1. Len(t \o u) = Len(t) + Len(u) /\ Len(t) \in Nat /\ Len(u) \in Nat
      BY DEF Texts
    <2>2. u # <<>> => Len(u) > 0
      BY DEF Texts
    <2>3. Len(<<>>) = 0
      OBVIOUS
    <2> QED
      BY <2>1, <2>2, <2>3
  <1> QED
    BY <1>1, <1>2, <1>3, <1>4, <1>5

\* A delta of an item that is known.
LEMMA DeltaKnown ==
    ASSUME NEW items, NEW client, NEW b, NEW t, NEW i, b \in ToSet(items), ItemIndex(items, b) = i
    PROVE  ResponsesDelta(Resp(items, client), Delta(b, t))
              = Resp(items, Receive(client, Event("delta", i, b, t)))
  <1>1. Delta(b, t).channel = b /\ Delta(b, t).text = t
    BY DEF Delta
  <1>2. ResponsesDelta(Resp(items, client), Delta(b, t))
          = OfItem(ResponsesAdd(Resp(items, client), b), "delta", b, t)
    BY Zenon, <1>1 DEF ResponsesDelta
  <1>3. ResponsesAdd(Resp(items, client), b) = Resp(items, client)
    BY AddIs
  <1>4. OfItem(Resp(items, client), "delta", b, t)
          = Resp(items, Receive(client, Event("delta", ItemIndex(items, b), b, t)))
    BY OfItemIs
  <1> QED
    BY Zenon, <1>2, <1>3, <1>4

\* A delta of an item that is new.
LEMMA DeltaNew ==
    ASSUME NEW items, NEW client, NEW b, NEW t, b \notin ToSet(items)
    PROVE  ResponsesDelta(Resp(items, client), Delta(b, t))
              = Resp(Append(items, b),
                     Receive(Receive(client, Event("start", ItemIndex(Append(items, b), b), b, <<>>)),
                             Event("delta", ItemIndex(Append(items, b), b), b, t)))
  <1>1. Delta(b, t).channel = b /\ Delta(b, t).text = t
    BY DEF Delta
  <1>2. ResponsesDelta(Resp(items, client), Delta(b, t))
          = OfItem(ResponsesAdd(Resp(items, client), b), "delta", b, t)
    BY Zenon, <1>1 DEF ResponsesDelta
  <1> DEFINE c == Receive(client, Event("start", ItemIndex(Append(items, b), b), b, <<>>))
  <1>3. ResponsesAdd(Resp(items, client), b) = Resp(Append(items, b), c)
    BY AddIs
  <1>4. OfItem(Resp(Append(items, b), c), "delta", b, t)
          = Resp(Append(items, b), Receive(c, Event("delta", ItemIndex(Append(items, b), b), b, t)))
    <2> HIDE DEF c
    <2> QED BY OfItemIs
  <1> QED
    BY Zenon, <1>2, <1>3, <1>4

\* The names of blocks are different.
LEMMA NamesDiffer ==
    /\ "reasoning" \in Names /\ "content" \in Names /\ "call" \in Names
    /\ "reasoning" # "content" /\ "reasoning" # "call" /\ "content" # "call"
  BY DEF Names

\* One more item.
LEMMA ItemAppended ==
    ASSUME NEW a, NEW b, NEW c
    PROVE  Append(<<>>, a) = <<a>> /\ Append(<<a>>, b) = <<a, b>> /\ Append(<<a, b>>, c) = <<a, b, c>>
  <1>1. Append(<<>>, a) = <<a>>
    OBVIOUS
  <1>2. Append(<<a>>, b) = <<a, b>>
    <2>1. PICK s : s = Append(<<a>>, b)
      OBVIOUS
    <2>2. <<a>> \in Seq({a, b}) /\ b \in {a, b}
      OBVIOUS
    <2>3. s \in Seq({a, b}) /\ Len(s) = 2
      BY <2>1, <2>2
    <2>4. s[1] = a /\ s[2] = b
      BY <2>1, <2>2
    <2>5. s = <<a, b>>
      BY <2>3, <2>4
    <2> QED
      BY <2>1, <2>5
  <1>3. Append(<<a, b>>, c) = <<a, b, c>>
    <2>1. PICK s : s = Append(<<a, b>>, c)
      OBVIOUS
    <2>2. <<a, b>> \in Seq({a, b, c}) /\ c \in {a, b, c} /\ Len(<<a, b>>) = 2
      OBVIOUS
    <2>3. s \in Seq({a, b, c}) /\ Len(s) = 3
      BY <2>1, <2>2
    <2>4. s[1] = a /\ s[2] = b /\ s[3] = c
      BY <2>1, <2>2
    <2>5. s = <<a, b, c>>
      BY <2>3, <2>4
    <2> QED
      BY <2>1, <2>5
  <1> QED
    BY <1>1, <1>2, <1>3

\* The Responses client while text is streamed.
LEMMA ResponsesStreams ==
    ASSUME NEW R \in Texts, NEW C \in Texts, NEW t \in Texts, t # <<>>
    PROVE  /\ C = <<>> => ResponsesDelta(RespOf(R, C), Delta("reasoning", t)) = RespOf(R \o t, C)
           /\ ResponsesDelta(RespOf(R, C), Delta("content", t)) = RespOf(R, C \o t)
  <1>0. /\ "reasoning" \in Names /\ "content" \in Names /\ "reasoning" # "content"
        /\ "call" # "reasoning" /\ "call" # "content"
    BY NamesDiffer
  <1>1. /\ R \in AnyText /\ C \in AnyText /\ t \in AnyText /\ <<>> \in AnyText
        /\ R \o t # <<>> /\ C \o t # <<>> /\ <<>> \o t = t
    BY TextFacts
  <1>2. ASSUME C = <<>>, R = <<>>
        PROVE  ResponsesDelta(RespOf(R, C), Delta("reasoning", t)) = RespOf(R \o t, C)
    <2>1. RespOf(R, C) = Resp(<<>>, Reads(<<>>))
      BY Zenon, <1>2 DEF RespOf, RespNames, RespBlocks
    <2>2. RespOf(R \o t, C) = Resp(<<"reasoning">>, Reads(<<Opened("reasoning", <<>> \o t)>>))
      BY Zenon, <1>1, <1>2 DEF RespOf, RespNames, RespBlocks
    <2>3. "reasoning" \notin ToSet(<<>>) /\ Append(<<>>, "reasoning") = <<"reasoning">> /\ ItemIndex(<<"reasoning">>, "reasoning") = 0
      BY <1>0, ItemIndexes, ItemAppended
    <2>4. Receive(Reads(<<>>), Event("start", 0, "reasoning", <<>>)) = Reads(<<Opened("reasoning", <<>>)>>)
      BY <1>0, <1>1, ReadsFirst
    <2>5. Receive(Reads(<<Opened("reasoning", <<>>)>>), Event("delta", 0, "reasoning", t)) = Reads(<<Opened("reasoning", <<>> \o t)>>)
      BY <1>0, <1>1, ReadsFirst
    <2>6. ResponsesDelta(Resp(<<>>, Reads(<<>>)), Delta("reasoning", t))
            = Resp(Append(<<>>, "reasoning"), Receive(Receive(Reads(<<>>), Event("start", ItemIndex(Append(<<>>, "reasoning"), "reasoning"), "reasoning", <<>>)),
                   Event("delta", ItemIndex(Append(<<>>, "reasoning"), "reasoning"), "reasoning", t)))
      <3>1. PICK none : none = <<>>
        OBVIOUS
      <3>2. "reasoning" \notin ToSet(none)
        BY Zenon, <2>3, <3>1
      <3>3. PICK c : c = Reads(<<>>)
        OBVIOUS
      <3>4. ResponsesDelta(Resp(none, c), Delta("reasoning", t))
               = Resp(Append(none, "reasoning"), Receive(Receive(c, Event("start", ItemIndex(Append(none, "reasoning"), "reasoning"), "reasoning", <<>>)),
                      Event("delta", ItemIndex(Append(none, "reasoning"), "reasoning"), "reasoning", t)))
        BY <3>2, DeltaNew
      <3> QED
        BY Zenon, <3>1, <3>3, <3>4
    <2> QED
      BY Zenon, <2>1, <2>2, <2>3, <2>4, <2>5, <2>6
  <1>3. ASSUME C = <<>>, R # <<>>
        PROVE  ResponsesDelta(RespOf(R, C), Delta("reasoning", t)) = RespOf(R \o t, C)
    <2>1. RespOf(R, C) = Resp(<<"reasoning">>, Reads(<<Opened("reasoning", R)>>))
      BY Zenon, <1>3 DEF RespOf, RespNames, RespBlocks
    <2>2. RespOf(R \o t, C) = Resp(<<"reasoning">>, Reads(<<Opened("reasoning", R \o t)>>))
      BY Zenon, <1>1, <1>3 DEF RespOf, RespNames, RespBlocks
    <2>3. "reasoning" \in ToSet(<<"reasoning">>) /\ ItemIndex(<<"reasoning">>, "reasoning") = 0
      BY <1>0, ItemIndexes
    <2>5. Receive(Reads(<<Opened("reasoning", R)>>), Event("delta", 0, "reasoning", t)) = Reads(<<Opened("reasoning", R \o t)>>)
      BY <1>0, <1>1, ReadsFirst
    <2>6. ResponsesDelta(Resp(<<"reasoning">>, Reads(<<Opened("reasoning", R)>>)), Delta("reasoning", t))
            = Resp(<<"reasoning">>, Receive(Reads(<<Opened("reasoning", R)>>), Event("delta", 0, "reasoning", t)))
      BY <2>3, DeltaKnown
    <2> QED
      BY Zenon, <2>1, <2>2, <2>5, <2>6
  <1>4. ASSUME C = <<>>, R = <<>>
        PROVE  ResponsesDelta(RespOf(R, C), Delta("content", t)) = RespOf(R, C \o t)
    <2>1. RespOf(R, C) = Resp(<<>>, Reads(<<>>))
      BY Zenon, <1>4 DEF RespOf, RespNames, RespBlocks
    <2>2. RespOf(R, C \o t) = Resp(<<"content">>, Reads(<<Opened("content", <<>> \o t)>>))
      BY Zenon, <1>1, <1>4 DEF RespOf, RespNames, RespBlocks
    <2>3. "content" \notin ToSet(<<>>) /\ Append(<<>>, "content") = <<"content">> /\ ItemIndex(<<"content">>, "content") = 0
      BY <1>0, ItemIndexes, ItemAppended
    <2>4. Receive(Reads(<<>>), Event("start", 0, "content", <<>>)) = Reads(<<Opened("content", <<>>)>>)
      BY <1>0, <1>1, ReadsFirst
    <2>5. Receive(Reads(<<Opened("content", <<>>)>>), Event("delta", 0, "content", t)) = Reads(<<Opened("content", <<>> \o t)>>)
      BY <1>0, <1>1, ReadsFirst
    <2>6. ResponsesDelta(Resp(<<>>, Reads(<<>>)), Delta("content", t))
            = Resp(Append(<<>>, "content"), Receive(Receive(Reads(<<>>), Event("start", ItemIndex(Append(<<>>, "content"), "content"), "content", <<>>)),
                   Event("delta", ItemIndex(Append(<<>>, "content"), "content"), "content", t)))
      <3>1. PICK none : none = <<>>
        OBVIOUS
      <3>2. "content" \notin ToSet(none)
        BY Zenon, <2>3, <3>1
      <3>3. PICK c : c = Reads(<<>>)
        OBVIOUS
      <3>4. ResponsesDelta(Resp(none, c), Delta("content", t))
               = Resp(Append(none, "content"), Receive(Receive(c, Event("start", ItemIndex(Append(none, "content"), "content"), "content", <<>>)),
                      Event("delta", ItemIndex(Append(none, "content"), "content"), "content", t)))
        BY <3>2, DeltaNew
      <3> QED
        BY Zenon, <3>1, <3>3, <3>4
    <2> QED
      BY Zenon, <2>1, <2>2, <2>3, <2>4, <2>5, <2>6
  <1>5. ASSUME C # <<>>, R = <<>>
        PROVE  ResponsesDelta(RespOf(R, C), Delta("content", t)) = RespOf(R, C \o t)
    <2>1. RespOf(R, C) = Resp(<<"content">>, Reads(<<Opened("content", C)>>))
      BY Zenon, <1>5 DEF RespOf, RespNames, RespBlocks
    <2>2. RespOf(R, C \o t) = Resp(<<"content">>, Reads(<<Opened("content", C \o t)>>))
      BY Zenon, <1>1, <1>5 DEF RespOf, RespNames, RespBlocks
    <2>3. "content" \in ToSet(<<"content">>) /\ ItemIndex(<<"content">>, "content") = 0
      BY <1>0, ItemIndexes
    <2>5. Receive(Reads(<<Opened("content", C)>>), Event("delta", 0, "content", t)) = Reads(<<Opened("content", C \o t)>>)
      BY <1>0, <1>1, ReadsFirst
    <2>6. ResponsesDelta(Resp(<<"content">>, Reads(<<Opened("content", C)>>)), Delta("content", t))
            = Resp(<<"content">>, Receive(Reads(<<Opened("content", C)>>), Event("delta", 0, "content", t)))
      BY <2>3, DeltaKnown
    <2> QED
      BY Zenon, <2>1, <2>2, <2>5, <2>6
  <1>6. ASSUME C = <<>>, R # <<>>
        PROVE  ResponsesDelta(RespOf(R, C), Delta("content", t)) = RespOf(R, C \o t)
    <2>1. RespOf(R, C) = Resp(<<"reasoning">>, Reads(<<Opened("reasoning", R)>>))
      BY Zenon, <1>6 DEF RespOf, RespNames, RespBlocks
    <2>2. RespOf(R, C \o t) = Resp(<<"reasoning", "content">>, Reads(<<Opened("reasoning", R), Opened("content", <<>> \o t)>>))
      BY Zenon, <1>1, <1>6 DEF RespOf, RespNames, RespBlocks
    <2>3. /\ "content" \notin ToSet(<<"reasoning">>) /\ Append(<<"reasoning">>, "content") = <<"reasoning", "content">>
          /\ ItemIndex(<<"reasoning", "content">>, "content") = 1
      <3>1. Append(<<"reasoning">>, "content") = <<"reasoning", "content">>
        BY ItemAppended
      <3> QED
        BY ZenonT(60), <3>1, <1>0, ItemIndexes
    <2>a. PICK x : x = Opened("reasoning", R)
      OBVIOUS
    <2>b. x \in BlockRecords
      BY <2>a, <1>0, <1>1, BlockTyped
    <2>4. Receive(Reads(<<x>>), Event("start", 1, "content", <<>>)) = Reads(<<x, Opened("content", <<>>)>>)
      BY <2>b, <1>0, <1>1, ReadsSecond
    <2>5. Receive(Reads(<<x, Opened("content", <<>>)>>), Event("delta", 1, "content", t)) = Reads(<<x, Opened("content", <<>> \o t)>>)
      BY ZenonT(60), <2>b, <1>0, <1>1, ReadsSecond
    <2>6. ResponsesDelta(Resp(<<"reasoning">>, Reads(<<x>>)), Delta("content", t))
            = Resp(Append(<<"reasoning">>, "content"), Receive(Receive(Reads(<<x>>), Event("start", ItemIndex(Append(<<"reasoning">>, "content"), "content"), "content", <<>>)),
                   Event("delta", ItemIndex(Append(<<"reasoning">>, "content"), "content"), "content", t)))
      BY <2>3, DeltaNew
    <2> QED
      BY Zenon, <2>a, <2>1, <2>2, <2>3, <2>4, <2>5, <2>6
  <1>7. ASSUME C # <<>>, R # <<>>
        PROVE  ResponsesDelta(RespOf(R, C), Delta("content", t)) = RespOf(R, C \o t)
    <2>1. RespOf(R, C) = Resp(<<"reasoning", "content">>, Reads(<<Opened("reasoning", R), Opened("content", C)>>))
      BY Zenon, <1>7 DEF RespOf, RespNames, RespBlocks
    <2>2. RespOf(R, C \o t) = Resp(<<"reasoning", "content">>, Reads(<<Opened("reasoning", R), Opened("content", C \o t)>>))
      BY Zenon, <1>1, <1>7 DEF RespOf, RespNames, RespBlocks
    <2>3. /\ "content" \in ToSet(<<"reasoning", "content">>)
          /\ ItemIndex(<<"reasoning", "content">>, "content") = 1
      BY ZenonT(60), <1>0, ItemIndexes
    <2>a. PICK x : x = Opened("reasoning", R)
      OBVIOUS
    <2>b. x \in BlockRecords
      BY <2>a, <1>0, <1>1, BlockTyped
    <2>5. Receive(Reads(<<x, Opened("content", C)>>), Event("delta", 1, "content", t)) = Reads(<<x, Opened("content", C \o t)>>)
      BY ZenonT(60), <2>b, <1>0, <1>1, ReadsSecond
    <2>6. ResponsesDelta(Resp(<<"reasoning", "content">>, Reads(<<x, Opened("content", C)>>)), Delta("content", t))
            = Resp(<<"reasoning", "content">>, Receive(Reads(<<x, Opened("content", C)>>), Event("delta", 1, "content", t)))
      BY <2>3, DeltaKnown
    <2> QED
      BY Zenon, <2>a, <2>1, <2>2, <2>5, <2>6
  <1> QED
    BY Zenon, <1>2, <1>3, <1>4, <1>5, <1>6, <1>7

-----------------------------------------------------------------------------
(* The Messages stream.                                                       *)

Anth(i, thinking, text1, gaveThinking, gaveText, client) ==
    [index |-> i, thinkingOpen |-> thinking, textOpen |-> text1,
     emittedThinking |-> gaveThinking, emittedText |-> gaveText, client |-> client]

\* The client of the stream changed.
LEMMA AnthClient ==
    ASSUME NEW i, NEW th, NEW tx, NEW eth, NEW etx, NEW c, NEW v,
           NEW r, r = Anth(i, th, tx, eth, etx, c)
    PROVE  [r EXCEPT !.client = v] = Anth(i, th, tx, eth, etx, v)
  BY DEF Anth

\* The index of the stream changed.
LEMMA AnthIndex ==
    ASSUME NEW i, NEW th, NEW tx, NEW eth, NEW etx, NEW c, NEW v,
           NEW r, r = Anth(i, th, tx, eth, etx, c)
    PROVE  [r EXCEPT !.index = v] = Anth(v, th, tx, eth, etx, c)
  BY DEF Anth

\* Thinking opened or closed.
LEMMA AnthThinking ==
    ASSUME NEW i, NEW th, NEW tx, NEW eth, NEW etx, NEW c, NEW v,
           NEW r, r = Anth(i, th, tx, eth, etx, c)
    PROVE  [r EXCEPT !.thinkingOpen = v] = Anth(i, v, tx, eth, etx, c)
  BY DEF Anth

\* The text opened or closed.
LEMMA AnthText ==
    ASSUME NEW i, NEW th, NEW tx, NEW eth, NEW etx, NEW c, NEW v,
           NEW r, r = Anth(i, th, tx, eth, etx, c)
    PROVE  [r EXCEPT !.textOpen = v] = Anth(i, th, v, eth, etx, c)
  BY DEF Anth

\* Thinking was given.
LEMMA AnthThought ==
    ASSUME NEW i, NEW th, NEW tx, NEW eth, NEW etx, NEW c, NEW v,
           NEW r, r = Anth(i, th, tx, eth, etx, c)
    PROVE  [r EXCEPT !.emittedThinking = v] = Anth(i, th, tx, v, etx, c)
  BY DEF Anth

\* Text was given.
LEMMA AnthSaid ==
    ASSUME NEW i, NEW th, NEW tx, NEW eth, NEW etx, NEW c, NEW v,
           NEW r, r = Anth(i, th, tx, eth, etx, c)
    PROVE  [r EXCEPT !.emittedText = v] = Anth(i, th, tx, eth, v, c)
  BY DEF Anth

\* The fields of the stream.
LEMMA AnthFields ==
    ASSUME NEW i, NEW th \in BOOLEAN, NEW tx \in BOOLEAN, NEW eth \in BOOLEAN, NEW etx \in BOOLEAN, NEW c
    PROVE  /\ Anth(i, th, tx, eth, etx, c).index = i /\ Anth(i, th, tx, eth, etx, c).client = c
           /\ Anth(i, th, tx, eth, etx, c).thinkingOpen = th /\ Anth(i, th, tx, eth, etx, c).textOpen = tx
           /\ Anth(i, th, tx, eth, etx, c).emittedThinking = eth /\ Anth(i, th, tx, eth, etx, c).emittedText = etx
  BY DEF Anth

\* An event of the block at the index.
LEMMA PushIs ==
    ASSUME NEW i, NEW th \in BOOLEAN, NEW tx \in BOOLEAN, NEW eth \in BOOLEAN, NEW etx \in BOOLEAN, NEW c,
           NEW kind, NEW b, NEW t
    PROVE  Push(Anth(i, th, tx, eth, etx, c), kind, b, t)
              = Anth(i, th, tx, eth, etx, Receive(c, Event(kind, i, b, t)))
  <1>1. PICK r : r = Anth(i, th, tx, eth, etx, c)
    OBVIOUS
  <1>2. PICK x : x = Receive(c, Event(kind, i, b, t))
    OBVIOUS
  <1>3. r.index = i /\ r.client = c
    BY <1>1, AnthFields
  <1>4. Push(r, kind, b, t) = [r EXCEPT !.client = x]
    BY Zenon, <1>2, <1>3 DEF Push
  <1>5. [r EXCEPT !.client = x] = Anth(i, th, tx, eth, etx, x)
    BY <1>1, AnthClient
  <1> QED
    BY Zenon, <1>1, <1>2, <1>4, <1>5

\* Thinking is open.
LEMMA EnsureThinkingIs ==
    ASSUME NEW i, NEW th \in BOOLEAN, NEW tx \in BOOLEAN, NEW eth \in BOOLEAN, NEW etx \in BOOLEAN, NEW c
    PROVE  /\ th = TRUE => EnsureThinking(Anth(i, th, tx, eth, etx, c)) = Anth(i, th, tx, eth, etx, c)
           /\ th = FALSE => EnsureThinking(Anth(i, th, tx, eth, etx, c))
                 = Anth(i, TRUE, tx, TRUE, etx, Receive(c, Event("start", i, "reasoning", <<>>)))
  <1>1. PICK a : a = Anth(i, th, tx, eth, etx, c)
    OBVIOUS
  <1>2. a.thinkingOpen = th /\ a.index = i
    BY <1>1, AnthFields
  <1>3. PICK x : x = Receive(c, Event("start", i, "reasoning", <<>>))
    OBVIOUS
  <1>4. PICK p : p = Push(a, "start", "reasoning", <<>>)
    OBVIOUS
  <1>5. p = Anth(i, th, tx, eth, etx, x)
    BY <1>1, <1>3, <1>4, PushIs
  <1>6. PICK v : v = TRUE
    OBVIOUS
  <1>7. PICK w : w = TRUE
    OBVIOUS
  <1>8. p.index = i
    BY <1>5, AnthFields
  <1>9. th = FALSE => EnsureThinking(a) = [p EXCEPT !.thinkingOpen = v, !.emittedThinking = w]
    BY <1>2, <1>4, <1>6, <1>7, <1>8 DEF EnsureThinking
  <1>10. [p EXCEPT !.thinkingOpen = v, !.emittedThinking = w] = Anth(i, v, tx, w, etx, x)
    <2>1. PICK q : q = [p EXCEPT !.thinkingOpen = v]
      OBVIOUS
    <2>2. q = Anth(i, v, tx, eth, etx, x)
      BY <2>1, <1>5, AnthThinking
    <2>3. [q EXCEPT !.emittedThinking = w] = Anth(i, v, tx, w, etx, x)
      BY <2>2, AnthThought
    <2>4. [[p EXCEPT !.thinkingOpen = v] EXCEPT !.emittedThinking = w] = [p EXCEPT !.thinkingOpen = v, !.emittedThinking = w]
      OBVIOUS
    <2> QED
      BY Zenon, <2>1, <2>3, <2>4
  <1>11. th = TRUE => EnsureThinking(a) = a
    BY <1>2 DEF EnsureThinking
  <1> QED
    BY Zenon, <1>1, <1>3, <1>6, <1>7, <1>9, <1>10, <1>11

\* The text is open.
LEMMA EnsureTextIs ==
    ASSUME NEW i, NEW th \in BOOLEAN, NEW tx \in BOOLEAN, NEW eth \in BOOLEAN, NEW etx \in BOOLEAN, NEW c
    PROVE  /\ tx = TRUE => EnsureText(Anth(i, th, tx, eth, etx, c)) = Anth(i, th, tx, eth, etx, c)
           /\ tx = FALSE => EnsureText(Anth(i, th, tx, eth, etx, c))
                 = Anth(i, th, TRUE, eth, TRUE, Receive(c, Event("start", i, "content", <<>>)))
  <1>1. PICK a : a = Anth(i, th, tx, eth, etx, c)
    OBVIOUS
  <1>2. a.textOpen = tx /\ a.index = i
    BY <1>1, AnthFields
  <1>3. PICK x : x = Receive(c, Event("start", i, "content", <<>>))
    OBVIOUS
  <1>4. PICK p : p = Push(a, "start", "content", <<>>)
    OBVIOUS
  <1>5. p = Anth(i, th, tx, eth, etx, x)
    BY <1>1, <1>3, <1>4, PushIs
  <1>6. PICK v : v = TRUE
    OBVIOUS
  <1>7. PICK w : w = TRUE
    OBVIOUS
  <1>8. p.index = i
    BY <1>5, AnthFields
  <1>9. tx = FALSE => EnsureText(a) = [p EXCEPT !.textOpen = v, !.emittedText = w]
    BY <1>2, <1>4, <1>6, <1>7, <1>8 DEF EnsureText
  <1>10. [p EXCEPT !.textOpen = v, !.emittedText = w] = Anth(i, th, v, eth, w, x)
    <2>1. PICK q : q = [p EXCEPT !.textOpen = v]
      OBVIOUS
    <2>2. q = Anth(i, th, v, eth, etx, x)
      BY <2>1, <1>5, AnthText
    <2>3. [q EXCEPT !.emittedText = w] = Anth(i, th, v, eth, w, x)
      BY <2>2, AnthSaid
    <2>4. [[p EXCEPT !.textOpen = v] EXCEPT !.emittedText = w] = [p EXCEPT !.textOpen = v, !.emittedText = w]
      OBVIOUS
    <2> QED
      BY Zenon, <2>1, <2>3, <2>4
  <1>11. tx = TRUE => EnsureText(a) = a
    BY <1>2 DEF EnsureText
  <1> QED
    BY Zenon, <1>1, <1>3, <1>6, <1>7, <1>9, <1>10, <1>11

\* Thinking is closed.
LEMMA CloseThinkingIs ==
    ASSUME NEW th \in BOOLEAN, NEW tx \in BOOLEAN, NEW eth \in BOOLEAN, NEW etx \in BOOLEAN, NEW c
    PROVE  /\ th = FALSE => CloseThinking(Anth(0, th, tx, eth, etx, c)) = Anth(0, th, tx, eth, etx, c)
           /\ th = TRUE => CloseThinking(Anth(0, th, tx, eth, etx, c))
                 = Anth(1, FALSE, tx, eth, etx, Receive(c, Event("stop", 0, "reasoning", <<>>)))
  <1>1. PICK a : a = Anth(0, th, tx, eth, etx, c)
    OBVIOUS
  <1>2. a.thinkingOpen = th /\ a.index = 0
    BY <1>1, AnthFields
  <1>3. PICK x : x = Receive(c, Event("stop", 0, "reasoning", <<>>))
    OBVIOUS
  <1>4. PICK p : p = Push(a, "stop", "reasoning", <<>>)
    OBVIOUS
  <1>5. p = Anth(0, th, tx, eth, etx, x)
    BY <1>1, <1>3, <1>4, PushIs
  <1>6. PICK v : v = 1 /\ v = 0 + 1
    OBVIOUS
  <1>7. PICK w : w = FALSE
    OBVIOUS
  <1>8. p.index = 0
    BY <1>5, AnthFields
  <1>9. th = TRUE => CloseThinking(a) = [p EXCEPT !.index = v, !.thinkingOpen = w]
    BY <1>2, <1>4, <1>6, <1>7, <1>8 DEF CloseThinking
  <1>10. [p EXCEPT !.index = v, !.thinkingOpen = w] = Anth(v, w, tx, eth, etx, x)
    <2>1. PICK q : q = [p EXCEPT !.index = v]
      OBVIOUS
    <2>2. q = Anth(v, th, tx, eth, etx, x)
      BY <2>1, <1>5, AnthIndex
    <2>3. [q EXCEPT !.thinkingOpen = w] = Anth(v, w, tx, eth, etx, x)
      BY <2>2, AnthThinking
    <2>4. [[p EXCEPT !.index = v] EXCEPT !.thinkingOpen = w] = [p EXCEPT !.index = v, !.thinkingOpen = w]
      OBVIOUS
    <2> QED
      BY Zenon, <2>1, <2>3, <2>4
  <1>11. th = FALSE => CloseThinking(a) = a
    BY <1>2 DEF CloseThinking
  <1> QED
    BY Zenon, <1>1, <1>3, <1>6, <1>7, <1>9, <1>10, <1>11

\* The text is closed.
LEMMA CloseTextFirst ==
    ASSUME NEW th \in BOOLEAN, NEW tx \in BOOLEAN, NEW eth \in BOOLEAN, NEW etx \in BOOLEAN, NEW c
    PROVE  /\ tx = FALSE => CloseText(Anth(0, th, tx, eth, etx, c)) = Anth(0, th, tx, eth, etx, c)
           /\ tx = TRUE => CloseText(Anth(0, th, tx, eth, etx, c))
                 = Anth(1, th, FALSE, eth, etx, Receive(c, Event("stop", 0, "content", <<>>)))
  <1>1. PICK a : a = Anth(0, th, tx, eth, etx, c)
    OBVIOUS
  <1>2. a.textOpen = tx /\ a.index = 0
    BY <1>1, AnthFields
  <1>3. PICK x : x = Receive(c, Event("stop", 0, "content", <<>>))
    OBVIOUS
  <1>4. PICK p : p = Push(a, "stop", "content", <<>>)
    OBVIOUS
  <1>5. p = Anth(0, th, tx, eth, etx, x)
    BY <1>1, <1>3, <1>4, PushIs
  <1>6. PICK v : v = 1 /\ v = 0 + 1
    OBVIOUS
  <1>7. PICK w : w = FALSE
    OBVIOUS
  <1>8. p.index = 0
    BY <1>5, AnthFields
  <1>9. tx = TRUE => CloseText(a) = [p EXCEPT !.index = v, !.textOpen = w]
    BY <1>2, <1>4, <1>6, <1>7, <1>8 DEF CloseText
  <1>10. [p EXCEPT !.index = v, !.textOpen = w] = Anth(v, th, w, eth, etx, x)
    <2>1. PICK q : q = [p EXCEPT !.index = v]
      OBVIOUS
    <2>2. q = Anth(v, th, tx, eth, etx, x)
      BY <2>1, <1>5, AnthIndex
    <2>3. [q EXCEPT !.textOpen = w] = Anth(v, th, w, eth, etx, x)
      BY <2>2, AnthText
    <2>4. [[p EXCEPT !.index = v] EXCEPT !.textOpen = w] = [p EXCEPT !.index = v, !.textOpen = w]
      OBVIOUS
    <2> QED
      BY Zenon, <2>1, <2>3, <2>4
  <1>11. tx = FALSE => CloseText(a) = a
    BY <1>2 DEF CloseText
  <1> QED
    BY Zenon, <1>1, <1>3, <1>6, <1>7, <1>9, <1>10, <1>11

\* The text that follows a block is closed.
LEMMA CloseTextSecond ==
    ASSUME NEW th \in BOOLEAN, NEW tx \in BOOLEAN, NEW eth \in BOOLEAN, NEW etx \in BOOLEAN, NEW c
    PROVE  /\ tx = FALSE => CloseText(Anth(1, th, tx, eth, etx, c)) = Anth(1, th, tx, eth, etx, c)
           /\ tx = TRUE => CloseText(Anth(1, th, tx, eth, etx, c))
                 = Anth(2, th, FALSE, eth, etx, Receive(c, Event("stop", 1, "content", <<>>)))
  <1>1. PICK a : a = Anth(1, th, tx, eth, etx, c)
    OBVIOUS
  <1>2. a.textOpen = tx /\ a.index = 1
    BY <1>1, AnthFields
  <1>3. PICK x : x = Receive(c, Event("stop", 1, "content", <<>>))
    OBVIOUS
  <1>4. PICK p : p = Push(a, "stop", "content", <<>>)
    OBVIOUS
  <1>5. p = Anth(1, th, tx, eth, etx, x)
    BY <1>1, <1>3, <1>4, PushIs
  <1>6. PICK v : v = 2 /\ v = 1 + 1
    OBVIOUS
  <1>7. PICK w : w = FALSE
    OBVIOUS
  <1>8. p.index = 1
    BY <1>5, AnthFields
  <1>9. tx = TRUE => CloseText(a) = [p EXCEPT !.index = v, !.textOpen = w]
    BY <1>2, <1>4, <1>6, <1>7, <1>8 DEF CloseText
  <1>10. [p EXCEPT !.index = v, !.textOpen = w] = Anth(v, th, w, eth, etx, x)
    <2>1. PICK q : q = [p EXCEPT !.index = v]
      OBVIOUS
    <2>2. q = Anth(v, th, tx, eth, etx, x)
      BY <2>1, <1>5, AnthIndex
    <2>3. [q EXCEPT !.textOpen = w] = Anth(v, th, w, eth, etx, x)
      BY <2>2, AnthText
    <2>4. [[p EXCEPT !.index = v] EXCEPT !.textOpen = w] = [p EXCEPT !.index = v, !.textOpen = w]
      OBVIOUS
    <2> QED
      BY Zenon, <2>1, <2>3, <2>4
  <1>11. tx = FALSE => CloseText(a) = a
    BY <1>2 DEF CloseText
  <1> QED
    BY Zenon, <1>1, <1>3, <1>6, <1>7, <1>9, <1>10, <1>11

\* The stream when R and then C was streamed.
AnthOf(R, C) ==
    IF C = <<>> THEN (IF R = <<>> THEN Anth(0, FALSE, FALSE, FALSE, FALSE, Reads(<<>>))
                      ELSE Anth(0, TRUE, FALSE, TRUE, FALSE, Reads(<<Opened("reasoning", R)>>)))
    ELSE IF R = <<>> THEN Anth(0, FALSE, TRUE, FALSE, TRUE, Reads(<<Opened("content", C)>>))
    ELSE Anth(1, FALSE, TRUE, TRUE, TRUE, Reads(<<Stopped("reasoning", R), Opened("content", C)>>))

\* What a delta of each channel is to the stream.
LEMMA AnthDeltaIs ==
    ASSUME NEW a, NEW t
    PROVE  /\ AnthropicDelta(a, Delta("reasoning", t)) = Push(EnsureThinking(a), "delta", "reasoning", t)
           /\ AnthropicDelta(a, Delta("content", t)) = Push(EnsureText(CloseThinking(a)), "delta", "content", t)
  <1>1. /\ Delta("reasoning", t).channel = "reasoning" /\ Delta("reasoning", t).text = t
        /\ Delta("content", t).channel = "content" /\ Delta("content", t).text = t
    BY DEF Delta
  <1>2. AnthropicDelta(a, Delta("reasoning", t)) = Push(EnsureThinking(a), "delta", "reasoning", t)
    BY Zenon, <1>1 DEF AnthropicDelta
  <1>3. "content" # "reasoning"
    OBVIOUS
  <1>4. AnthropicDelta(a, Delta("content", t)) = Push(EnsureText(CloseThinking(a)), "delta", "content", t)
    BY Zenon, <1>1, <1>3 DEF AnthropicDelta
  <1> QED
    BY <1>2, <1>4

\* The Messages client while text is streamed.
LEMMA AnthropicStreams ==
    ASSUME NEW R \in Texts, NEW C \in Texts, NEW t \in Texts, t # <<>>
    PROVE  /\ C = <<>> => AnthropicDelta(AnthOf(R, C), Delta("reasoning", t)) = AnthOf(R \o t, C)
           /\ AnthropicDelta(AnthOf(R, C), Delta("content", t)) = AnthOf(R, C \o t)
  <1>0. "reasoning" \in Names /\ "content" \in Names
    BY NamesDiffer
  <1>1. /\ R \in AnyText /\ C \in AnyText /\ t \in AnyText /\ <<>> \in AnyText
        /\ R \o t # <<>> /\ C \o t # <<>> /\ <<>> \o t = t
    BY TextFacts
  <1>a. PICK yes \in BOOLEAN : yes = TRUE
    OBVIOUS
  <1>b. PICK no \in BOOLEAN : no = FALSE
    OBVIOUS
  <1>2. ASSUME C = <<>>, R = <<>>
        PROVE  AnthropicDelta(AnthOf(R, C), Delta("reasoning", t)) = AnthOf(R \o t, C)
    <2>1. AnthOf(R, C) = Anth(0, no, no, no, no, Reads(<<>>))
      BY Zenon, <1>a, <1>b, <1>2 DEF AnthOf
    <2>2. AnthOf(R \o t, C) = Anth(0, yes, no, yes, no, Reads(<<Opened("reasoning", <<>> \o t)>>))
      BY Zenon, <1>a, <1>b, <1>1, <1>2 DEF AnthOf
    <2>3. Receive(Reads(<<>>), Event("start", 0, "reasoning", <<>>)) = Reads(<<Opened("reasoning", <<>>)>>)
      BY <1>0, <1>1, ReadsFirst
    <2>4. EnsureThinking(Anth(0, no, no, no, no, Reads(<<>>))) = Anth(0, yes, no, yes, no, Receive(Reads(<<>>), Event("start", 0, "reasoning", <<>>)))
      BY ZenonT(60), <1>a, <1>b, EnsureThinkingIs
    <2>5. Receive(Reads(<<Opened("reasoning", <<>>)>>), Event("delta", 0, "reasoning", t)) = Reads(<<Opened("reasoning", <<>> \o t)>>)
      BY <1>0, <1>1, ReadsFirst
    <2>6. Push(Anth(0, yes, no, yes, no, Reads(<<Opened("reasoning", <<>>)>>)), "delta", "reasoning", t)
            = Anth(0, yes, no, yes, no, Receive(Reads(<<Opened("reasoning", <<>>)>>), Event("delta", 0, "reasoning", t)))
      BY PushIs
    <2> QED
      BY Zenon, AnthDeltaIs, <2>1, <2>2, <2>3, <2>4, <2>5, <2>6
  <1>3. ASSUME C = <<>>, R # <<>>
        PROVE  AnthropicDelta(AnthOf(R, C), Delta("reasoning", t)) = AnthOf(R \o t, C)
    <2>1. AnthOf(R, C) = Anth(0, yes, no, yes, no, Reads(<<Opened("reasoning", R)>>))
      BY Zenon, <1>a, <1>b, <1>3 DEF AnthOf
    <2>2. AnthOf(R \o t, C) = Anth(0, yes, no, yes, no, Reads(<<Opened("reasoning", R \o t)>>))
      BY Zenon, <1>a, <1>b, <1>1, <1>3 DEF AnthOf
    <2>3. EnsureThinking(Anth(0, yes, no, yes, no, Reads(<<Opened("reasoning", R)>>))) = Anth(0, yes, no, yes, no, Reads(<<Opened("reasoning", R)>>))
      <3>1. PICK a : a = Anth(0, yes, no, yes, no, Reads(<<Opened("reasoning", R)>>))
        OBVIOUS
      <3>2. a.thinkingOpen = TRUE
        BY <1>a, <1>b, <3>1, AnthFields
      <3>3. EnsureThinking(a) = a
        BY Zenon, <3>2 DEF EnsureThinking
      <3> QED
        BY Zenon, <3>1, <3>3
    <2>4. Receive(Reads(<<Opened("reasoning", R)>>), Event("delta", 0, "reasoning", t)) = Reads(<<Opened("reasoning", R \o t)>>)
      BY <1>0, <1>1, ReadsFirst
    <2>5. Push(Anth(0, yes, no, yes, no, Reads(<<Opened("reasoning", R)>>)), "delta", "reasoning", t)
            = Anth(0, yes, no, yes, no, Receive(Reads(<<Opened("reasoning", R)>>), Event("delta", 0, "reasoning", t)))
      BY PushIs
    <2> QED
      BY Zenon, AnthDeltaIs, <2>1, <2>2, <2>3, <2>4, <2>5
  <1>4. ASSUME C = <<>>, R = <<>>
        PROVE  AnthropicDelta(AnthOf(R, C), Delta("content", t)) = AnthOf(R, C \o t)
    <2>1. AnthOf(R, C) = Anth(0, no, no, no, no, Reads(<<>>))
      BY Zenon, <1>a, <1>b, <1>4 DEF AnthOf
    <2>2. AnthOf(R, C \o t) = Anth(0, no, yes, no, yes, Reads(<<Opened("content", <<>> \o t)>>))
      BY Zenon, <1>a, <1>b, <1>1, <1>4 DEF AnthOf
    <2>3. CloseThinking(Anth(0, no, no, no, no, Reads(<<>>))) = Anth(0, no, no, no, no, Reads(<<>>))
      <3>1. PICK a : a = Anth(0, no, no, no, no, Reads(<<>>))
        OBVIOUS
      <3>2. a.thinkingOpen = FALSE
        BY <1>a, <1>b, <3>1, AnthFields
      <3>3. CloseThinking(a) = a
        BY Zenon, <3>2 DEF CloseThinking
      <3> QED
        BY Zenon, <3>1, <3>3
    <2>4. Receive(Reads(<<>>), Event("start", 0, "content", <<>>)) = Reads(<<Opened("content", <<>>)>>)
      BY <1>0, <1>1, ReadsFirst
    <2>5. EnsureText(Anth(0, no, no, no, no, Reads(<<>>))) = Anth(0, no, yes, no, yes, Receive(Reads(<<>>), Event("start", 0, "content", <<>>)))
      BY ZenonT(60), <1>a, <1>b, EnsureTextIs
    <2>6. Receive(Reads(<<Opened("content", <<>>)>>), Event("delta", 0, "content", t)) = Reads(<<Opened("content", <<>> \o t)>>)
      BY <1>0, <1>1, ReadsFirst
    <2>7. Push(Anth(0, no, yes, no, yes, Reads(<<Opened("content", <<>>)>>)), "delta", "content", t)
            = Anth(0, no, yes, no, yes, Receive(Reads(<<Opened("content", <<>>)>>), Event("delta", 0, "content", t)))
      BY PushIs
    <2> QED
      BY Zenon, AnthDeltaIs, <2>1, <2>2, <2>3, <2>4, <2>5, <2>6, <2>7
  <1>5. ASSUME C # <<>>, R = <<>>
        PROVE  AnthropicDelta(AnthOf(R, C), Delta("content", t)) = AnthOf(R, C \o t)
    <2>1. AnthOf(R, C) = Anth(0, no, yes, no, yes, Reads(<<Opened("content", C)>>))
      BY Zenon, <1>a, <1>b, <1>5 DEF AnthOf
    <2>2. AnthOf(R, C \o t) = Anth(0, no, yes, no, yes, Reads(<<Opened("content", C \o t)>>))
      BY Zenon, <1>a, <1>b, <1>1, <1>5 DEF AnthOf
    <2>3. CloseThinking(Anth(0, no, yes, no, yes, Reads(<<Opened("content", C)>>))) = Anth(0, no, yes, no, yes, Reads(<<Opened("content", C)>>))
      <3>1. PICK a : a = Anth(0, no, yes, no, yes, Reads(<<Opened("content", C)>>))
        OBVIOUS
      <3>2. a.thinkingOpen = FALSE
        BY <1>a, <1>b, <3>1 DEF Anth
      <3>3. CloseThinking(a) = a
        BY Zenon, <3>2 DEF CloseThinking
      <3> QED
        BY Zenon, <3>1, <3>3
    <2>4. EnsureText(Anth(0, no, yes, no, yes, Reads(<<Opened("content", C)>>))) = Anth(0, no, yes, no, yes, Reads(<<Opened("content", C)>>))
      <3>1. PICK a : a = Anth(0, no, yes, no, yes, Reads(<<Opened("content", C)>>))
        OBVIOUS
      <3>2. a.textOpen = TRUE
        BY <1>a, <1>b, <3>1, AnthFields
      <3>3. EnsureText(a) = a
        BY Zenon, <3>2 DEF EnsureText
      <3> QED
        BY Zenon, <3>1, <3>3
    <2>5. Receive(Reads(<<Opened("content", C)>>), Event("delta", 0, "content", t)) = Reads(<<Opened("content", C \o t)>>)
      BY <1>0, <1>1, ReadsFirst
    <2>6. Push(Anth(0, no, yes, no, yes, Reads(<<Opened("content", C)>>)), "delta", "content", t)
            = Anth(0, no, yes, no, yes, Receive(Reads(<<Opened("content", C)>>), Event("delta", 0, "content", t)))
      BY PushIs
    <2> QED
      BY Zenon, AnthDeltaIs, <2>1, <2>2, <2>3, <2>4, <2>5, <2>6
  <1>6. ASSUME C = <<>>, R # <<>>
        PROVE  AnthropicDelta(AnthOf(R, C), Delta("content", t)) = AnthOf(R, C \o t)
    <2>z. PICK z \in BlockRecords : z = Stopped("reasoning", R)
      BY <1>0, <1>1, BlockTyped
    <2>1. AnthOf(R, C) = Anth(0, yes, no, yes, no, Reads(<<Opened("reasoning", R)>>))
      BY Zenon, <1>a, <1>b, <1>6, <2>z DEF AnthOf
    <2>2. AnthOf(R, C \o t) = Anth(1, no, yes, yes, yes, Reads(<<z, Opened("content", <<>> \o t)>>))
      BY Zenon, <1>a, <1>b, <1>1, <1>6, <2>z DEF AnthOf
    <2>3. Receive(Reads(<<Opened("reasoning", R)>>), Event("stop", 0, "reasoning", <<>>)) = Reads(<<z>>)
      BY Zenon, <1>0, <1>1, <2>z, ReadsFirst
    <2>4. CloseThinking(Anth(0, yes, no, yes, no, Reads(<<Opened("reasoning", R)>>))) = Anth(1, no, no, yes, no, Receive(Reads(<<Opened("reasoning", R)>>), Event("stop", 0, "reasoning", <<>>)))
      BY Zenon, <1>a, <1>b, CloseThinkingIs
    <2>5. Receive(Reads(<<z>>), Event("start", 1, "content", <<>>)) = Reads(<<z, Opened("content", <<>>)>>)
      BY <1>0, <1>1, <2>z, ReadsSecond
    <2>6. EnsureText(Anth(1, no, no, yes, no, Reads(<<z>>))) = Anth(1, no, yes, yes, yes, Receive(Reads(<<z>>), Event("start", 1, "content", <<>>)))
      BY ZenonT(60), <1>a, <1>b, EnsureTextIs
    <2>7. Receive(Reads(<<z, Opened("content", <<>>)>>), Event("delta", 1, "content", t)) = Reads(<<z, Opened("content", <<>> \o t)>>)
      BY ZenonT(60), <1>0, <1>1, <2>z, ReadsSecond
    <2>8. Push(Anth(1, no, yes, yes, yes, Reads(<<z, Opened("content", <<>>)>>)), "delta", "content", t)
            = Anth(1, no, yes, yes, yes, Receive(Reads(<<z, Opened("content", <<>>)>>), Event("delta", 1, "content", t)))
      BY PushIs
    <2> QED
      BY Zenon, AnthDeltaIs, <2>z, <2>1, <2>2, <2>3, <2>4, <2>5, <2>6, <2>7, <2>8
  <1>7. ASSUME C # <<>>, R # <<>>
        PROVE  AnthropicDelta(AnthOf(R, C), Delta("content", t)) = AnthOf(R, C \o t)
    <2>z. PICK z \in BlockRecords : z = Stopped("reasoning", R)
      BY <1>0, <1>1, BlockTyped
    <2>1. AnthOf(R, C) = Anth(1, no, yes, yes, yes, Reads(<<z, Opened("content", C)>>))
      BY Zenon, <1>a, <1>b, <1>7, <2>z DEF AnthOf
    <2>2. AnthOf(R, C \o t) = Anth(1, no, yes, yes, yes, Reads(<<z, Opened("content", C \o t)>>))
      BY Zenon, <1>a, <1>b, <1>1, <1>7, <2>z DEF AnthOf
    <2>3. CloseThinking(Anth(1, no, yes, yes, yes, Reads(<<z, Opened("content", C)>>))) = Anth(1, no, yes, yes, yes, Reads(<<z, Opened("content", C)>>))
      <3>1. PICK a : a = Anth(1, no, yes, yes, yes, Reads(<<z, Opened("content", C)>>))
        OBVIOUS
      <3>2. a.thinkingOpen = FALSE
        BY <1>a, <1>b, <3>1 DEF Anth
      <3>3. CloseThinking(a) = a
        BY Zenon, <3>2 DEF CloseThinking
      <3> QED
        BY Zenon, <3>1, <3>3
    <2>4. EnsureText(Anth(1, no, yes, yes, yes, Reads(<<z, Opened("content", C)>>))) = Anth(1, no, yes, yes, yes, Reads(<<z, Opened("content", C)>>))
      <3>1. PICK a : a = Anth(1, no, yes, yes, yes, Reads(<<z, Opened("content", C)>>))
        OBVIOUS
      <3>2. a.textOpen = TRUE
        BY <1>a, <1>b, <3>1, AnthFields
      <3>3. EnsureText(a) = a
        BY Zenon, <3>2 DEF EnsureText
      <3> QED
        BY Zenon, <3>1, <3>3
    <2>5. Receive(Reads(<<z, Opened("content", C)>>), Event("delta", 1, "content", t)) = Reads(<<z, Opened("content", C \o t)>>)
      BY ZenonT(60), <1>0, <1>1, <2>z, ReadsSecond
    <2>6. Push(Anth(1, no, yes, yes, yes, Reads(<<z, Opened("content", C)>>)), "delta", "content", t)
            = Anth(1, no, yes, yes, yes, Receive(Reads(<<z, Opened("content", C)>>), Event("delta", 1, "content", t)))
      BY PushIs
    <2> QED
      BY Zenon, AnthDeltaIs, <2>1, <2>2, <2>3, <2>4, <2>5, <2>6
  <1> QED
    BY Zenon, <1>2, <1>3, <1>4, <1>5, <1>6, <1>7

-----------------------------------------------------------------------------
(* The three streams together, and their end.                                 *)

\* Sequences of the same length and elements are one.
LEMMA SameSequence ==
    ASSUME NEW S, NEW x \in Seq(S), NEW y \in Seq(S), NEW n, Len(x) = n, Len(y) = n,
           \A i \in 1..n : x[i] = y[i]
    PROVE  x = y
  OBVIOUS

\* A block that comes after the others, started, fed and stopped.
LEMMA BlockAdded ==
    ASSUME NEW B \in Seq(BlockRecords), NEW n, n = Len(B), NEW b \in Names, NEW t \in AnyText, NEW u \in AnyText
    PROVE  /\ Receive(Reads(B), Event("start", n, b, t)) = Reads(Append(B, Opened(b, t)))
           /\ Receive(Reads(Append(B, Opened(b, t))), Event("delta", n, b, u)) = Reads(Append(B, Opened(b, t \o u)))
           /\ Receive(Reads(Append(B, Opened(b, t))), Event("stop", n, b, u)) = Reads(Append(B, Stopped(b, t)))
  <1>1. PICK o \in BlockRecords : o = Opened(b, t)
    BY BlockTyped
  <1>2. PICK D : D = Append(B, o)
    OBVIOUS
  <1>3. D \in Seq(BlockRecords) /\ Len(D) = n + 1 /\ n + 1 \in 1..Len(D) /\ D[n + 1] = o
    BY <1>2
  <1>4. D \in Seq(BlockRecords) /\ n + 1 \in 1..Len(D) /\ D[n + 1] = Opened(b, t)
    BY <1>3, <1>1
  <1>5. Receive(Reads(B), Event("start", Len(B), b, t)) = Reads(Append(B, Opened(b, t)))
    BY ReceivesStart
  <1>6. n + 1 - 1 = n
    BY <1>3
  <1>7. Receive(Reads(D), Event("delta", n + 1 - 1, b, u)) = Reads([D EXCEPT ![n + 1] = Opened(b, t \o u)])
    BY <1>4, ReceivesDelta
  <1>8. Receive(Reads(D), Event("stop", n + 1 - 1, b, u)) = Reads([D EXCEPT ![n + 1] = Stopped(b, t)])
    BY <1>4, ReceivesStop
  <1>9. ASSUME NEW v PROVE [D EXCEPT ![n + 1] = v] = Append(B, v)
    <2>1. PICK S : S = BlockRecords \cup {v}
      OBVIOUS
    <2>2. B \in Seq(S) /\ o \in S /\ v \in S
      BY <2>1
    <2>3. D \in Seq(S) /\ Len(D) = n + 1 /\ \A i \in 1..n : D[i] = B[i]
      BY <1>2, <2>2
    <2>4. [D EXCEPT ![n + 1] = v] \in Seq(S) /\ Len([D EXCEPT ![n + 1] = v]) = n + 1
      BY <2>2, <2>3
    <2>5. Append(B, v) \in Seq(S) /\ Len(Append(B, v)) = n + 1
      BY <2>2
    <2>6. \A i \in 1..(n + 1) : [D EXCEPT ![n + 1] = v][i] = Append(B, v)[i]
      BY <2>2, <2>3
    <2>7. PICK k : k = n + 1
      OBVIOUS
    <2>8. PICK p : p = [D EXCEPT ![n + 1] = v]
      OBVIOUS
    <2>9. PICK q : q = Append(B, v)
      OBVIOUS
    <2>10. p \in Seq(S) /\ q \in Seq(S) /\ Len(p) = k /\ Len(q) = k /\ \A i \in 1..k : p[i] = q[i]
      BY <2>4, <2>5, <2>6, <2>7, <2>8, <2>9
    <2>11. p = q
      BY <2>10, SameSequence
    <2> QED
      BY <2>8, <2>9, <2>11
  <1>10. [D EXCEPT ![n + 1] = Opened(b, t \o u)] = Append(B, Opened(b, t \o u))
    BY Zenon, <1>9
  <1>11. [D EXCEPT ![n + 1] = Stopped(b, t)] = Append(B, Stopped(b, t))
    BY Zenon, <1>9
  <1>12. Receive(Reads(D), Event("delta", n, b, u)) = Reads(Append(B, Opened(b, t \o u)))
    BY <1>6, <1>7, <1>10
  <1>13. Receive(Reads(D), Event("stop", n, b, u)) = Reads(Append(B, Stopped(b, t)))
    BY <1>6, <1>8, <1>11
  <1> QED
    BY Zenon, <1>1, <1>2, <1>5, <1>12, <1>13

\* An item that was streamed is done.
LEMMA ItemStopped ==
    ASSUME NEW items, NEW client, NEW b, NEW t, NEW i, b \in ToSet(items), ItemIndex(items, b) = i,
           b # "call", t # <<>>
    PROVE  ResponsesItem(Resp(items, client), b, t) = Resp(items, Receive(client, Event("stop", i, b, t)))
  <1>1. PICK r : r = Resp(items, client)
    OBVIOUS
  <1>2. r.items = items
    BY <1>1 DEF Resp
  <1>3. ResponsesAdd(r, b) = r
    BY Zenon, <1>1, AddIs
  <1>4. ResponsesItem(r, b, t) = OfItem(r, "stop", b, t)
    BY Zenon, <1>2, <1>3 DEF ResponsesItem
  <1>5. OfItem(Resp(items, client), "stop", b, t) = Resp(items, Receive(client, Event("stop", ItemIndex(items, b), b, t)))
    BY OfItemIs
  <1> QED
    BY Zenon, <1>1, <1>4, <1>5

\* A call is added, given and done.
LEMMA ItemCalled ==
    ASSUME NEW items, NEW client, NEW n, "call" \notin ToSet(items), ItemIndex(Append(items, "call"), "call") = n,
           NEW t, t # <<>>
    PROVE  ResponsesItem(Resp(items, client), "call", t)
              = Resp(Append(items, "call"),
                     Receive(Receive(Receive(client, Event("start", n, "call", <<>>)), Event("delta", n, "call", t)),
                             Event("stop", n, "call", t)))
  <1>1. PICK r : r = Resp(items, client)
    OBVIOUS
  <1>2. r.items = items
    BY <1>1 DEF Resp
  <1>3. PICK more : more = Append(items, "call")
    OBVIOUS
  <1>4. PICK c : c = Receive(client, Event("start", n, "call", <<>>))
    OBVIOUS
  <1>a. ItemIndex(more, "call") = n
    BY Zenon, <1>3
  <1>5. ResponsesAdd(r, "call") = Resp(more, c)
    <2>1. ResponsesAdd(Resp(items, client), "call")
            = Resp(Append(items, "call"), Receive(client, Event("start", ItemIndex(Append(items, "call"), "call"), "call", <<>>)))
      BY AddIs
    <2> QED
      BY Zenon, <2>1, <1>1, <1>3, <1>a, <1>4
  <1>6. PICK d : d = Receive(c, Event("delta", n, "call", t))
    OBVIOUS
  <1>7. OfItem(Resp(more, c), "delta", "call", t) = Resp(more, d)
    <2>1. OfItem(Resp(more, c), "delta", "call", t) = Resp(more, Receive(c, Event("delta", ItemIndex(more, "call"), "call", t)))
      BY OfItemIs
    <2> QED
      BY Zenon, <2>1, <1>a, <1>6
  <1>8. OfItem(Resp(more, d), "stop", "call", t) = Resp(more, Receive(d, Event("stop", n, "call", t)))
    <2>1. OfItem(Resp(more, d), "stop", "call", t) = Resp(more, Receive(d, Event("stop", ItemIndex(more, "call"), "call", t)))
      BY OfItemIs
    <2> QED
      BY Zenon, <2>1, <1>a
  <1>9. ResponsesItem(r, "call", t) = OfItem(OfItem(ResponsesAdd(r, "call"), "delta", "call", t), "stop", "call", t)
    BY Zenon DEF ResponsesItem
  <1> QED
    BY Zenon, <1>1, <1>3, <1>4, <1>5, <1>6, <1>7, <1>8, <1>9

\* An item without text is left out.
LEMMA ItemSkipped ==
    ASSUME NEW r, NEW b, NEW t, t = <<>>
    PROVE  ResponsesItem(r, b, t) = r
  BY Zenon DEF ResponsesItem

\* The blocks of an answer without its calls, each closed.
ShutBlocks(R, C) ==
    IF R = <<>> THEN (IF C = <<>> THEN <<>> ELSE <<Stopped("content", C)>>)
    ELSE IF C = <<>> THEN <<Stopped("reasoning", R)>> ELSE <<Stopped("reasoning", R), Stopped("content", C)>>

\* The items of the text are done.
LEMMA ResponsesShut ==
    ASSUME NEW R \in Texts, NEW C \in Texts
    PROVE  ResponsesItem(ResponsesItem(RespOf(R, C), "reasoning", R), "content", C)
              = Resp(RespNames(R, C), Reads(ShutBlocks(R, C)))
  <1>0. /\ "reasoning" \in Names /\ "content" \in Names /\ "reasoning" # "content"
        /\ "call" # "reasoning" /\ "call" # "content"
    BY NamesDiffer
  <1>1. R \in AnyText /\ C \in AnyText
    BY TextFacts
  <1>2. ASSUME R = <<>>, C = <<>>
        PROVE  ResponsesItem(ResponsesItem(RespOf(R, C), "reasoning", R), "content", C)
                  = Resp(RespNames(R, C), Reads(ShutBlocks(R, C)))
    <2>1. RespOf(R, C) = Resp(RespNames(R, C), Reads(ShutBlocks(R, C)))
      BY Zenon, <1>2 DEF RespOf, RespNames, RespBlocks, ShutBlocks
    <2>2. \A r : ResponsesItem(r, "reasoning", R) = r /\ ResponsesItem(r, "content", C) = r
      BY Zenon, <1>2, ItemSkipped
    <2> QED
      BY Zenon, <2>1, <2>2
  <1>3. ASSUME R = <<>>, C # <<>>
        PROVE  ResponsesItem(ResponsesItem(RespOf(R, C), "reasoning", R), "content", C)
                  = Resp(RespNames(R, C), Reads(ShutBlocks(R, C)))
    <2>1. RespOf(R, C) = Resp(<<"content">>, Reads(<<Opened("content", C)>>))
      BY Zenon, <1>3 DEF RespOf, RespNames, RespBlocks
    <2>2. Resp(RespNames(R, C), Reads(ShutBlocks(R, C))) = Resp(<<"content">>, Reads(<<Stopped("content", C)>>))
      BY Zenon, <1>3 DEF RespNames, ShutBlocks
    <2>3. "content" \in ToSet(<<"content">>) /\ ItemIndex(<<"content">>, "content") = 0
      BY <1>0, ItemIndexes
    <2>4. Receive(Reads(<<Opened("content", C)>>), Event("stop", 0, "content", C)) = Reads(<<Stopped("content", C)>>)
      BY <1>0, <1>1, ReadsFirst
    <2>5. ResponsesItem(Resp(<<"content">>, Reads(<<Opened("content", C)>>)), "content", C)
            = Resp(<<"content">>, Receive(Reads(<<Opened("content", C)>>), Event("stop", 0, "content", C)))
      BY <2>3, <1>0, <1>3, ItemStopped
    <2>6. ResponsesItem(RespOf(R, C), "reasoning", R) = RespOf(R, C)
      BY Zenon, <1>3, ItemSkipped
    <2> QED
      BY Zenon, <2>1, <2>2, <2>4, <2>5, <2>6
  <1>4. ASSUME R # <<>>, C = <<>>
        PROVE  ResponsesItem(ResponsesItem(RespOf(R, C), "reasoning", R), "content", C)
                  = Resp(RespNames(R, C), Reads(ShutBlocks(R, C)))
    <2>1. RespOf(R, C) = Resp(<<"reasoning">>, Reads(<<Opened("reasoning", R)>>))
      BY Zenon, <1>4 DEF RespOf, RespNames, RespBlocks
    <2>2. Resp(RespNames(R, C), Reads(ShutBlocks(R, C))) = Resp(<<"reasoning">>, Reads(<<Stopped("reasoning", R)>>))
      BY Zenon, <1>4 DEF RespNames, ShutBlocks
    <2>3. "reasoning" \in ToSet(<<"reasoning">>) /\ ItemIndex(<<"reasoning">>, "reasoning") = 0
      BY <1>0, ItemIndexes
    <2>4. Receive(Reads(<<Opened("reasoning", R)>>), Event("stop", 0, "reasoning", R)) = Reads(<<Stopped("reasoning", R)>>)
      BY <1>0, <1>1, ReadsFirst
    <2>5. ResponsesItem(Resp(<<"reasoning">>, Reads(<<Opened("reasoning", R)>>)), "reasoning", R)
            = Resp(<<"reasoning">>, Receive(Reads(<<Opened("reasoning", R)>>), Event("stop", 0, "reasoning", R)))
      BY <2>3, <1>0, <1>4, ItemStopped
    <2>6. \A r : ResponsesItem(r, "content", C) = r
      BY Zenon, <1>4, ItemSkipped
    <2> QED
      BY Zenon, <2>1, <2>2, <2>4, <2>5, <2>6
  <1>5. ASSUME R # <<>>, C # <<>>
        PROVE  ResponsesItem(ResponsesItem(RespOf(R, C), "reasoning", R), "content", C)
                  = Resp(RespNames(R, C), Reads(ShutBlocks(R, C)))
    <2>a. PICK y \in BlockRecords : y = Opened("content", C)
      BY <1>0, <1>1, BlockTyped
    <2>b. PICK z \in BlockRecords : z = Stopped("reasoning", R)
      BY <1>0, <1>1, BlockTyped
    <2>c. PICK items : items = <<"reasoning", "content">>
      OBVIOUS
    <2>1. RespOf(R, C) = Resp(items, Reads(<<Opened("reasoning", R), y>>))
      BY Zenon, <1>5, <2>a, <2>c DEF RespOf, RespNames, RespBlocks
    <2>2. Resp(RespNames(R, C), Reads(ShutBlocks(R, C))) = Resp(items, Reads(<<z, Stopped("content", C)>>))
      BY Zenon, <1>5, <2>b, <2>c DEF RespNames, ShutBlocks
    <2>3. /\ "reasoning" \in ToSet(items) /\ ItemIndex(items, "reasoning") = 0
          /\ "content" \in ToSet(items) /\ ItemIndex(items, "content") = 1
      BY ZenonT(60), <1>0, <2>c, ItemIndexes
    <2>4. Receive(Reads(<<Opened("reasoning", R), y>>), Event("stop", 0, "reasoning", R)) = Reads(<<z, y>>)
      BY Zenon, <1>0, <1>1, <2>b, ReadsEarlier
    <2>5. Receive(Reads(<<z, Opened("content", C)>>), Event("stop", 1, "content", C)) = Reads(<<z, Stopped("content", C)>>)
      BY <1>0, <1>1, ReadsSecond
    <2>6. ResponsesItem(Resp(items, Reads(<<Opened("reasoning", R), y>>)), "reasoning", R)
            = Resp(items, Receive(Reads(<<Opened("reasoning", R), y>>), Event("stop", 0, "reasoning", R)))
      BY <2>3, <1>0, <1>5, ItemStopped
    <2>7. ResponsesItem(Resp(items, Reads(<<z, y>>)), "content", C)
            = Resp(items, Receive(Reads(<<z, y>>), Event("stop", 1, "content", C)))
      BY <2>3, <1>0, <1>5, ItemStopped
    <2> QED
      BY Zenon, <2>a, <2>1, <2>2, <2>4, <2>5, <2>6, <2>7
  <1> QED
    BY Zenon, <1>2, <1>3, <1>4, <1>5

\* A block that was given, or has no text, is not written again.
LEMMA FinishSkips ==
    ASSUME NEW a, NEW b, NEW t,
           t = <<>> \/ (b = "reasoning" /\ a.emittedThinking) \/ (b = "content" /\ a.emittedText)
    PROVE  FinishBlock(a, b, t) = a
  BY Zenon DEF FinishBlock

\* How many blocks the text has.
ShutCount(R, C) == IF R = <<>> THEN (IF C = <<>> THEN 0 ELSE 1) ELSE IF C = <<>> THEN 1 ELSE 2

\* The stream once its text is ended.
AnthShut(a, R, C) == FinishBlock(FinishBlock(CloseText(CloseThinking(a)), "reasoning", R), "content", C)

\* The blocks of the text are closed, and none is written again.
LEMMA AnthropicShut ==
    ASSUME NEW R \in Texts, NEW C \in Texts
    PROVE  \E th \in BOOLEAN, tx \in BOOLEAN, eth \in BOOLEAN, etx \in BOOLEAN :
              AnthShut(AnthOf(R, C), R, C) = Anth(ShutCount(R, C), th, tx, eth, etx, Reads(ShutBlocks(R, C)))
  <1>0. "reasoning" \in Names /\ "content" \in Names
    BY NamesDiffer
  <1>1. R \in AnyText /\ C \in AnyText /\ <<>> \in AnyText
    BY TextFacts
  <1>a. PICK yes \in BOOLEAN : yes = TRUE
    OBVIOUS
  <1>b. PICK no \in BOOLEAN : no = FALSE
    OBVIOUS
  <1>2. ASSUME R = <<>>, C = <<>>
        PROVE  AnthShut(AnthOf(R, C), R, C) = Anth(ShutCount(R, C), no, no, no, no, Reads(ShutBlocks(R, C)))
    <2>1. PICK a : a = Anth(0, no, no, no, no, Reads(<<>>))
      OBVIOUS
    <2>2. AnthOf(R, C) = a /\ Anth(ShutCount(R, C), no, no, no, no, Reads(ShutBlocks(R, C))) = a
      BY Zenon, <1>2, <1>b, <2>1 DEF AnthOf, ShutCount, ShutBlocks
    <2>3. a.thinkingOpen = FALSE /\ a.textOpen = FALSE
      BY <1>b, <2>1 DEF Anth
    <2>4. CloseThinking(a) = a /\ CloseText(a) = a
      BY Zenon, <2>3 DEF CloseThinking, CloseText
    <2>5. FinishBlock(a, "reasoning", R) = a /\ FinishBlock(a, "content", C) = a
      BY Zenon, <1>2, FinishSkips
    <2> QED
      BY Zenon, <2>2, <2>4, <2>5 DEF AnthShut
  <1>3. ASSUME R = <<>>, C # <<>>
        PROVE  AnthShut(AnthOf(R, C), R, C) = Anth(ShutCount(R, C), no, no, no, yes, Reads(ShutBlocks(R, C)))
    <2>1. PICK a : a = Anth(0, no, yes, no, yes, Reads(<<Opened("content", C)>>))
      OBVIOUS
    <2>2. PICK z : z = Anth(1, no, no, no, yes, Reads(<<Stopped("content", C)>>))
      OBVIOUS
    <2>3. AnthOf(R, C) = a /\ Anth(ShutCount(R, C), no, no, no, yes, Reads(ShutBlocks(R, C))) = z
      BY Zenon, <1>3, <1>a, <1>b, <2>1, <2>2 DEF AnthOf, ShutCount, ShutBlocks
    <2>4. a.thinkingOpen = FALSE
      BY <1>b, <2>1 DEF Anth
    <2>5. z.emittedText = TRUE
      BY <1>a, <2>2 DEF Anth
    <2>6. CloseThinking(a) = a
      BY Zenon, <2>4 DEF CloseThinking
    <2>7. Receive(Reads(<<Opened("content", C)>>), Event("stop", 0, "content", <<>>)) = Reads(<<Stopped("content", C)>>)
      BY <1>0, <1>1, ReadsFirst
    <2>8. CloseText(Anth(0, no, yes, no, yes, Reads(<<Opened("content", C)>>)))
             = Anth(1, no, no, no, yes, Receive(Reads(<<Opened("content", C)>>), Event("stop", 0, "content", <<>>)))
      BY Zenon, <1>a, <1>b, CloseTextFirst
    <2>9. CloseText(a) = z
      BY Zenon, <2>1, <2>2, <2>7, <2>8
    <2>10. FinishBlock(z, "reasoning", R) = z /\ FinishBlock(z, "content", C) = z
      BY Zenon, <1>3, <2>5, FinishSkips
    <2> QED
      BY Zenon, <2>3, <2>6, <2>9, <2>10 DEF AnthShut
  <1>4. ASSUME R # <<>>, C = <<>>
        PROVE  AnthShut(AnthOf(R, C), R, C) = Anth(ShutCount(R, C), no, no, yes, no, Reads(ShutBlocks(R, C)))
    <2>1. PICK a : a = Anth(0, yes, no, yes, no, Reads(<<Opened("reasoning", R)>>))
      OBVIOUS
    <2>2. PICK z : z = Anth(1, no, no, yes, no, Reads(<<Stopped("reasoning", R)>>))
      OBVIOUS
    <2>3. AnthOf(R, C) = a /\ Anth(ShutCount(R, C), no, no, yes, no, Reads(ShutBlocks(R, C))) = z
      BY Zenon, <1>4, <1>a, <1>b, <2>1, <2>2 DEF AnthOf, ShutCount, ShutBlocks
    <2>4. z.textOpen = FALSE
      BY <1>b, <2>2 DEF Anth
    <2>5. z.emittedThinking = TRUE
      BY <1>a, <2>2 DEF Anth
    <2>6. CloseText(z) = z
      BY Zenon, <2>4 DEF CloseText
    <2>7. Receive(Reads(<<Opened("reasoning", R)>>), Event("stop", 0, "reasoning", <<>>)) = Reads(<<Stopped("reasoning", R)>>)
      BY <1>0, <1>1, ReadsFirst
    <2>8. CloseThinking(Anth(0, yes, no, yes, no, Reads(<<Opened("reasoning", R)>>)))
             = Anth(1, no, no, yes, no, Receive(Reads(<<Opened("reasoning", R)>>), Event("stop", 0, "reasoning", <<>>)))
      BY Zenon, <1>a, <1>b, CloseThinkingIs
    <2>9. CloseThinking(a) = z
      BY Zenon, <2>1, <2>2, <2>7, <2>8
    <2>10. FinishBlock(z, "reasoning", R) = z /\ FinishBlock(z, "content", C) = z
      BY Zenon, <1>4, <2>5, FinishSkips
    <2> QED
      BY Zenon, <2>3, <2>6, <2>9, <2>10 DEF AnthShut
  <1>5. ASSUME R # <<>>, C # <<>>
        PROVE  AnthShut(AnthOf(R, C), R, C) = Anth(ShutCount(R, C), no, no, yes, yes, Reads(ShutBlocks(R, C)))
    <2>y. PICK y \in BlockRecords : y = Stopped("reasoning", R)
      BY <1>0, <1>1, BlockTyped
    <2>1. PICK a : a = Anth(1, no, yes, yes, yes, Reads(<<y, Opened("content", C)>>))
      OBVIOUS
    <2>2. PICK z : z = Anth(2, no, no, yes, yes, Reads(<<y, Stopped("content", C)>>))
      OBVIOUS
    <2>3. AnthOf(R, C) = a /\ Anth(ShutCount(R, C), no, no, yes, yes, Reads(ShutBlocks(R, C))) = z
      BY Zenon, <1>5, <1>a, <1>b, <2>1, <2>2, <2>y DEF AnthOf, ShutCount, ShutBlocks
    <2>4. a.thinkingOpen = FALSE
      BY <1>b, <2>1 DEF Anth
    <2>5. z.emittedThinking = TRUE /\ z.emittedText = TRUE
      BY <1>a, <2>2 DEF Anth
    <2>6. CloseThinking(a) = a
      BY Zenon, <2>4 DEF CloseThinking
    <2>7. Receive(Reads(<<y, Opened("content", C)>>), Event("stop", 1, "content", <<>>)) = Reads(<<y, Stopped("content", C)>>)
      BY <1>0, <1>1, ReadsSecond
    <2>8. CloseText(Anth(1, no, yes, yes, yes, Reads(<<y, Opened("content", C)>>)))
             = Anth(2, no, no, yes, yes, Receive(Reads(<<y, Opened("content", C)>>), Event("stop", 1, "content", <<>>)))
      BY Zenon, <1>a, <1>b, CloseTextSecond
    <2>9. CloseText(a) = z
      BY Zenon, <2>1, <2>2, <2>7, <2>8
    <2>10. FinishBlock(z, "reasoning", R) = z /\ FinishBlock(z, "content", C) = z
      BY Zenon, <2>5, FinishSkips
    <2> QED
      BY Zenon, <2>3, <2>6, <2>9, <2>10 DEF AnthShut
  <1> QED
    BY Zenon, <1>2, <1>3, <1>4, <1>5, <1>a, <1>b

\* A call comes whole, after the blocks that there are.
LEMMA CallWhole ==
    ASSUME NEW B \in Seq(BlockRecords), NEW n, n = Len(B), NEW u \in AnyText,
           NEW th \in BOOLEAN, NEW tx \in BOOLEAN, NEW eth \in BOOLEAN, NEW etx \in BOOLEAN
    PROVE  WholeBlock(Anth(n, th, tx, eth, etx, Reads(B)), "call", u).client
              = Reads(Append(B, Stopped("call", <<>> \o u)))
  <1>1. "call" \in Names /\ <<>> \in AnyText
    BY NamesDiffer DEF AnyText
  <1>2. PICK a : a = Anth(n, th, tx, eth, etx, Reads(B))
    OBVIOUS
  <1>3. PICK a1 : a1 = Anth(n, th, tx, eth, etx, Reads(Append(B, Opened("call", <<>>))))
    OBVIOUS
  <1>4. PICK a2 : a2 = Anth(n, th, tx, eth, etx, Reads(Append(B, Opened("call", <<>> \o u))))
    OBVIOUS
  <1>5. PICK a3 : a3 = Anth(n, th, tx, eth, etx, Reads(Append(B, Stopped("call", <<>> \o u))))
    OBVIOUS
  <1>6. Push(a, "start", "call", <<>>) = a1
    <2>1. Receive(Reads(B), Event("start", n, "call", <<>>)) = Reads(Append(B, Opened("call", <<>>)))
      BY <1>1, BlockAdded
    <2>2. Push(Anth(n, th, tx, eth, etx, Reads(B)), "start", "call", <<>>)
             = Anth(n, th, tx, eth, etx, Receive(Reads(B), Event("start", n, "call", <<>>)))
      BY PushIs
    <2> QED
      BY Zenon, <1>2, <1>3, <2>1, <2>2
  <1>7. Push(a1, "delta", "call", u) = a2
    <2>1. Receive(Reads(Append(B, Opened("call", <<>>))), Event("delta", n, "call", u)) = Reads(Append(B, Opened("call", <<>> \o u)))
      <3>1. PICK e \in AnyText : e = <<>>
        BY <1>1
      <3>2. Receive(Reads(Append(B, Opened("call", e))), Event("delta", n, "call", u)) = Reads(Append(B, Opened("call", e \o u)))
        BY <1>1, BlockAdded
      <3> QED
        BY Zenon, <3>1, <3>2
    <2>2. PICK c : c = Reads(Append(B, Opened("call", <<>>)))
      OBVIOUS
    <2>3. Push(Anth(n, th, tx, eth, etx, c), "delta", "call", u)
             = Anth(n, th, tx, eth, etx, Receive(c, Event("delta", n, "call", u)))
      BY PushIs
    <2> QED
      BY Zenon, <1>3, <1>4, <2>1, <2>2, <2>3
  <1>8. Push(a2, "stop", "call", <<>>) = a3
    <2>0. PICK w \in AnyText : w = <<>> \o u
      BY DEF AnyText
    <2>1. Receive(Reads(Append(B, Opened("call", w))), Event("stop", n, "call", <<>>)) = Reads(Append(B, Stopped("call", w)))
      <3>1. PICK e \in AnyText : e = <<>>
        BY <1>1
      <3>2. Receive(Reads(Append(B, Opened("call", w))), Event("stop", n, "call", e)) = Reads(Append(B, Stopped("call", w)))
        BY <1>1, <2>0, BlockAdded
      <3> QED
        BY Zenon, <3>1, <3>2
    <2>2. PICK c : c = Reads(Append(B, Opened("call", w)))
      OBVIOUS
    <2>3. Push(Anth(n, th, tx, eth, etx, c), "stop", "call", <<>>)
             = Anth(n, th, tx, eth, etx, Receive(c, Event("stop", n, "call", <<>>)))
      BY PushIs
    <2> QED
      BY Zenon, <1>4, <1>5, <2>0, <2>1, <2>2, <2>3
  <1>9. WholeBlock(a, "call", u) = [a3 EXCEPT !.index = a3.index + 1]
    BY Zenon, <1>6, <1>7, <1>8 DEF WholeBlock
  <1>10. [a3 EXCEPT !.index = a3.index + 1].client = Reads(Append(B, Stopped("call", <<>> \o u)))
    BY <1>5 DEF Anth
  <1> QED
    BY Zenon, <1>2, <1>9, <1>10

Plain(b, t) == [block |-> b, text |-> t]
PlainRecords == [block : Names, text : AnyText]

\* The blocks of the text, as the final response has them.
PlainBlocks(R, C) ==
    IF R = <<>> THEN (IF C = <<>> THEN <<>> ELSE <<Plain("content", C)>>)
    ELSE IF C = <<>> THEN <<Plain("reasoning", R)>> ELSE <<Plain("reasoning", R), Plain("content", C)>>

\* Blocks that are closed, the parts of them, and their names.
ShutAs(B, P, N) ==
    /\ B \in Seq(BlockRecords) /\ P \in Seq(PlainRecords) /\ N \in Seq(Names)
    /\ Len(P) = Len(B) /\ Len(N) = Len(B)
    /\ \A i \in 1..Len(B) : /\ B[i].open = FALSE /\ P[i] = Plain(B[i].block, B[i].text)
                            /\ N[i] = B[i].block

\* A block that is closed says what it is.
LEMMA StoppedFields ==
    ASSUME NEW b \in Names, NEW t \in AnyText
    PROVE  /\ Stopped(b, t) \in BlockRecords /\ Plain(b, t) \in PlainRecords
           /\ Stopped(b, t).open = FALSE /\ Stopped(b, t).block = b /\ Stopped(b, t).text = t
  BY BlockTyped DEF Stopped, Plain, PlainRecords

\* One more block that is closed.
LEMMA ShutMore ==
    ASSUME NEW B, NEW P, NEW N, ShutAs(B, P, N), NEW b \in Names, NEW t \in AnyText
    PROVE  ShutAs(Append(B, Stopped(b, t)), Append(P, Plain(b, t)), Append(N, b))
  <1>1. PICK z \in BlockRecords : z = Stopped(b, t)
    BY StoppedFields
  <1>2. PICK y \in PlainRecords : y = Plain(b, t)
    BY StoppedFields
  <1>3. z.open = FALSE /\ y = Plain(z.block, z.text) /\ z.block = b
    BY <1>1, <1>2, StoppedFields
  <1>4. /\ B \in Seq(BlockRecords) /\ P \in Seq(PlainRecords) /\ N \in Seq(Names)
        /\ Len(P) = Len(B) /\ Len(N) = Len(B) /\ Len(B) \in Nat
    BY DEF ShutAs
  <1>5. /\ Append(B, z) \in Seq(BlockRecords) /\ Append(P, y) \in Seq(PlainRecords) /\ Append(N, b) \in Seq(Names)
        /\ Len(Append(B, z)) = Len(B) + 1 /\ Len(Append(P, y)) = Len(B) + 1 /\ Len(Append(N, b)) = Len(B) + 1
    BY <1>4
  <1>6. ASSUME NEW i \in 1..(Len(B) + 1)
        PROVE  /\ Append(B, z)[i].open = FALSE
               /\ Append(P, y)[i] = Plain(Append(B, z)[i].block, Append(B, z)[i].text)
               /\ Append(N, b)[i] = Append(B, z)[i].block
    <2>1. CASE i = Len(B) + 1
      <3>1. Append(B, z)[i] = z /\ Append(P, y)[i] = y /\ Append(N, b)[i] = b
        BY <1>4, <2>1
      <3> QED
        BY Zenon, <3>1, <1>3
    <2>2. CASE i # Len(B) + 1
      <3>1. i \in 1..Len(B)
        BY <2>2, <1>4
      <3>2. Append(B, z)[i] = B[i] /\ Append(P, y)[i] = P[i] /\ Append(N, b)[i] = N[i]
        BY <1>4, <3>1
      <3>3. B[i].open = FALSE /\ P[i] = Plain(B[i].block, B[i].text) /\ N[i] = B[i].block
        BY Zenon, <3>1 DEF ShutAs
      <3> QED
        BY Zenon, <3>2, <3>3
    <2> QED
      BY <2>1, <2>2
  <1>7. ShutAs(Append(B, z), Append(P, y), Append(N, b))
    <2>1. \A i \in 1..Len(Append(B, z)) : /\ Append(B, z)[i].open = FALSE
               /\ Append(P, y)[i] = Plain(Append(B, z)[i].block, Append(B, z)[i].text)
               /\ Append(N, b)[i] = Append(B, z)[i].block
      BY Zenon, <1>5, <1>6
    <2>2. Len(Append(P, y)) = Len(Append(B, z)) /\ Len(Append(N, b)) = Len(Append(B, z))
      BY <1>5
    <2> QED
      BY Zenon, <1>5, <2>1, <2>2 DEF ShutAs
  <1> QED
    BY Zenon, <1>1, <1>2, <1>7

\* The blocks of the text are closed.
LEMMA ShutText ==
    ASSUME NEW R \in Texts, NEW C \in Texts
    PROVE  ShutAs(ShutBlocks(R, C), PlainBlocks(R, C), RespNames(R, C))
  <1>0. "reasoning" \in Names /\ "content" \in Names
    BY NamesDiffer
  <1>1. R \in AnyText /\ C \in AnyText
    BY TextFacts
  <1>2. ShutAs(<<>>, <<>>, <<>>)
    BY DEF ShutAs
  <1>3. \A b \in Names, t \in AnyText : ShutAs(<<Stopped(b, t)>>, <<Plain(b, t)>>, <<b>>)
    <2>1. TAKE b \in Names, t \in AnyText
    <2>2. PICK none : none = <<>>
      OBVIOUS
    <2>3. ShutAs(Append(none, Stopped(b, t)), Append(none, Plain(b, t)), Append(none, b))
      BY <2>2, <1>2, ShutMore
    <2>4. \A x : Append(none, x) = <<x>>
      BY <2>2
    <2>5. Append(none, Stopped(b, t)) = <<Stopped(b, t)>> /\ Append(none, Plain(b, t)) = <<Plain(b, t)>> /\ Append(none, b) = <<b>>
      BY Zenon, <2>4
    <2> HIDE <2>4
    <2> QED
      BY Zenon, <2>3, <2>5
  <1>4. ShutAs(<<Stopped("reasoning", R), Stopped("content", C)>>, <<Plain("reasoning", R), Plain("content", C)>>,
               <<"reasoning", "content">>)
    <2>1. ShutAs(<<Stopped("reasoning", R)>>, <<Plain("reasoning", R)>>, <<"reasoning">>)
      BY <1>0, <1>1, <1>3
    <2>2. PICK B, P, N : B = <<Stopped("reasoning", R)>> /\ P = <<Plain("reasoning", R)>> /\ N = <<"reasoning">>
      OBVIOUS
    <2>3. ShutAs(B, P, N)
      BY Zenon, <2>1, <2>2
    <2>4. ShutAs(Append(B, Stopped("content", C)), Append(P, Plain("content", C)), Append(N, "content"))
      BY <1>0, <1>1, <2>3, ShutMore
    <2>5. \A x, y : Append(<<x>>, y) = <<x, y>>
      BY Zenon, ItemAppended
    <2> QED
      BY Zenon, <2>2, <2>4, <2>5
  <1>5. CASE R = <<>> /\ C = <<>>
    BY Zenon, <1>2, <1>5 DEF ShutBlocks, PlainBlocks, RespNames
  <1>6. CASE R = <<>> /\ C # <<>>
    BY Zenon, <1>0, <1>1, <1>3, <1>6 DEF ShutBlocks, PlainBlocks, RespNames
  <1>7. CASE R # <<>> /\ C = <<>>
    BY Zenon, <1>0, <1>1, <1>3, <1>7 DEF ShutBlocks, PlainBlocks, RespNames
  <1>8. CASE R # <<>> /\ C # <<>>
    BY Zenon, <1>4, <1>8 DEF ShutBlocks, PlainBlocks, RespNames
  <1> QED
    BY <1>5, <1>6, <1>7, <1>8

\* What is closed is closed for the client, and reads as its parts.
LEMMA ShutReads ==
    ASSUME NEW B, NEW P, NEW N, ShutAs(B, P, N)
    PROVE  /\ AllClosed(Reads(B)) /\ Rebuilt(Reads(B)) = P
           /\ N = [i \in DOMAIN P |-> P[i].block]
  <1>1. Reads(B).blocks = B /\ Reads(B).ok = TRUE
    BY DEF Reads
  <1>2. /\ B \in Seq(BlockRecords) /\ P \in Seq(PlainRecords) /\ N \in Seq(Names)
        /\ Len(P) = Len(B) /\ Len(N) = Len(B) /\ DOMAIN B = 1..Len(B) /\ DOMAIN P = 1..Len(B) /\ DOMAIN N = 1..Len(B)
    BY DEF ShutAs
  <1>3. \A i \in DOMAIN B : /\ B[i].open = FALSE /\ P[i] = Plain(B[i].block, B[i].text) /\ N[i] = B[i].block
    BY Zenon, <1>2 DEF ShutAs
  <1>4. AllClosed(Reads(B))
    BY Zenon, <1>1, <1>3 DEF AllClosed
  <1>5. Rebuilt(Reads(B)) = [i \in DOMAIN B |-> P[i]]
    BY Zenon, <1>1, <1>3 DEF Rebuilt, Plain
  <1>6. [i \in DOMAIN B |-> P[i]] = P
    BY <1>2
  <1>7. \A i \in DOMAIN P : N[i] = P[i].block
    <2> TAKE i \in DOMAIN P
    <2>1. P[i] = Plain(B[i].block, B[i].text) /\ N[i] = B[i].block
      BY Zenon, <1>2, <1>3
    <2> QED
      BY <2>1 DEF Plain
  <1>8. N = [i \in DOMAIN P |-> P[i].block]
    BY <1>2, <1>7
  <1> QED
    BY <1>4, <1>5, <1>6, <1>8

Msg(R, C, k) == [content |-> C, reasoning |-> R, calls |-> k]
CallGiven == <<"call">>

\* Two sequences of at most one element, one after the other.
LEMMA JoinedSmall ==
    ASSUME NEW x, NEW y
    PROVE  <<>> \o <<>> = <<>> /\ <<>> \o <<x>> = <<x>> /\ <<x>> \o <<>> = <<x>> /\ <<x>> \o <<y>> = <<x, y>>
  <1>0. <<x>> \in Seq({x, y}) /\ <<y>> \in Seq({x, y}) /\ <<>> \in Seq({x, y})
        /\ Len(<<x>>) = 1 /\ Len(<<y>>) = 1 /\ <<x>>[1] = x /\ <<y>>[1] = y
    OBVIOUS
  <1>1. <<>> \o <<>> = <<>>
    OBVIOUS
  <1>2. <<>> \o <<x>> = <<x>>
    OBVIOUS
  <1>3. <<x>> \o <<>> = <<x>>
    OBVIOUS
  <1>4. <<x>> \o <<y>> = <<x, y>>
    <2>1. PICK s : s = <<x>> \o <<y>>
      OBVIOUS
    <2>2. s \in Seq({x, y}) /\ Len(s) = 2
      BY <1>0, <2>1
    <2>3. s[1] = x /\ s[2] = y
      BY <1>0, <2>1
    <2>4. s = <<x, y>>
      BY <2>2, <2>3
    <2> QED
      BY <2>1, <2>4
  <1> QED
    BY <1>1, <1>2, <1>3, <1>4

\* The output of the final response.
LEMMA BlocksAre ==
    ASSUME NEW R \in Texts, NEW C \in Texts
    PROVE  /\ Blocks(Msg(R, C, 0)) = PlainBlocks(R, C)
           /\ Blocks(Msg(R, C, 1)) = Append(PlainBlocks(R, C), Plain("call", CallGiven))
  <1>1. \A k : Msg(R, C, k).content = C /\ Msg(R, C, k).reasoning = R /\ Msg(R, C, k).calls = k
    BY DEF Msg
  <1>2. CallText(Msg(R, C, 0)) = <<>> /\ CallText(Msg(R, C, 1)) = CallGiven
    <2>1. 1 # 0
      OBVIOUS
    <2> QED
      BY Zenon, <1>1, <2>1 DEF CallText, CallGiven
  <1>3. CallGiven # <<>>
    BY DEF CallGiven
  <1>4. /\ BlockOf("call", <<>>) = <<>> /\ BlockOf("call", CallGiven) = <<Plain("call", CallGiven)>>
        /\ R = <<>> => BlockOf("reasoning", R) = <<>>
        /\ R # <<>> => BlockOf("reasoning", R) = <<Plain("reasoning", R)>>
        /\ C = <<>> => BlockOf("content", C) = <<>>
        /\ C # <<>> => BlockOf("content", C) = <<Plain("content", C)>>
    BY Zenon, <1>3 DEF BlockOf, Plain
  <1>5. BlockOf("reasoning", R) \o BlockOf("content", C) = PlainBlocks(R, C)
    <2>1. CASE R = <<>> /\ C = <<>>
      BY Zenon, <1>4, <2>1, JoinedSmall DEF PlainBlocks
    <2>2. CASE R = <<>> /\ C # <<>>
      BY Zenon, <1>4, <2>2, JoinedSmall DEF PlainBlocks
    <2>3. CASE R # <<>> /\ C = <<>>
      BY Zenon, <1>4, <2>3, JoinedSmall DEF PlainBlocks
    <2>4. CASE R # <<>> /\ C # <<>>
      BY Zenon, <1>4, <2>4, JoinedSmall DEF PlainBlocks
    <2> QED
      BY <2>1, <2>2, <2>3, <2>4
  <1>6. \A k : Blocks(Msg(R, C, k)) = PlainBlocks(R, C) \o BlockOf("call", CallText(Msg(R, C, k)))
    <2> TAKE k
    <2>1. Blocks(Msg(R, C, k)) = (BlockOf("reasoning", R) \o BlockOf("content", C)) \o BlockOf("call", CallText(Msg(R, C, k)))
      BY Zenon, <1>1 DEF Blocks
    <2> QED
      BY Zenon, <2>1, <1>5
  <1>7. PICK P : P = PlainBlocks(R, C)
    OBVIOUS
  <1>8. P \in Seq(PlainRecords)
    BY Zenon, <1>7, ShutText DEF ShutAs
  <1>9. P \o <<>> = P
    BY <1>8
  <1>10. PICK x \in PlainRecords : x = Plain("call", CallGiven)
    <2>1. CallGiven \in AnyText /\ "call" \in Names
      BY NamesDiffer DEF CallGiven, AnyText
    <2> QED
      BY <2>1, StoppedFields
  <1>11. P \o <<x>> = Append(P, x)
    BY <1>8
  <1>12. Blocks(Msg(R, C, 0)) = P
    BY Zenon, <1>2, <1>4, <1>6, <1>7, <1>9
  <1>13. Blocks(Msg(R, C, 1)) = P \o <<x>>
    BY Zenon, <1>2, <1>4, <1>6, <1>7, <1>10
  <1> QED
    BY Zenon, <1>7, <1>10, <1>11, <1>12, <1>13

\* Where a call is added.
LEMMA CallItem ==
    ASSUME NEW R \in Texts, NEW C \in Texts
    PROVE  /\ "call" \notin ToSet(RespNames(R, C)) /\ Len(ShutBlocks(R, C)) = ShutCount(R, C)
           /\ ItemIndex(Append(RespNames(R, C), "call"), "call") = ShutCount(R, C)
  <1>0. "call" # "reasoning" /\ "call" # "content" /\ "reasoning" # "content"
    BY NamesDiffer
  <1>1. Len(ShutBlocks(R, C)) = ShutCount(R, C)
    <2>1. /\ Len(<<>>) = 0 /\ Len(<<Stopped("content", C)>>) = 1 /\ Len(<<Stopped("reasoning", R)>>) = 1
          /\ Len(<<Stopped("reasoning", R), Stopped("content", C)>>) = 2
      OBVIOUS
    <2>2. CASE R = <<>> /\ C = <<>>
      <3>1. ShutBlocks(R, C) = <<>>
        BY Zenon, <2>2 DEF ShutBlocks
      <3>2. ShutCount(R, C) = 0
        BY Zenon, <2>2 DEF ShutCount
      <3> QED
        BY Zenon, <2>1, <3>1, <3>2
    <2>3. CASE R = <<>> /\ C # <<>>
      BY Zenon, <2>1, <2>3 DEF ShutBlocks, ShutCount
    <2>4. CASE R # <<>> /\ C = <<>>
      BY Zenon, <2>1, <2>4 DEF ShutBlocks, ShutCount
    <2>5. CASE R # <<>> /\ C # <<>>
      <3>1. ShutBlocks(R, C) = <<Stopped("reasoning", R), Stopped("content", C)>>
        BY Zenon, <2>5 DEF ShutBlocks
      <3>2. ShutCount(R, C) = 2
        BY Zenon, <2>5 DEF ShutCount
      <3> QED
        BY Zenon, <2>1, <3>1, <3>2
    <2> QED
      BY <2>2, <2>3, <2>4, <2>5
  <1>2. CASE R = <<>> /\ C = <<>>
    <2>1. RespNames(R, C) = <<>> /\ ShutCount(R, C) = 0
      BY Zenon, <1>2 DEF RespNames, ShutCount
    <2>2. "call" \notin ToSet(<<>>)
      BY Zenon, <1>0, ItemIndexes
    <2>3. Append(<<>>, "call") = <<"call">>
      BY Zenon, ItemAppended
    <2>4. ItemIndex(<<"call">>, "call") = 0
      BY Zenon, <1>0, ItemIndexes
    <2> QED
      BY Zenon, <1>1, <2>1, <2>2, <2>3, <2>4
  <1>3. ASSUME NEW a \in {"reasoning", "content"}
        PROVE  "call" \notin ToSet(<<a>>) /\ ItemIndex(Append(<<a>>, "call"), "call") = 1
    <2>1. a # "call" /\ \E c : c # a /\ c # "call"
      OBVIOUS
    <2>2. "call" \notin ToSet(<<a>>) /\ ItemIndex(<<a, "call">>, "call") = 1
      BY ZenonT(60), <2>1, ItemIndexes
    <2>3. Append(<<a>>, "call") = <<a, "call">>
      BY Zenon, ItemAppended
    <2> QED
      BY Zenon, <2>2, <2>3
  <1>4. CASE R = <<>> /\ C # <<>>
    <2>1. RespNames(R, C) = <<"content">> /\ ShutCount(R, C) = 1
      BY Zenon, <1>4 DEF RespNames, ShutCount
    <2> QED
      BY Zenon, <1>1, <1>3, <2>1
  <1>5. CASE R # <<>> /\ C = <<>>
    <2>1. RespNames(R, C) = <<"reasoning">> /\ ShutCount(R, C) = 1
      BY Zenon, <1>5 DEF RespNames, ShutCount
    <2> QED
      BY Zenon, <1>1, <1>3, <2>1
  <1>6. CASE R # <<>> /\ C # <<>>
    <2>1. RespNames(R, C) = <<"reasoning", "content">> /\ ShutCount(R, C) = 2
      BY Zenon, <1>6 DEF RespNames, ShutCount
    <2>2. /\ "call" \notin ToSet(<<"reasoning", "content">>)
          /\ ItemIndex(<<"reasoning", "content", "call">>, "call") = 2
      <3>1. \A a, b, c : a # b /\ a # c /\ b # c => c \notin ToSet(<<a, b>>) /\ ItemIndex(<<a, b, c>>, c) = 2
        BY ItemIndexes
      <3> QED
        BY Zenon, <1>0, <3>1
    <2>3. Append(<<"reasoning", "content">>, "call") = <<"reasoning", "content", "call">>
      BY Zenon, ItemAppended
    <2> QED
      BY Zenon, <1>1, <2>1, <2>2, <2>3
  <1> QED
    BY <1>2, <1>4, <1>5, <1>6

\* The three streams when R and then C was streamed.
WiresOf(R, C) ==
    [responses |-> RespOf(R, C), anthropic |-> AnthOf(R, C), chat |-> Msg(R, C, 0),
     sawDelta |-> R # <<>> \/ C # <<>>]

\* No answer yet.
LEMMA NewWiresAre == NewWires = WiresOf(<<>>, <<>>)
  <1>1. NewClient = Reads(<<>>)
    BY DEF NewClient, Reads
  <1>2. NewResponses = RespOf(<<>>, <<>>)
    BY Zenon, <1>1 DEF NewResponses, RespOf, Resp, RespNames, RespBlocks
  <1>3. NewAnthropic = AnthOf(<<>>, <<>>)
    BY Zenon, <1>1 DEF NewAnthropic, AnthOf, Anth
  <1>4. [reasoning |-> <<>>, content |-> <<>>, calls |-> 0] = Msg(<<>>, <<>>, 0)
    BY DEF Msg
  <1>5. FALSE = (<<>> # <<>> \/ <<>> # <<>>)
    OBVIOUS
  <1> QED
    BY Zenon, <1>2, <1>3, <1>4, <1>5 DEF NewWires, WiresOf

\* A delta is streamed in the three dialects.
LEMMA WiresStream ==
    ASSUME NEW R \in Texts, NEW C \in Texts, NEW t \in Texts, t # <<>>
    PROVE  /\ C = <<>> => Stream(WiresOf(R, C), Delta("reasoning", t)) = WiresOf(R \o t, C)
           /\ Stream(WiresOf(R, C), Delta("content", t)) = WiresOf(R, C \o t)
  <1>1. R \o t # <<>> /\ C \o t # <<>>
    BY TextFacts
  <1>2. PICK w : w = WiresOf(R, C)
    OBVIOUS
  <1>3. w.responses = RespOf(R, C) /\ w.anthropic = AnthOf(R, C) /\ w.chat = Msg(R, C, 0)
    BY <1>2 DEF WiresOf
  <1>4. /\ Delta("reasoning", t).channel = "reasoning" /\ Delta("reasoning", t).text = t
        /\ Delta("content", t).channel = "content" /\ Delta("content", t).text = t
    BY DEF Delta
  <1>5. /\ [Msg(R, C, 0) EXCEPT !["reasoning"] = Msg(R, C, 0)["reasoning"] \o t] = Msg(R \o t, C, 0)
        /\ [Msg(R, C, 0) EXCEPT !["content"] = Msg(R, C, 0)["content"] \o t] = Msg(R, C \o t, 0)
    <2>1. PICK m : m = Msg(R, C, 0)
      OBVIOUS
    <2>2. m.reasoning = R /\ m.content = C
      BY <2>1 DEF Msg
    <2>3. \A v : [m EXCEPT !.reasoning = v] = Msg(v, C, 0) /\ [m EXCEPT !.content = v] = Msg(R, v, 0)
      BY <2>1 DEF Msg
    <2> QED
      BY Zenon, <2>1, <2>2, <2>3
  <1>6. ASSUME C = <<>>
        PROVE  Stream(w, Delta("reasoning", t)) = WiresOf(R \o t, C)
    <2>1. ResponsesDelta(RespOf(R, C), Delta("reasoning", t)) = RespOf(R \o t, C)
      BY <1>6, ResponsesStreams
    <2>2. AnthropicDelta(AnthOf(R, C), Delta("reasoning", t)) = AnthOf(R \o t, C)
      BY <1>6, AnthropicStreams
    <2>3. Stream(w, Delta("reasoning", t))
            = [responses |-> RespOf(R \o t, C), anthropic |-> AnthOf(R \o t, C), chat |-> Msg(R \o t, C, 0), sawDelta |-> TRUE]
      BY Zenon, <1>3, <1>4, <1>5, <2>1, <2>2 DEF Stream
    <2>4. TRUE = (R \o t # <<>> \/ C # <<>>)
      BY <1>1
    <2> QED
      BY Zenon, <2>3, <2>4 DEF WiresOf
  <1>7. Stream(w, Delta("content", t)) = WiresOf(R, C \o t)
    <2>1. ResponsesDelta(RespOf(R, C), Delta("content", t)) = RespOf(R, C \o t)
      BY ResponsesStreams
    <2>2. AnthropicDelta(AnthOf(R, C), Delta("content", t)) = AnthOf(R, C \o t)
      BY AnthropicStreams
    <2>3. Stream(w, Delta("content", t))
            = [responses |-> RespOf(R, C \o t), anthropic |-> AnthOf(R, C \o t), chat |-> Msg(R, C \o t, 0), sawDelta |-> TRUE]
      BY Zenon, <1>3, <1>4, <1>5, <2>1, <2>2 DEF Stream
    <2>4. TRUE = (R # <<>> \/ C \o t # <<>>)
      BY <1>1
    <2> QED
      BY Zenon, <2>3, <2>4 DEF WiresOf
  <1> QED
    BY Zenon, <1>2, <1>6, <1>7

\* The clients have the message, and every block of it is closed.
WiresTell(w, m) ==
    /\ w.chat = m
    /\ AllClosed(w.responses.client) /\ Rebuilt(w.responses.client) = Blocks(m)
    /\ AllClosed(w.anthropic.client) /\ Rebuilt(w.anthropic.client) = Blocks(m)
    /\ w.responses.items = [i \in DOMAIN Blocks(m) |-> Blocks(m)[i].block]

\* The end of an answer whose text was streamed, with a call or without.
LEMMA WiresEnd ==
    ASSUME NEW R \in Texts, NEW C \in Texts, NEW k \in {0, 1}
    PROVE  WiresTell(StreamEnd(WiresOf(R, C), Msg(R, C, k)), Msg(R, C, k))
  <1> DEFINE m == Msg(R, C, k)
             w == WiresOf(R, C)
             B == IF k = 0 THEN ShutBlocks(R, C) ELSE Append(ShutBlocks(R, C), Stopped("call", CallGiven))
             N == IF k = 0 THEN RespNames(R, C) ELSE Append(RespNames(R, C), "call")
             e == StreamEnd(w, m)
  <1>0. CallGiven \in AnyText /\ CallGiven # <<>> /\ "call" \in Names /\ <<>> \o CallGiven = CallGiven /\ 1 # 0
    BY NamesDiffer DEF CallGiven, AnyText
  <1>1. m.content = C /\ m.reasoning = R /\ m.calls = k
    BY DEF Msg
  <1>2. w.responses = RespOf(R, C) /\ w.anthropic = AnthOf(R, C) /\ w.chat = Msg(R, C, 0) /\ w.sawDelta = (R # <<>> \/ C # <<>>)
    BY DEF WiresOf
  <1>3. ShutAs(B, Blocks(m), N)
    <2>1. ShutAs(ShutBlocks(R, C), PlainBlocks(R, C), RespNames(R, C))
      BY ShutText
    <2>2. ShutAs(Append(ShutBlocks(R, C), Stopped("call", CallGiven)), Append(PlainBlocks(R, C), Plain("call", CallGiven)),
                 Append(RespNames(R, C), "call"))
      BY <1>0, <2>1, ShutMore
    <2>3. CASE k = 0
      BY Zenon, <2>1, <2>3, BlocksAre
    <2>4. CASE k = 1
      BY Zenon, <1>0, <2>2, <2>4, BlocksAre
    <2> QED
      BY <2>3, <2>4
  <1>4. AllClosed(Reads(B)) /\ Rebuilt(Reads(B)) = Blocks(m) /\ N = [i \in DOMAIN Blocks(m) |-> Blocks(m)[i].block]
    <2> HIDE DEF B, N, m
    <2> QED BY <1>3, ShutReads
  <1>5. /\ ShutBlocks(R, C) \in Seq(BlockRecords) /\ "call" \notin ToSet(RespNames(R, C)) /\ Len(ShutBlocks(R, C)) = ShutCount(R, C)
        /\ ItemIndex(Append(RespNames(R, C), "call"), "call") = ShutCount(R, C)
    BY ShutText, CallItem DEF ShutAs
  <1>6. ResponsesFinish(RespOf(R, C), m) = Resp(N, Reads(B))
    <2>1. ResponsesFinish(RespOf(R, C), m) = ResponsesItem(Resp(RespNames(R, C), Reads(ShutBlocks(R, C))), "call", CallText(m))
      <3> HIDE DEF m
      <3> QED BY Zenon, <1>1, ResponsesShut DEF ResponsesFinish
    <2>2. CASE k = 0
      <3>1. CallText(m) = <<>>
        BY Zenon, <1>1, <2>2 DEF CallText
      <3>2. ResponsesItem(Resp(RespNames(R, C), Reads(ShutBlocks(R, C))), "call", CallText(m)) = Resp(RespNames(R, C), Reads(ShutBlocks(R, C)))
        BY Zenon, <3>1, ItemSkipped
      <3> QED
        BY Zenon, <2>1, <2>2, <3>2
    <2>3. CASE k = 1
      <3>1. CallText(m) = CallGiven
        BY Zenon, <1>0, <1>1, <2>3 DEF CallText, CallGiven
      <3>a. PICK S \in Seq(BlockRecords) : S = ShutBlocks(R, C)
        BY <1>5
      <3>b. PICK n : n = ShutCount(R, C)
        OBVIOUS
      <3>c. PICK items : items = RespNames(R, C)
        OBVIOUS
      <3>d. n = Len(S) /\ "call" \notin ToSet(items) /\ ItemIndex(Append(items, "call"), "call") = n
        BY Zenon, <1>5, <3>a, <3>b, <3>c
      <3>2. ResponsesItem(Resp(items, Reads(S)), "call", CallGiven)
               = Resp(Append(items, "call"),
                     Receive(Receive(Receive(Reads(S), Event("start", n, "call", <<>>)), Event("delta", n, "call", CallGiven)),
                             Event("stop", n, "call", CallGiven)))
        BY <1>0, <3>d, ItemCalled
      <3>e. PICK none \in AnyText : none = <<>>
        BY TextFacts
      <3>3. Receive(Reads(S), Event("start", n, "call", none)) = Reads(Append(S, Opened("call", none)))
        BY <1>0, <3>d, BlockAdded
      <3>4. Receive(Reads(Append(S, Opened("call", none))), Event("delta", n, "call", CallGiven)) = Reads(Append(S, Opened("call", none \o CallGiven)))
        BY <1>0, <3>d, BlockAdded
      <3>5. Receive(Reads(Append(S, Opened("call", CallGiven))), Event("stop", n, "call", CallGiven)) = Reads(Append(S, Stopped("call", CallGiven)))
        BY <1>0, <3>d, BlockAdded
      <3>6. none \o CallGiven = CallGiven
        BY <1>0, <3>e
      <3>7. ResponsesItem(Resp(items, Reads(S)), "call", CallGiven) = Resp(Append(items, "call"), Reads(Append(S, Stopped("call", CallGiven))))
        BY Zenon, <3>e, <3>2, <3>3, <3>4, <3>5, <3>6
      <3>8. B = Append(S, Stopped("call", CallGiven)) /\ N = Append(items, "call")
        BY Zenon, <1>0, <2>3, <3>a, <3>c
      <3> HIDE DEF B, N, m
      <3> QED
        BY Zenon, <2>1, <3>1, <3>a, <3>c, <3>7, <3>8
    <2> QED
      BY <2>2, <2>3
  <1>7. AnthropicFinish(AnthOf(R, C), m).client = Reads(B)
    <2>1. PICK th \in BOOLEAN, tx \in BOOLEAN, eth \in BOOLEAN, etx \in BOOLEAN :
              AnthShut(AnthOf(R, C), R, C) = Anth(ShutCount(R, C), th, tx, eth, etx, Reads(ShutBlocks(R, C)))
      BY AnthropicShut
    <2>2. PICK a : a = AnthShut(AnthOf(R, C), R, C)
      OBVIOUS
    <2>3. AnthropicFinish(AnthOf(R, C), m) = FinishBlock(a, "call", CallText(m))
      <3> HIDE DEF m
      <3> QED BY Zenon, <1>1, <2>2 DEF AnthropicFinish, AnthShut
    <2>4. CASE k = 0
      <3>1. CallText(m) = <<>>
        BY Zenon, <1>1, <2>4 DEF CallText
      <3>2. FinishBlock(a, "call", CallText(m)) = a
        BY Zenon, <3>1, FinishSkips
      <3>3. a.client = Reads(ShutBlocks(R, C))
        BY <2>1, <2>2, AnthFields
      <3>4. B = ShutBlocks(R, C)
        BY Zenon, <2>4
      <3> QED
        BY Zenon, <2>3, <3>2, <3>3, <3>4
    <2>5. CASE k = 1
      <3>1. CallText(m) = CallGiven
        BY Zenon, <1>0, <1>1, <2>5 DEF CallText, CallGiven
      <3>2. FinishBlock(a, "call", CallGiven) = WholeBlock(a, "call", CallGiven)
        BY Zenon, <1>0, NamesDiffer DEF FinishBlock
      <3>a. PICK S \in Seq(BlockRecords) : S = ShutBlocks(R, C)
        BY <1>5
      <3>b. PICK n : n = ShutCount(R, C)
        OBVIOUS
      <3>d. n = Len(S)
        BY Zenon, <1>5, <3>a, <3>b
      <3>3. WholeBlock(Anth(n, th, tx, eth, etx, Reads(S)), "call", CallGiven).client = Reads(Append(S, Stopped("call", <<>> \o CallGiven)))
        BY <1>0, <3>d, CallWhole
      <3>4. B = Append(S, Stopped("call", CallGiven))
        BY Zenon, <1>0, <2>5, <3>a
      <3> HIDE DEF B, m
      <3> QED
        BY Zenon, <1>0, <2>1, <2>2, <2>3, <3>1, <3>2, <3>a, <3>b, <3>3, <3>4
    <2> QED
      BY <2>4, <2>5
  <1>8. e.chat = m
    <2>1. CASE w.sawDelta
      <3>1. e.chat = [Msg(R, C, 0) EXCEPT !.calls = k]
        <4> HIDE DEF w, m
        <4> QED BY <1>1, <1>2, <2>1 DEF StreamEnd
      <3> QED
        BY <3>1 DEF Msg
    <2>2. CASE ~ w.sawDelta
      <3> HIDE DEF w, m
      <3> QED BY <2>2 DEF StreamEnd
    <2> QED
      BY <2>1, <2>2
  <1>9. e.responses = Resp(N, Reads(B)) /\ e.anthropic = AnthropicFinish(AnthOf(R, C), m)
    <2>1. e.responses = ResponsesFinish(w.responses, m) /\ e.anthropic = AnthropicFinish(w.anthropic, m)
      <3> HIDE DEF w, m
      <3> QED BY DEF StreamEnd
    <2> HIDE DEF w, m, e, N, B
    <2> QED BY Zenon, <2>1, <1>2, <1>6
  <1>10. e.responses.items = N /\ e.responses.client = Reads(B) /\ e.anthropic.client = Reads(B)
    <2>1. Resp(N, Reads(B)).items = N /\ Resp(N, Reads(B)).client = Reads(B)
      <3> HIDE DEF N, B
      <3> QED BY DEF Resp
    <2> HIDE DEF m, e, N, B
    <2> QED BY Zenon, <2>1, <1>7, <1>9
  <1> HIDE DEF m, e, N, B
  <1>11. WiresTell(e, m)
    BY Zenon, <1>4, <1>8, <1>10 DEF WiresTell
  <1> QED
    BY Zenon, <1>11 DEF e, m

-----------------------------------------------------------------------------
(* What was published, as it is heard piece by piece.                         *)

\* What is heard after n pieces, as a function; Heard is its last value.
LEMMA HeardRule ==
    ASSUME NEW h, NEW out, Len(out) \in Nat
    PROVE  \E f : /\ Heard(h, out) = f[Len(out)] /\ f[0] = h
                  /\ \A n \in 1..Len(out) : f[n] = AddDelta(f[n - 1], out[n])
  <1> DEFINE Hears(f, x) == f = [n \in 0..x |-> IF n = 0 THEN h ELSE AddDelta(f[n - 1], out[n])]
             pf == CHOOSE f : Hears(f, Len(out))
  <1>0. Len(out) \in Nat
    OBVIOUS
  <1>1. Heard(h, out) = pf[Len(out)]
    BY Zenon DEF Heard
  <1>2. \A n \in Nat : \E f : Hears(f, n)
    <2> DEFINE Bad == {x \in Nat : ~ \E f : Hears(f, x)}
    <2>1. SUFFICES ASSUME Bad # {} PROVE FALSE
      OBVIOUS
    <2>2. PICK x \in Bad : \A y \in Bad : x <= y
      BY <2>1, LeastExists
    <2>3. x \in Nat /\ ~ \E f : Hears(f, x)
      BY <2>2
    <2>4. CASE x = 0
      <3> DEFINE e == [n \in 0..x |-> h]
      <3>1. Hears(e, x)
        BY <2>4
      <3> QED BY <3>1, <2>3
    <2>5. CASE x # 0
      <3>1. x - 1 \in Nat /\ x - 1 \notin Bad
        <4>1. x - 1 \in Nat /\ ~ (x <= x - 1)
          BY <2>3, <2>5
        <4> HIDE DEF Bad
        <4> QED BY <4>1, <2>2
      <3>2. PICK f : Hears(f, x - 1)
        BY <3>1
      <3> DEFINE last == AddDelta(f[x - 1], out[x])
                 g == [n \in 0..x |-> IF n < x THEN f[n] ELSE last]
      <3>3. ASSUME NEW n \in 0..x
            PROVE  g[n] = IF n = 0 THEN h ELSE AddDelta(g[n - 1], out[n])
        <4>1. CASE n < x
          <5>1. n \in 0..(x - 1) /\ g[n] = f[n] /\ (n # 0 => g[n - 1] = f[n - 1])
            BY <4>1, <2>3
          <5>2. f[n] = IF n = 0 THEN h ELSE AddDelta(f[n - 1], out[n])
            BY <3>2, <5>1
          <5> QED BY <5>1, <5>2
        <4>2. CASE n = x
          <5>1. g[n] = last /\ n # 0
            BY <4>2, <2>3, <2>5
          <5>2. n - 1 \in 0..x /\ n - 1 < x
            BY <4>2, <2>3, <2>5
          <5>3. g[n - 1] = f[n - 1]
            BY <5>2
          <5> QED BY <5>1, <5>3, <4>2
        <4> QED BY <4>1, <4>2, <2>3
      <3>4. g = [n \in 0..x |-> g[n]]
        OBVIOUS
      <3>5. Hears(g, x)
        <4> HIDE DEF g
        <4> QED BY <3>3, <3>4
      <3> QED BY <3>5, <2>3
    <2> QED BY <2>4, <2>5
  <1>a. Hears(pf, Len(out))
    BY Zenon, <1>0, <1>2
  <1> HIDE DEF pf
  <1>3. pf[0] = h
    BY <1>0, <1>a
  <1>4. ASSUME NEW n \in 1..Len(out) PROVE pf[n] = AddDelta(pf[n - 1], out[n])
    <2>1. n \in 0..Len(out) /\ n # 0
      BY <1>0
    <2> QED BY <2>1, <1>a
  <1> QED BY <1>1, <1>3, <1>4

\* Nothing was published.
LEMMA HeardNothing ==
    ASSUME NEW h
    PROVE  Heard(h, <<>>) = h
  <1>1. PICK none : none = <<>>
    OBVIOUS
  <1>2. Len(none) = 0 /\ Len(none) \in Nat
    BY <1>1
  <1>3. PICK f : Heard(h, none) = f[Len(none)] /\ f[0] = h
    BY <1>2, HeardRule
  <1> QED
    BY Zenon, <1>1, <1>2, <1>3

\* One more piece was published.
LEMMA HeardMore ==
    ASSUME NEW h, NEW D, NEW out \in Seq(D), NEW d \in D
    PROVE  Heard(h, Append(out, d)) = AddDelta(Heard(h, out), d)
  <1>8b. PICK more : more = Append(out, d)
    OBVIOUS
  <1>0. /\ more \in Seq(D) /\ Len(out) \in Nat /\ Len(more) = Len(out) + 1 /\ Len(more) \in Nat /\ more[Len(out) + 1] = d
        /\ \A i \in 1..Len(out) : more[i] = out[i]
    BY <1>8b
  <1>1. PICK f : /\ Heard(h, out) = f[Len(out)] /\ f[0] = h
                 /\ \A n \in 1..Len(out) : f[n] = AddDelta(f[n - 1], out[n])
    BY <1>0, HeardRule
  <1>2. PICK g : /\ Heard(h, more) = g[Len(more)] /\ g[0] = h
                 /\ \A n \in 1..Len(more) : g[n] = AddDelta(g[n - 1], more[n])
    <2>1. Len(more) \in Nat
      BY <1>0
    <2> QED
      BY <2>1, HeardRule
  <1> DEFINE Bad == {n \in 0..Len(out) : f[n] # g[n]}
  <1>3. Bad = {}
    <2> SUFFICES ASSUME Bad # {} PROVE FALSE
      OBVIOUS
    <2>1. PICK n \in Bad : \A m \in Bad : n <= m
      <3>1. Bad \subseteq Nat
        BY <1>0
      <3> QED BY <3>1, LeastExists
    <2>2. n \in 0..Len(out) /\ f[n] # g[n] /\ n # 0
      BY <2>1, <1>1, <1>2
    <2>3. n \in 1..Len(out) /\ n \in 1..Len(more) /\ n - 1 \in 0..Len(out) /\ ~ (n <= n - 1)
      BY <2>2, <1>0
    <2>4. f[n - 1] = g[n - 1]
      BY <2>3, <2>1
    <2>5. f[n] = g[n]
      BY <2>3, <2>4, <1>0, <1>1, <1>2
    <2> QED BY <2>2, <2>5
  <1>4. Len(out) \in 0..Len(out) /\ Len(more) \in 1..Len(more) /\ Len(more) - 1 = Len(out)
    BY <1>0
  <1>5. f[Len(out)] = g[Len(out)]
    BY <1>3, <1>4
  <1>6. g[Len(more)] = AddDelta(g[Len(out)], d)
    BY <1>0, <1>2, <1>4
  <1>7. Heard(h, more) = AddDelta(Heard(h, out), d)
    BY Zenon, <1>1, <1>2, <1>5, <1>6
  <1> QED
    BY <1>8b, <1>7

\* What was heard when R and then C was published.
Hearing(R, C) == [told |-> [content |-> C, reasoning |-> R], wires |-> WiresOf(R, C)]

\* A piece is heard in full.
LEMMA AddDeltaIs ==
    ASSUME NEW R \in Texts, NEW C \in Texts, NEW t \in Texts, t # <<>>
    PROVE  /\ C = <<>> => AddDelta(Hearing(R, C), Delta("reasoning", t)) = Hearing(R \o t, C)
           /\ AddDelta(Hearing(R, C), Delta("content", t)) = Hearing(R, C \o t)
  <1>1. PICK h : h = Hearing(R, C)
    OBVIOUS
  <1>2. PICK u : u = [content |-> C, reasoning |-> R]
    OBVIOUS
  <1>3. h.told = u /\ h.wires = WiresOf(R, C) /\ u.content = C /\ u.reasoning = R
    BY <1>1, <1>2 DEF Hearing
  <1>4. \A v : [u EXCEPT !.reasoning = v] = [content |-> C, reasoning |-> v]
               /\ [u EXCEPT !.content = v] = [content |-> v, reasoning |-> R]
    BY <1>2
  <1>5. /\ Delta("reasoning", t).channel = "reasoning" /\ Delta("reasoning", t).text = t
        /\ Delta("content", t).channel = "content" /\ Delta("content", t).text = t
    BY DEF Delta
  <1>6. C = <<>> => Stream(WiresOf(R, C), Delta("reasoning", t)) = WiresOf(R \o t, C)
    BY WiresStream
  <1>7. Stream(WiresOf(R, C), Delta("content", t)) = WiresOf(R, C \o t)
    BY WiresStream
  <1>8. C = <<>> => AddDelta(h, Delta("reasoning", t)) = Hearing(R \o t, C)
    BY Zenon, <1>3, <1>4, <1>5, <1>6 DEF AddDelta, Hearing
  <1>9. AddDelta(h, Delta("content", t)) = Hearing(R, C \o t)
    <2>1. [u EXCEPT !["content"] = u["content"] \o t] = [content |-> C \o t, reasoning |-> R]
      BY Zenon, <1>3, <1>4
    <2>2. AddDelta(h, Delta("content", t))
            = [told |-> [u EXCEPT !["content"] = u["content"] \o t], wires |-> Stream(WiresOf(R, C), Delta("content", t))]
      BY Zenon, <1>3, <1>5 DEF AddDelta
    <2> QED
      BY Zenon, <1>7, <2>1, <2>2 DEF Hearing
  <1> QED
    BY Zenon, <1>1, <1>8, <1>9

-----------------------------------------------------------------------------
(* The parser: what it tells is what it has of the message.                   *)

Channels == {"reasoning", "content"}
Pieces1 == [channel : Channels, text : Texts]
ParserTypes ==
    [channel : Channels, functions : BOOLEAN, pending : Texts, xml : Texts, reasoning : Texts,
     content : Texts, leading : Texts, inTools : BOOLEAN, out : Seq(Pieces1)]

\* While the model reasons there is no content yet.
ReasonsFirst(p) == p.channel = "reasoning" => p.content = <<>> /\ p.leading = <<>> /\ ~ p.inTools

\* Whoever heard h, and then what the parser tells, has what the parser has.
Tells(p, h) == p \in ParserTypes /\ ReasonsFirst(p) /\ Heard(h, p.out) = Hearing(p.reasoning, p.content)

\* A part of a text.
LEMMA PartOfText ==
    ASSUME NEW t \in Texts, NEW a \in Nat \ {0}, NEW b \in 0..Len(t)
    PROVE  SubSeq(t, a, b) \in Texts
  BY DEF Texts

\* Where a marker may be in a text.
LEMMA PlacesIn ==
    ASSUME NEW m, NEW t \in Texts
    PROVE  /\ Places(m, t) \subseteq 1..Len(t)
           /\ Places(m, t) # {} => Min(Places(m, t)) \in 1..Len(t)
  <1>1. Places(m, t) \subseteq 1..Len(t)
    BY Zenon DEF Places
  <1>2. PICK S : S = Places(m, t)
    OBVIOUS
  <1>3. S # {} => Min(S) \in S
    <2>1. S \subseteq Nat
      BY <1>1, <1>2 DEF Texts
    <2> QED
      BY <2>1, MinIsLeast
  <1>4. S # {} => Min(S) \in 1..Len(t)
    BY <1>1, <1>2, <1>3
  <1> QED
    BY Zenon, <1>1, <1>2, <1>4

\* The markers.
LEMMA MarkersAre ==
    /\ ThinkClose \in Texts /\ CallOpen \in Texts /\ <<>> \in Texts /\ ClosingText \in Texts
    /\ Len(ThinkClose) = 2 /\ Len(CallOpen) = 2
  <1>1. "<" \in AllGlyphs /\ "k" \in AllGlyphs /\ "t" \in AllGlyphs /\ "s" \in AllGlyphs
    BY DEF AllGlyphs
  <1>2. ThinkClose \in Texts /\ CallOpen \in Texts /\ <<>> \in Texts
    BY <1>1 DEF ThinkClose, CallOpen, Texts
  <1>3. <<Blank>> \in Texts
    BY <1>1 DEF Blank, Texts
  <1>4. ClosingText \in Texts
    BY <1>2, <1>3 DEF ClosingText, Texts
  <1> QED
    BY <1>2, <1>4 DEF ThinkClose, CallOpen

\* How much of the pending text is held back.
LEMMA HeldIn ==
    ASSUME NEW p \in ParserTypes
    PROVE  Held(p) \in 0..Len(p.pending)
  <1>1. p.pending \in Texts
    BY DEF ParserTypes
  <1>2. PICK n : n = Len(p.pending)
    OBVIOUS
  <1>3. n \in Nat
    BY <1>1, <1>2 DEF Texts
  <1>4. Len(Marker(p)) \in Nat
    <2>1. Marker(p) \in {ThinkClose, CallOpen, <<>>}
      BY DEF Marker
    <2>2. Len(<<>>) = 0
      OBVIOUS
    <2> QED
      BY <2>1, <2>2, MarkersAre
  <1>5. PICK k : k = Min({Len(Marker(p)), Len(p.pending)})
    OBVIOUS
  <1>6. k \in Nat /\ k <= n
    BY <1>2, <1>3, <1>4, <1>5, MinOfTwo
  <1>7. PICK S : /\ Held(p) = Max(S) /\ S \subseteq 0..k /\ 0 \in S
    <2> DEFINE S == {i \in 0..k : i = 0 \/ (i < Len(Marker(p)) /\ SubSeq(Marker(p), 1, i)
                         = SubSeq(p.pending, Len(p.pending) - i + 1, Len(p.pending)))}
    <2>1. Held(p) = Max(S)
      BY Zenon, <1>5 DEF Held
    <2>2. S \subseteq 0..k /\ 0 \in S
      BY <1>6
    <2> HIDE DEF S
    <2> QED
      BY <2>1, <2>2
  <1>8. Max(S) \in S
    <2>1. S \subseteq Nat /\ S # {} /\ \A i \in S : i <= k
      BY <1>6, <1>7
    <2> QED
      BY <1>6, <2>1, MaxIsGreatest
  <1>9. Held(p) \in 0..k
    BY Zenon, <1>7, <1>8
  <1>10. Held(p) \in 0..n
    BY <1>3, <1>6, <1>9
  <1> QED
    BY Zenon, <1>2, <1>10

\* A piece is told in the channel of the parser.
LEMMA ToldIs ==
    ASSUME NEW p \in ParserTypes, NEW x
    PROVE  Told(p, x) = [p EXCEPT !.out = Append(p.out, Delta(p.channel, x))]
  BY Zenon DEF Told, Delta

\* A piece that is told is heard.
LEMMA ToldHeard ==
    ASSUME NEW h, NEW p, Tells(p, h), NEW x \in Texts, x # <<>>
    PROVE  /\ Append(p.out, Delta(p.channel, x)) \in Seq(Pieces1)
           /\ p.channel = "reasoning" => Heard(h, Append(p.out, Delta(p.channel, x))) = Hearing(p.reasoning \o x, p.content)
           /\ p.channel = "content" => Heard(h, Append(p.out, Delta(p.channel, x))) = Hearing(p.reasoning, p.content \o x)
  <1>1. /\ p.out \in Seq(Pieces1) /\ p.channel \in Channels /\ p.reasoning \in Texts /\ p.content \in Texts
        /\ p.channel = "reasoning" => p.content = <<>>
    BY DEF Tells, ParserTypes, ReasonsFirst
  <1>2. Delta(p.channel, x) \in Pieces1
    BY <1>1 DEF Delta, Pieces1
  <1>3. Append(p.out, Delta(p.channel, x)) \in Seq(Pieces1)
    BY <1>1, <1>2
  <1>4. Heard(h, Append(p.out, Delta(p.channel, x))) = AddDelta(Heard(h, p.out), Delta(p.channel, x))
    BY <1>1, <1>2, HeardMore
  <1>5. Heard(h, p.out) = Hearing(p.reasoning, p.content)
    BY DEF Tells
  <1>6. p.content = <<>> => AddDelta(Hearing(p.reasoning, p.content), Delta("reasoning", x)) = Hearing(p.reasoning \o x, p.content)
    BY <1>1, AddDeltaIs
  <1>7. AddDelta(Hearing(p.reasoning, p.content), Delta("content", x)) = Hearing(p.reasoning, p.content \o x)
    BY <1>1, AddDeltaIs
  <1> QED
    BY Zenon, <1>1, <1>3, <1>4, <1>5, <1>6, <1>7

\* The fields of a parser.
LEMMA ParserFields ==
    ASSUME NEW p \in ParserTypes
    PROVE  /\ p.channel \in Channels /\ p.functions \in BOOLEAN /\ p.pending \in Texts /\ p.xml \in Texts
           /\ p.reasoning \in Texts /\ p.content \in Texts /\ p.leading \in Texts /\ p.inTools \in BOOLEAN
           /\ p.out \in Seq(Pieces1)
  BY DEF ParserTypes

\* What is uttered is told at once, or held back as leading white space.
LEMMA UtterTells ==
    ASSUME NEW h, NEW p, Tells(p, h), NEW t \in Texts
    PROVE  /\ Tells(Utter(p, t), h)
           /\ Utter(p, t).channel = p.channel /\ (Utter(p, t).inTools <=> p.inTools)
  <1>0. p \in ParserTypes /\ ReasonsFirst(p) /\ Heard(h, p.out) = Hearing(p.reasoning, p.content)
    BY DEF Tells
  <1>1. /\ p.channel \in Channels /\ p.pending \in Texts /\ p.xml \in Texts
        /\ p.reasoning \in Texts /\ p.content \in Texts /\ p.leading \in Texts
    BY <1>0, ParserFields
  <1>2. CASE t = <<>>
    <2>1. Utter(p, t) = p
      BY Zenon, <1>2 DEF Utter
    <2> QED
      BY Zenon, <2>1
  <1>3. CASE t # <<>> /\ p.channel = "reasoning"
    <2>1. PICK o \in Seq(Pieces1) : o = Append(p.out, Delta(p.channel, t))
      BY <1>3, ToldHeard
    <2>2. PICK r \in Texts : r = p.reasoning \o t
      BY <1>1, TextFacts
    <2>3. PICK q : q = [[p EXCEPT !.out = o] EXCEPT !.reasoning = r]
      OBVIOUS
    <2>4. [p EXCEPT !.out = o].reasoning = p.reasoning
      BY <1>0 DEF ParserTypes
    <2>5. Utter(p, t) = q
      BY Zenon, <1>0, <1>3, <2>1, <2>2, <2>3, <2>4, ToldIs DEF Utter
    <2>6. /\ q \in ParserTypes /\ q.out = o /\ q.reasoning = r /\ q.content = p.content
          /\ q.leading = p.leading /\ q.channel = p.channel /\ (q.inTools <=> p.inTools)
      BY <1>0, <2>3 DEF ParserTypes
    <2>7. Heard(h, q.out) = Hearing(q.reasoning, q.content)
      <3>1. Heard(h, Append(p.out, Delta(p.channel, t))) = Hearing(p.reasoning \o t, p.content)
        BY <1>3, ToldHeard
      <3> QED
        BY Zenon, <2>1, <2>2, <2>6, <3>1
    <2>8. ReasonsFirst(q)
      BY <1>0, <2>6 DEF ReasonsFirst
    <2> QED
      BY Zenon, <2>5, <2>6, <2>7, <2>8 DEF Tells
  <1>4. CASE t # <<>> /\ p.channel # "reasoning" /\ p.functions /\ p.content = <<>> /\ AllBlank(t)
    <2>1. PICK l \in Texts : l = p.leading \o t
      BY <1>1, TextFacts
    <2>2. PICK q : q = [p EXCEPT !.leading = l]
      OBVIOUS
    <2>3. Utter(p, t) = q
      BY Zenon, <1>4, <2>1, <2>2 DEF Utter
    <2>4. /\ q \in ParserTypes /\ q.out = p.out /\ q.reasoning = p.reasoning /\ q.content = p.content
          /\ q.channel = p.channel /\ (q.inTools <=> p.inTools)
      BY <1>0, <2>2 DEF ParserTypes
    <2>5. ReasonsFirst(q)
      BY <1>4, <2>4 DEF ReasonsFirst
    <2> QED
      BY Zenon, <1>0, <2>3, <2>4, <2>5 DEF Tells
  <1>5. CASE t # <<>> /\ p.channel # "reasoning" /\ p.functions /\ p.content = <<>> /\ ~ AllBlank(t)
    <2>1. PICK c \in Texts : c = p.leading \o t /\ c # <<>> /\ c = p.content \o c
      <3>1. PICK c \in Texts : c = p.leading \o t /\ c # <<>>
        <4>1. p.leading \in Texts
          BY <1>1
        <4>2. p.leading \o t \in Texts
          BY <4>1, TextFacts
        <4>3. p.leading \o t # <<>>
          BY <4>1, <1>5, TextFacts
        <4> QED
          BY <4>2, <4>3
      <3>2. <<>> \o c = c
        BY TextFacts
      <3> QED
        BY Zenon, <1>5, <3>1, <3>2
    <2>2. PICK o \in Seq(Pieces1) : o = Append(p.out, Delta(p.channel, c))
      BY <2>1, ToldHeard
    <2>a. PICK none \in Texts : none = <<>>
      BY TextFacts
    <2>3. PICK q : q = [p EXCEPT !.out = o, !.content = c, !.leading = none]
      OBVIOUS
    <2>5. Utter(p, t) = q
      <3>1. Told(p, c) = [p EXCEPT !.out = o]
        BY Zenon, <1>0, <2>2, ToldIs
      <3>2. Utter(p, t) = [Told(p, c) EXCEPT !.content = c, !.leading = none]
        BY Zenon, <1>5, <2>1, <2>a DEF Utter
      <3>3. [[p EXCEPT !.out = o] EXCEPT !.content = c, !.leading = none] = [p EXCEPT !.out = o, !.content = c, !.leading = none]
        OBVIOUS
      <3> QED
        BY Zenon, <2>3, <3>1, <3>2, <3>3
    <2>6. /\ q \in ParserTypes /\ q.out = o /\ q.reasoning = p.reasoning /\ q.content = c
          /\ q.channel = p.channel /\ (q.inTools <=> p.inTools)
      BY <1>0, <2>3 DEF ParserTypes
    <2>b. p.channel = "content"
      BY <1>1, <1>5 DEF Channels
    <2>7. Heard(h, q.out) = Hearing(q.reasoning, q.content)
      <3>1. Heard(h, Append(p.out, Delta(p.channel, c))) = Hearing(p.reasoning, p.content \o c)
        BY <2>1, <2>b, ToldHeard
      <3> QED
        BY Zenon, <2>1, <2>2, <2>6, <3>1
    <2>8. ReasonsFirst(q)
      BY <1>5, <2>6 DEF ReasonsFirst
    <2> QED
      BY Zenon, <2>5, <2>6, <2>7, <2>8 DEF Tells
  <1>6. CASE t # <<>> /\ p.channel # "reasoning" /\ ~ (p.functions /\ p.content = <<>>)
    <2>1. PICK o \in Seq(Pieces1) : o = Append(p.out, Delta(p.channel, t))
      BY <1>6, ToldHeard
    <2>2. PICK c \in Texts : c = p.content \o t
      BY <1>1, TextFacts
    <2>3. PICK q : q = [[p EXCEPT !.out = o] EXCEPT !.content = c]
      OBVIOUS
    <2>4. [p EXCEPT !.out = o].content = p.content
      BY <1>0 DEF ParserTypes
    <2>5. Utter(p, t) = q
      BY Zenon, <1>0, <1>6, <2>1, <2>2, <2>3, <2>4, ToldIs DEF Utter
    <2>6. /\ q \in ParserTypes /\ q.out = o /\ q.reasoning = p.reasoning /\ q.content = c
          /\ q.channel = p.channel /\ (q.inTools <=> p.inTools)
      BY <1>0, <2>3 DEF ParserTypes
    <2>b. p.channel = "content"
      BY <1>1, <1>6 DEF Channels
    <2>7. Heard(h, q.out) = Hearing(q.reasoning, q.content)
      <3>1. Heard(h, Append(p.out, Delta(p.channel, t))) = Hearing(p.reasoning, p.content \o t)
        BY <1>6, <2>b, ToldHeard
      <3> QED
        BY Zenon, <2>1, <2>2, <2>6, <3>1
    <2>8. ReasonsFirst(q)
      BY <1>6, <2>6 DEF ReasonsFirst
    <2> QED
      BY Zenon, <2>5, <2>6, <2>7, <2>8 DEF Tells
  <1> QED
    BY <1>2, <1>3, <1>4, <1>5, <1>6

\* What a pass leaves of the pending text is a part of it.
LEMMA PassCuts ==
    ASSUME NEW p \in ParserTypes
    PROVE  \E t \in Texts, rest \in Texts, m \in Texts : \E at : Pass(p) = AfterPass(p, t, rest, at, m)
  <1> DEFINE m == Marker(p)
             at == IF m = <<>> THEN {} ELSE Places(m, p.pending)
             cut == IF at = {} THEN Len(p.pending) - Held(p) ELSE Min(at) - 1
             more == IF at = {} THEN 0 ELSE Len(m)
             t == SubSeq(p.pending, 1, cut)
             rest == SubSeq(p.pending, cut + more + 1, Len(p.pending))
  <1>0. Pass(p) = AfterPass(p, t, rest, at, m)
    BY DEF Pass
  <1>1. p.pending \in Texts /\ Len(p.pending) \in Nat
    BY DEF ParserTypes, Texts
  <1>2. m \in Texts /\ (m = <<>> \/ Len(m) = 2)
    <2>1. Marker(p) = ThinkClose \/ Marker(p) = CallOpen \/ Marker(p) = <<>>
      BY DEF Marker
    <2> QED
      BY <2>1, MarkersAre
  <1> HIDE DEF m
  <1>4. at # {} => Len(m) = 2 /\ Min(at) \in 1..Len(p.pending)
    BY <1>1, <1>2, PlacesIn
  <1> HIDE DEF at
  <1>6. cut \in 0..Len(p.pending)
    <2>1. CASE at = {}
      BY <1>1, <2>1, HeldIn
    <2>2. CASE at # {}
      BY <1>1, <1>4, <2>2
    <2> QED
      BY <2>1, <2>2
  <1>8. more \in Nat
    BY <1>4
  <1> HIDE DEF cut, more
  <1>9. t \in Texts
    <2>1. 1 \in Nat \ {0}
      OBVIOUS
    <2> QED
      BY <1>1, <1>6, <2>1, PartOfText
  <1>10. rest \in Texts
    <2>1. cut + more + 1 \in Nat \ {0} /\ Len(p.pending) \in 0..Len(p.pending)
      BY <1>1, <1>6, <1>8
    <2> QED
      BY <1>1, <2>1, PartOfText
  <1> HIDE DEF t, rest
  <1> QED
    BY Zenon, <1>0, <1>2, <1>9, <1>10

\* A pass of the loop tells no more and no less than it has.
LEMMA PassTells ==
    ASSUME NEW h, NEW p, Tells(p, h)
    PROVE  Tells(Pass(p), h)
  <1>0. p \in ParserTypes
    BY DEF Tells
  <1>1. PICK t \in Texts, rest \in Texts, m \in Texts : \E at : Pass(p) = AfterPass(p, t, rest, at, m)
    BY <1>0, PassCuts
  <1>a. PICK at : Pass(p) = AfterPass(p, t, rest, at, m)
    BY <1>1
  <1>2. PICK u : u = Utter(p, t)
    OBVIOUS
  <1>3. Tells(u, h) /\ u.channel = p.channel
    BY Zenon, <1>2, UtterTells
  <1>4. PICK q : q = [u EXCEPT !.pending = rest]
    OBVIOUS
  <1>5. u \in ParserTypes /\ ReasonsFirst(u) /\ Heard(h, u.out) = Hearing(u.reasoning, u.content)
    BY <1>3 DEF Tells
  <1>6. /\ q \in ParserTypes /\ q.out = u.out /\ q.reasoning = u.reasoning /\ q.content = u.content
        /\ q.channel = u.channel /\ (q.inTools <=> u.inTools) /\ q.leading = u.leading
    BY <1>4, <1>5 DEF ParserTypes
  <1>7. Tells(q, h)
    <2>1. ReasonsFirst(q)
      BY <1>5, <1>6 DEF ReasonsFirst
    <2> QED
      BY Zenon, <1>5, <1>6, <2>1 DEF Tells
  <1>8. CASE p.inTools \/ at = {}
    <2>1. Pass(p) = q
      BY Zenon, <1>a, <1>2, <1>4, <1>8 DEF AfterPass
    <2> QED
      BY Zenon, <1>7, <2>1
  <1>9. CASE ~ (p.inTools \/ at = {}) /\ p.channel = "reasoning"
    <2>1. PICK n : n = [q EXCEPT !.channel = "content"]
      OBVIOUS
    <2>2. Pass(p) = n
      BY Zenon, <1>a, <1>2, <1>4, <1>9, <2>1 DEF AfterPass
    <2>3. n \in ParserTypes /\ n.out = q.out /\ n.reasoning = q.reasoning /\ n.content = q.content /\ n.channel = "content"
      BY <1>6, <2>1 DEF ParserTypes, Channels
    <2>4. ReasonsFirst(n)
      BY <2>3 DEF ReasonsFirst
    <2> QED
      BY Zenon, <1>7, <2>2, <2>3, <2>4 DEF Tells
  <1>10. CASE ~ (p.inTools \/ at = {}) /\ p.channel # "reasoning"
    <2>a. PICK xml \in Texts : xml = m \o rest
      BY TextFacts
    <2>b. PICK none \in Texts : none = <<>>
      BY TextFacts
    <2>1. PICK n : n = [q EXCEPT !.inTools = TRUE, !.leading = none, !.xml = xml, !.pending = none]
      OBVIOUS
    <2>2. Pass(p) = n
      BY Zenon, <1>a, <1>2, <1>4, <1>10, <2>a, <2>b, <2>1 DEF AfterPass
    <2>3. n \in ParserTypes /\ n.out = q.out /\ n.reasoning = q.reasoning /\ n.content = q.content /\ n.channel = q.channel
      BY <1>6, <2>1 DEF ParserTypes
    <2>4. ReasonsFirst(n)
      BY <1>3, <1>6, <1>10, <2>3 DEF ReasonsFirst
    <2> QED
      BY Zenon, <1>7, <2>2, <2>3, <2>4 DEF Tells
  <1> QED
    BY <1>8, <1>9, <1>10

\* A piece of text is told as far as it is settled.
LEMMA FeedTells ==
    ASSUME NEW p \in ParserTypes, ReasonsFirst(p), NEW t \in Texts
    PROVE  Tells(Feed(p, t), Hearing(p.reasoning, p.content))
  <1> DEFINE h == Hearing(p.reasoning, p.content)
  <1>1. PICK none : none = <<>>
    OBVIOUS
  <1>2. none \in Seq(Pieces1)
    BY <1>1
  <1>3. PICK x \in Texts : x = p.xml \o t
    BY ParserFields, TextFacts
  <1>4. PICK y \in Texts : y = p.pending \o t
    BY ParserFields, TextFacts
  <1>5. Heard(h, none) = h
    BY Zenon, <1>1, HeardNothing
  <1>6. CASE p.inTools
    <2>1. PICK n : n = [p EXCEPT !.xml = x, !.out = none]
      OBVIOUS
    <2>2. Feed(p, t) = n
      BY Zenon, <1>1, <1>3, <1>6, <2>1 DEF Feed
    <2>3. n \in ParserTypes /\ n.out = none /\ n.reasoning = p.reasoning /\ n.content = p.content
          /\ n.channel = p.channel /\ (n.inTools <=> p.inTools) /\ n.leading = p.leading
      BY <1>2, <2>1 DEF ParserTypes
    <2>4. ReasonsFirst(n)
      BY <2>3 DEF ReasonsFirst
    <2> QED
      BY Zenon, <1>5, <2>2, <2>3, <2>4 DEF Tells
  <1>7. CASE ~ p.inTools
    <2>1. PICK n : n = [p EXCEPT !.pending = y, !.out = none]
      OBVIOUS
    <2>2. Feed(p, t) = Pass(Pass(Pass(n)))
      BY Zenon, <1>1, <1>4, <1>7, <2>1 DEF Feed
    <2>3. n \in ParserTypes /\ n.out = none /\ n.reasoning = p.reasoning /\ n.content = p.content
          /\ n.channel = p.channel /\ (n.inTools <=> p.inTools) /\ n.leading = p.leading
      BY <1>2, <2>1 DEF ParserTypes
    <2>4. ReasonsFirst(n)
      BY <2>3 DEF ReasonsFirst
    <2>5. Tells(n, h)
      BY Zenon, <1>5, <2>3, <2>4 DEF Tells
    <2>6. Tells(Pass(Pass(Pass(n))), h)
      <3> HIDE DEF h
      <3>1. Tells(Pass(n), h)
        BY <2>5, PassTells
      <3>2. Tells(Pass(Pass(n)), h)
        BY <3>1, PassTells
      <3> QED
        BY <3>2, PassTells
    <2> QED
      BY Zenon, <2>2, <2>6
  <1> QED
    BY <1>6, <1>7

-----------------------------------------------------------------------------
(* The texts of tokens.                                                       *)

\* The steps of a fold, and a fold that takes them.
Steps(N, X) == [1..N -> [X -> X]]
Folds(g, X, h, N, F) == g \in [0..N -> X] /\ g[0] = h /\ \A n \in 1..N : g[n] = F[n][g[n - 1]]

\* A fold over a sequence is a function of how far it is.
LEMMA FoldIs ==
    ASSUME NEW X, NEW h \in X, NEW N \in Nat, NEW F \in Steps(N, X)
    PROVE  \E g : Folds(g, X, h, N, F)
  <1> DEFINE Upto(g, x) == /\ g \in [0..x -> X] /\ g[0] = h
                           /\ \A n \in 1..x : g[n] = F[n][g[n - 1]]
             Bad == {x \in 0..N : ~ \E g : Upto(g, x)}
  <1>1. Bad = {}
    <2>1. SUFFICES ASSUME Bad # {} PROVE FALSE
      OBVIOUS
    <2>2. PICK x \in Bad : \A y \in Bad : x <= y
      <3>1. Bad \subseteq Nat
        OBVIOUS
      <3> QED BY <2>1, <3>1, LeastExists
    <2>3. x \in 0..N /\ ~ \E g : Upto(g, x)
      BY <2>2
    <2>4. CASE x = 0
      <3> DEFINE e == [n \in 0..x |-> h]
      <3>1. Upto(e, x)
        BY <2>4
      <3> QED BY <3>1, <2>3
    <2>5. CASE x # 0
      <3>1. x - 1 \in 0..N /\ x - 1 \notin Bad /\ x \in 1..N
        <4>1. x - 1 \in 0..N /\ ~ (x <= x - 1) /\ x \in 1..N
          BY <2>3, <2>5
        <4> HIDE DEF Bad
        <4> QED BY <4>1, <2>2
      <3>2. PICK f : Upto(f, x - 1)
        BY <3>1
      <3> DEFINE last == F[x][f[x - 1]]
                 g == [n \in 0..x |-> IF n < x THEN f[n] ELSE last]
      <3>3. last \in X
        <4>1. f[x - 1] \in X /\ F[x] \in [X -> X]
          BY <3>1, <3>2 DEF Steps
        <4> QED BY <4>1
      <3>4. ASSUME NEW n \in 1..x PROVE g[n] = F[n][g[n - 1]]
        <4>1. CASE n < x
          BY <4>1, <3>1, <3>2
        <4>2. CASE n = x
          <5>1. n - 1 \in 0..x /\ n - 1 < x /\ n \in 0..x /\ ~ (n < x)
            BY <4>2, <3>1
          <5>2. g[n - 1] = f[n - 1] /\ g[n] = last
            BY <5>1
          <5> QED BY <5>2, <4>2
        <4> QED BY <4>1, <4>2, <3>1
      <3>5. g \in [0..x -> X] /\ g[0] = h
        BY <3>1, <3>2, <3>3
      <3>6. Upto(g, x)
        <4> HIDE DEF g
        <4> QED BY <3>4, <3>5
      <3> QED BY <3>6, <2>3
    <2> QED BY <2>4, <2>5
  <1>2. PICK g : Upto(g, N)
    <2>1. N \in 0..N
      OBVIOUS
    <2> QED BY <1>1, <2>1
  <1> QED BY <1>2 DEF Folds

\* What holds at the start of a fold and is kept by its steps holds at its end.
LEMMA FoldKeeps ==
    ASSUME NEW N \in Nat, NEW f, NEW S, f[0] \in S[0], \A n \in 1..N : f[n - 1] \in S[n - 1] => f[n] \in S[n]
    PROVE  f[N] \in S[N]
  <1> DEFINE Bad == {n \in 0..N : f[n] \notin S[n]}
  <1>1. Bad = {}
    <2>1. SUFFICES ASSUME Bad # {} PROVE FALSE
      OBVIOUS
    <2>2. PICK x \in Bad : \A y \in Bad : x <= y
      <3>1. Bad \subseteq Nat
        OBVIOUS
      <3> QED BY <2>1, <3>1, LeastExists
    <2>3. x \in 0..N /\ f[x] \notin S[x] /\ x # 0
      BY <2>2
    <2>4. x \in 1..N /\ x - 1 \in 0..N /\ ~ (x <= x - 1)
      BY <2>3
    <2>5. f[x - 1] \in S[x - 1]
      BY <2>2, <2>4
    <2> QED BY <2>3, <2>4, <2>5
  <1> QED BY <1>1

DecodeStates == [text : Texts, half : BOOLEAN]

\* The glyphs of a token are a text.
LEMMA GlyphsAre ==
    ASSUME NEW id
    PROVE  Glyphs(id) \in Texts
  <1>1. \A a \in AllGlyphs : <<a>> \in Texts
    BY DEF Texts
  <1>2. "k" \in AllGlyphs /\ "<" \in AllGlyphs /\ Blank \in AllGlyphs /\ "w" \in AllGlyphs /\ "t" \in AllGlyphs /\ "/" \in AllGlyphs
    BY DEF AllGlyphs, Blank
  <1>3. <<"<", "t", "w">> \in Texts /\ <<"<", "/">> \in Texts
    BY <1>2 DEF Texts
  <1>4. ClosingText \in Texts
    BY MarkersAre
  <1> QED
    BY <1>1, <1>2, <1>3, <1>4 DEF Glyphs

\* A token decoded more.
LEMMA DecodeStepIs ==
    ASSUME NEW d \in DecodeStates, NEW id
    PROVE  DecodeStep(d, id) \in DecodeStates
  <1>1. d.text \in Texts /\ d.half \in BOOLEAN /\ "?" \in AllGlyphs /\ "w" \in AllGlyphs
    BY DEF DecodeStates, AllGlyphs
  <1>2. Append(d.text, "?") \in Texts /\ Append(d.text, "w") \in Texts
    BY <1>1 DEF Texts
  <1>3. Glyphs(id) \in Texts
    BY GlyphsAre
  <1>4. PICK b \in Texts : b = IF d.half THEN Append(d.text, "?") ELSE d.text
    BY <1>1, <1>2
  <1>5. b \o Glyphs(id) \in Texts
    BY <1>3, TextFacts
  <1>6. \A t \in Texts : [text |-> t, half |-> FALSE] \in DecodeStates /\ [text |-> t, half |-> TRUE] \in DecodeStates
    BY DEF DecodeStates
  <1>7. CASE id = "H"
    <2>1. PICK t \in Texts : t = Append(d.text, IF d.half THEN "w" ELSE "?")
      BY <1>2
    <2>2. DecodeStep(d, id) = [text |-> t, half |-> FALSE]
      BY <1>7, <2>1 DEF DecodeStep
    <2> QED BY <1>6, <2>2
  <1>8. CASE id = "h"
    <2>1. DecodeStep(d, id) = [text |-> b, half |-> TRUE]
      BY <1>4, <1>8 DEF DecodeStep
    <2> QED BY <1>6, <2>1
  <1>9. CASE id # "H" /\ id # "h"
    <2>1. PICK t \in Texts : t = b \o Glyphs(id)
      BY <1>5
    <2>2. DecodeStep(d, id) = [text |-> t, half |-> FALSE]
      BY <1>4, <1>9, <2>1 DEF DecodeStep
    <2> QED BY <1>6, <2>2
  <1> QED BY <1>7, <1>8, <1>9

\* What is decoded is a text.
LEMMA DecodeIs ==
    ASSUME NEW ids, Len(ids) \in Nat
    PROVE  Decode(ids) \in Texts
  <1> DEFINE N == Len(ids)
             h == [text |-> <<>>, half |-> FALSE]
             F == [n \in 1..N |-> [x \in DecodeStates |-> DecodeStep(x, ids[n])]]
             Reads1(g) == g = [n \in 0..N |-> IF n = 0 THEN h ELSE DecodeStep(g[n - 1], ids[n])]
             read == CHOOSE g : Reads1(g)
  <1>1. Decode(ids) = IF read[Len(ids)].half THEN Append(read[Len(ids)].text, "?") ELSE read[Len(ids)].text
    BY Zenon DEF Decode
  <1>2. h \in DecodeStates /\ N \in Nat
    BY DEF DecodeStates, Texts
  <1>3. F \in Steps(N, DecodeStates)
    BY DecodeStepIs DEF Steps
  <1>4. \E g : Reads1(g)
    <2> HIDE DEF h
    <2>1. PICK g : Folds(g, DecodeStates, h, N, F)
      <3> HIDE DEF F, N
      <3> QED BY Zenon, <1>2, <1>3, FoldIs
    <2>2. ASSUME NEW n \in 0..N PROVE g[n] = IF n = 0 THEN h ELSE DecodeStep(g[n - 1], ids[n])
      <3>1. CASE n = 0
        BY <2>1, <3>1 DEF Folds
      <3>2. CASE n # 0
        <4>1. n \in 1..N /\ n - 1 \in 0..N
          BY <1>2, <3>2
        <4>2. g[n] = F[n][g[n - 1]]
          BY <2>1, <4>1 DEF Folds
        <4>3. g[n - 1] \in DecodeStates
          BY <2>1, <4>1 DEF Folds
        <4> QED BY <3>2, <4>1, <4>2, <4>3
      <3> QED BY <3>1, <3>2
    <2>3. g = [n \in 0..N |-> IF n = 0 THEN h ELSE DecodeStep(g[n - 1], ids[n])]
      <3>1. g = [n \in 0..N |-> g[n]]
        BY <2>1 DEF Folds
      <3> QED BY <2>2, <3>1
    <2> QED BY <2>3
  <1>5. Reads1(read)
    BY Zenon, <1>4
  <1> HIDE DEF read
  <1>6. read[0] \in DecodeStates
    BY <1>2, <1>5
  <1>7. ASSUME NEW n \in 1..N, read[n - 1] \in DecodeStates PROVE read[n] \in DecodeStates
    <2>1. n \in 0..N /\ n # 0
      BY <1>2
    <2>2. read[n] = DecodeStep(read[n - 1], ids[n])
      BY <1>5, <2>1
    <2> QED BY <1>7, <2>2, DecodeStepIs
  <1>8. PICK d : d = read[N]
    OBVIOUS
  <1>9. d \in DecodeStates
    <2>1. PICK S : S = [n \in 0..N |-> DecodeStates]
      OBVIOUS
    <2>2. S[0] = DecodeStates /\ S[N] = DecodeStates /\ \A n \in 1..N : S[n] = DecodeStates /\ S[n - 1] = DecodeStates
      BY <1>2, <2>1
    <2>3. read[0] \in S[0] /\ \A n \in 1..N : read[n - 1] \in S[n - 1] => read[n] \in S[n]
      BY <1>6, <1>7, <2>2
    <2>4. read[N] \in S[N]
      <3> HIDE DEF N
      <3> QED BY <1>2, <2>3, FoldKeeps
    <2> QED BY <1>8, <2>2, <2>4
  <1>10. d.text \in Texts /\ d.half \in BOOLEAN /\ Append(d.text, "?") \in Texts
    BY <1>9 DEF DecodeStates, Texts, AllGlyphs
  <1>11. Decode(ids) = IF d.half THEN Append(d.text, "?") ELSE d.text
    BY Zenon, <1>1, <1>8
  <1> QED BY <1>10, <1>11

\* The tokens that are text, of any tokens.
LEMMA VisibleIs ==
    ASSUME NEW D, NEW ids \in Seq(D)
    PROVE  Visible(ids) \in Seq(D)
  <1> DEFINE N == Len(ids)
             F == [n \in 1..N |-> [x \in Seq(D) |-> Seen(x, ids[n])]]
             Sees(g) == g = [n \in 0..N |-> IF n = 0 THEN <<>> ELSE Seen(g[n - 1], ids[n])]
             seen1 == CHOOSE g : Sees(g)
  <1>1. Visible(ids) = seen1[N]
    BY Zenon DEF Visible
  <1>2. PICK h : h = <<>>
    OBVIOUS
  <1>h. h \in Seq(D)
    BY <1>2
  <1>n. N \in Nat
    OBVIOUS
  <1>s. ASSUME NEW x \in Seq(D), NEW n \in 1..N PROVE Seen(x, ids[n]) \in Seq(D)
    BY DEF Seen
  <1>3. F \in Steps(N, Seq(D))
    BY <1>s DEF Steps
  <1>4. \E g : Sees(g)
    <2>1. PICK g : Folds(g, Seq(D), h, N, F)
      <3> HIDE DEF F, N
      <3> QED BY Zenon, <1>h, <1>n, <1>3, FoldIs
    <2>2. ASSUME NEW n \in 0..N PROVE g[n] = IF n = 0 THEN <<>> ELSE Seen(g[n - 1], ids[n])
      <3>1. CASE n = 0
        BY <1>2, <2>1, <3>1 DEF Folds
      <3>2. CASE n # 0
        <4>1. n \in 1..N /\ n - 1 \in 0..N
          BY <1>n, <3>2
        <4>2. g[n] = F[n][g[n - 1]]
          BY <2>1, <4>1 DEF Folds
        <4>3. g[n - 1] \in Seq(D)
          BY <2>1, <4>1 DEF Folds
        <4> QED BY <3>2, <4>1, <4>2, <4>3
      <3> QED BY <3>1, <3>2
    <2>3. g = [n \in 0..N |-> IF n = 0 THEN <<>> ELSE Seen(g[n - 1], ids[n])]
      <3>1. g = [n \in 0..N |-> g[n]]
        BY <2>1 DEF Folds
      <3> QED BY <2>2, <3>1
    <2> QED BY <2>3
  <1>5. Sees(seen1)
    BY Zenon, <1>4
  <1> HIDE DEF seen1
  <1>6. seen1[0] \in Seq(D)
    BY <1>n, <1>5
  <1>7. ASSUME NEW n \in 1..N, seen1[n - 1] \in Seq(D) PROVE seen1[n] \in Seq(D)
    <2>1. n \in 0..N /\ n # 0
      BY <1>n
    <2>2. seen1[n] = Seen(seen1[n - 1], ids[n])
      BY <1>5, <2>1
    <2> QED BY <1>s, <1>7, <2>2
  <1>8. seen1[N] \in Seq(D)
    <2>1. PICK S : S = [n \in 0..N |-> Seq(D)]
      OBVIOUS
    <2>2. S[0] = Seq(D) /\ S[N] = Seq(D) /\ \A n \in 1..N : S[n] = Seq(D) /\ S[n - 1] = Seq(D)
      BY <1>n, <2>1
    <2>3. seen1[0] \in S[0] /\ \A n \in 1..N : seen1[n - 1] \in S[n - 1] => seen1[n] \in S[n]
      BY <1>6, <1>7, <2>2
    <2>4. seen1[N] \in S[N]
      <3> HIDE DEF N
      <3> QED BY <1>n, <2>3, FoldKeeps
    <2> QED BY <2>2, <2>4
  <1> QED BY Zenon, <1>1, <1>8

\* The settled part of a text is a part of it.
LEMMA StableIs ==
    ASSUME NEW t \in Texts
    PROVE  Stable(t) \in Texts
  <1> DEFINE W == {n \in 0..Len(t) : n = 0 \/ t[n] # "?"}
  <1>1. Stable(t) = SubSeq(t, 1, Max(W))
    BY Zenon DEF Stable
  <1>2. Len(t) \in Nat
    BY DEF Texts
  <1>3. W \subseteq Nat /\ W # {} /\ \A n \in W : n <= Len(t)
    BY <1>2
  <1>4. Max(W) \in W
    <2> HIDE DEF W
    <2> QED BY <1>2, <1>3, MaxIsGreatest
  <1>5. Max(W) \in 0..Len(t)
    BY <1>4
  <1>6. 1 \in Nat \ {0}
    OBVIOUS
  <1> QED BY <1>1, <1>5, <1>6, PartOfText

\* What is new of a text is a part of it.
LEMMA UnseenIs ==
    ASSUME NEW fed \in Texts, NEW t \in Texts
    PROVE  Unseen(fed, t) \in Texts
  <1> DEFINE k == Min({Len(fed), Len(t)})
             W == {n \in 0..k : SubSeq(fed, 1, n) = SubSeq(t, 1, n)}
  <1>1. Unseen(fed, t) = SubSeq(t, Max(W) + 1, Len(t))
    BY Zenon DEF Unseen
  <1>2. Len(t) \in Nat /\ Len(fed) \in Nat
    BY DEF Texts
  <1>3. k \in Nat
    BY <1>2, MinOfTwo
  <1>4. SubSeq(fed, 1, 0) = SubSeq(t, 1, 0)
    BY DEF Texts
  <1> HIDE DEF k
  <1>5. W \subseteq Nat /\ W # {} /\ \A n \in W : n <= k
    <2>1. 0 \in W
      BY <1>3, <1>4
    <2> QED BY <1>3, <2>1
  <1>6. Max(W) \in Nat
    <2> HIDE DEF W
    <2> QED BY <1>3, <1>5, MaxIsGreatest
  <1>7. Max(W) + 1 \in Nat \ {0} /\ Len(t) \in 0..Len(t)
    BY <1>2, <1>6
  <1> HIDE DEF W
  <1> QED BY <1>1, <1>7, PartOfText

\* The rest of a text that was told in part.
LEMMA RestIs ==
    ASSUME NEW C \in Texts, NEW c \in Texts
    PROVE  SubSeq(C \o c, Len(C) + 1, Len(C \o c)) = c
  <1>1. PICK x \in Texts : x = C \o c
    BY TextFacts
  <1>2. Len(C) \in Nat /\ Len(c) \in Nat /\ Len(x) = Len(C) + Len(c)
    BY <1>1 DEF Texts
  <1>3. \A i \in 1..Len(c) : x[Len(C) + i] = c[i]
    BY <1>1, <1>2 DEF Texts
  <1>4. PICK y : y = SubSeq(x, Len(C) + 1, Len(x))
    OBVIOUS
  <1>5. y \in Seq(AllGlyphs) /\ Len(y) = Len(c)
    BY <1>2, <1>4 DEF Texts
  <1>6. ASSUME NEW i \in 1..Len(c) PROVE y[i] = c[i]
    BY <1>2, <1>3, <1>4 DEF Texts
  <1>7. c \in Seq(AllGlyphs)
    BY DEF Texts
  <1>8. y = c
    <2>1. PICK n : n = Len(c)
      OBVIOUS
    <2>2. Len(y) = n /\ Len(c) = n /\ \A i \in 1..n : y[i] = c[i]
      BY <1>5, <1>6, <2>1
    <2> QED BY <1>5, <1>7, <2>2, SameSequence
  <1> QED BY Zenon, <1>1, <1>4, <1>8

\* One piece published.
LEMMA HeardOne ==
    ASSUME NEW h, NEW d
    PROVE  Heard(h, <<d>>) = AddDelta(h, d)
  <1>1. PICK none : none = <<>>
    OBVIOUS
  <1>s. none \in Seq({d})
    BY <1>1
  <1>2. PICK x : x = Append(none, d)
    OBVIOUS
  <1>3. x = <<d>>
    BY <1>1, <1>2
  <1>4. d \in {d}
    OBVIOUS
  <1>5. Heard(h, Append(none, d)) = AddDelta(Heard(h, none), d)
    BY <1>s, <1>4, HeardMore
  <1>6. Heard(h, none) = h
    BY Zenon, <1>1, HeardNothing
  <1> QED BY Zenon, <1>2, <1>3, <1>5, <1>6

\* The tails of a message bring what was heard to the message.
LEMMA TailsHeard ==
    ASSUME NEW R \in Texts, NEW C \in Texts, NEW r \in Texts, NEW c \in Texts, NEW k,
           r # <<>> => C = <<>> /\ c = <<>>
    PROVE  Heard(Hearing(R, C), Tails(Hearing(R, C).told, Msg(R \o r, C \o c, k))) = Hearing(R \o r, C \o c)
  <1>1. PICK h : h = Hearing(R, C)
    OBVIOUS
  <1>2. PICK u : u = [content |-> C, reasoning |-> R]
    OBVIOUS
  <1>3. h.told = u /\ u.content = C /\ u.reasoning = R
    BY <1>1, <1>2 DEF Hearing
  <1>4. PICK m : m = Msg(R \o r, C \o c, k)
    OBVIOUS
  <1>5. m.content = C \o c /\ m.reasoning = R \o r
    BY <1>4 DEF Msg
  <1>6. /\ SubSeq(C \o c, Len(C) + 1, Len(C \o c)) = c
        /\ SubSeq(R \o r, Len(R) + 1, Len(R \o r)) = r
    BY RestIs
  <1>7. TailOf(u, "content", m.content) = IF c = <<>> THEN <<>> ELSE <<Delta("content", c)>>
    BY Zenon, <1>3, <1>5, <1>6 DEF TailOf, Delta
  <1>8. TailOf(u, "reasoning", m.reasoning) = IF r = <<>> THEN <<>> ELSE <<Delta("reasoning", r)>>
    BY Zenon, <1>3, <1>5, <1>6 DEF TailOf, Delta
  <1>9. R \o <<>> = R /\ C \o <<>> = C
    BY TextFacts
  <1>10. CASE r = <<>> /\ c = <<>>
    <2>1. Tails(u, m) = <<>>
      BY Zenon, <1>7, <1>8, <1>10, JoinedSmall DEF Tails
    <2>2. Heard(h, <<>>) = h
      BY HeardNothing
    <2> QED BY Zenon, <1>1, <1>3, <1>4, <1>9, <1>10, <2>1, <2>2
  <1>11. CASE r # <<>>
    <2>1. Tails(u, m) = <<Delta("reasoning", r)>>
      BY Zenon, <1>7, <1>8, <1>11, JoinedSmall DEF Tails
    <2>2. Heard(h, <<Delta("reasoning", r)>>) = AddDelta(h, Delta("reasoning", r))
      BY HeardOne
    <2>3. AddDelta(Hearing(R, C), Delta("reasoning", r)) = Hearing(R \o r, C)
      BY <1>11, AddDeltaIs
    <2> QED BY Zenon, <1>1, <1>3, <1>4, <1>9, <1>11, <2>1, <2>2, <2>3
  <1>12. CASE r = <<>> /\ c # <<>>
    <2>1. Tails(u, m) = <<Delta("content", c)>>
      BY Zenon, <1>7, <1>8, <1>12, JoinedSmall DEF Tails
    <2>2. Heard(h, <<Delta("content", c)>>) = AddDelta(h, Delta("content", c))
      BY HeardOne
    <2>3. AddDelta(Hearing(R, C), Delta("content", c)) = Hearing(R, C \o c)
      BY <1>12, AddDeltaIs
    <2> QED BY Zenon, <1>1, <1>3, <1>4, <1>9, <1>12, <2>1, <2>2, <2>3
  <1> QED BY <1>10, <1>11, <1>12

-----------------------------------------------------------------------------
(* The turns: what the clients of either engine's turn hear.                  *)

TokenIds == (UNION Vocabularies) \cup {Stop, Shut}
Answers == [content : Texts, reasoning : Texts, calls : {0, 1}]

TurnTypes ==
    /\ setup.words \in SUBSET TokenIds /\ produced \in Seq(TokenIds) /\ spent \in Nat /\ cancelled \in BOOLEAN
    /\ closed_by \in {"none", "budget", "unterminated"} /\ parser \in ParserTypes /\ answer \in Answers

\* What was told is what the parser has.
InStep == SoFar = Hearing(parser.reasoning, parser.content) /\ ReasonsFirst(parser)

\* What StatusHonest says of a turn that has its verdict.
Honest ==
    /\ verdict.status = "completed" =>
          /\ Last(produced) = Stop /\ parser.channel = "content"
          /\ parser.inTools => answer.calls = 1
          /\ setup.choice = "required" => answer.calls = 1
    /\ FinishReason(verdict) = "length" <=> Last(produced) # Stop
    /\ FinishReason(verdict) = "length" => Len(produced) >= MaxNew

TurnTells ==
    /\ turnpc = "idle" => SoFar = Hearing(<<>>, <<>>) /\ produced = <<>>
    /\ turnpc \in {"idle", "window", "inject", "over"} => InStep
    /\ turnpc = "told" /\ verdict.status # "failed" => SoFar = Hearing(answer.reasoning, answer.content)
    /\ turnpc = "done" /\ verdict.status # "failed" =>
          told = [content |-> answer.content, reasoning |-> answer.reasoning]
    /\ Ended => WiresTell(wires, answer)
    /\ turnpc \in {"told", "done"} /\ verdict.status \in {"completed", "incomplete"} => Honest

\* The windows of the resident engine.
TailTypes == [ids : Seq(TokenIds), fed : Texts, any : BOOLEAN]
CutOff == produced # <<>> /\ (Last(produced) # Stop => Len(produced) >= MaxNew)
ResidentWindows ==
    /\ turnpc \in {"idle", "window", "inject", "over", "told", "done"}
    /\ seen \in Nat /\ halt \in BOOLEAN /\ text \in TailTypes
    /\ turnpc \in {"idle", "window"} => seen <= Len(produced) /\ Len(produced) < MaxNew /\ ~halt
    /\ turnpc = "inject" => /\ produced # <<>> /\ seen = Len(ApplyInject(produced))
                            /\ halt => seen >= MaxNew
    /\ turnpc = "over" /\ ~cancelled => CutOff /\ (halt => Last(produced) # Stop)
ResidentTurnInv == TurnTypes /\ TurnTells /\ ResidentWindows

\* The jobs of the ExLlama generator.
Finals == {"none", "stop", "max", "synthetic"}
Serials == [ids : Seq(TokenIds), fed : Texts, left : Int]
AtLimit(tape) == tape # <<>> /\ Last(tape) # Stop /\ Len(tape) >= MaxNew
RollbackJobs ==
    /\ turnpc \in {"idle", "window", "over", "told", "done"}
    /\ serial \in Serials /\ final \in Finals
    /\ turnpc \in {"idle", "window"} => final = "none" /\ serial.left >= 1 /\ Len(produced) + serial.left = MaxNew
    /\ turnpc = "over" /\ ~cancelled => final # "none" /\ (final \in {"max", "synthetic"} => AtLimit(produced))
RollbackTurnInv == TurnTypes /\ TurnTells /\ RollbackJobs

\* A parser that is told nothing tells nothing.
LEMMA QuietTells ==
    ASSUME NEW p \in ParserTypes, ReasonsFirst(p)
    PROVE  Tells([p EXCEPT !.out = <<>>], Hearing(p.reasoning, p.content))
  <1>1. PICK none : none = <<>>
    OBVIOUS
  <1>2. none \in Seq(Pieces1)
    BY <1>1
  <1>3. PICK q : q = [p EXCEPT !.out = none]
    OBVIOUS
  <1>4. q \in ParserTypes /\ q.out = none /\ q.reasoning = p.reasoning /\ q.content = p.content
        /\ q.channel = p.channel /\ (q.inTools <=> p.inTools) /\ q.leading = p.leading
    BY <1>2, <1>3 DEF ParserTypes
  <1>5. ReasonsFirst(q)
    BY <1>4 DEF ReasonsFirst
  <1>6. PICK h : h = Hearing(p.reasoning, p.content)
    OBVIOUS
  <1>7. Heard(h, none) = h
    BY Zenon, <1>1, HeardNothing
  <1>8. Tells(q, h)
    BY Zenon, <1>4, <1>5, <1>6, <1>7 DEF Tells
  <1> QED BY Zenon, <1>1, <1>3, <1>6, <1>8

\* The parser of a turn that begins.
LEMMA NewParserIs ==
    ASSUME NEW thinking \in BOOLEAN, NEW functions \in BOOLEAN
    PROVE  /\ NewParser(thinking, functions) \in ParserTypes /\ ReasonsFirst(NewParser(thinking, functions))
           /\ NewParser(thinking, functions).reasoning = <<>> /\ NewParser(thinking, functions).content = <<>>
  <1>1. PICK no \in BOOLEAN : no = FALSE
    OBVIOUS
  <1>2. PICK none : none = <<>>
    OBVIOUS
  <1>3. none \in Seq(Pieces1) /\ none \in Texts
    BY <1>2 DEF Texts
  <1>4. PICK ch \in Channels : ch = IF thinking THEN "reasoning" ELSE "content"
    BY DEF Channels
  <1>5. PICK p : p = [channel |-> ch, functions |-> functions, pending |-> none, xml |-> none, reasoning |-> none,
                      content |-> none, leading |-> none, inTools |-> no, out |-> none]
    OBVIOUS
  <1>6. p \in ParserTypes
    BY <1>3, <1>5 DEF ParserTypes
  <1>7. p.reasoning = none /\ p.content = none /\ p.leading = none /\ (p.inTools <=> no)
    BY <1>5
  <1>8. ReasonsFirst(p)
    BY <1>1, <1>2, <1>7 DEF ReasonsFirst
  <1>9. NewParser(thinking, functions) = p
    BY Zenon, <1>1, <1>2, <1>4, <1>5 DEF NewParser
  <1> QED BY Zenon, <1>2, <1>6, <1>7, <1>8, <1>9

\* Three texts after each other.
LEMMA JoinedTwice ==
    ASSUME NEW a \in Texts, NEW b \in Texts, NEW c \in Texts
    PROVE  (a \o b) \o c = a \o (b \o c)
  <1>1. PICK x \in Texts : x = a \o b
    BY TextFacts
  <1>2. PICK y \in Texts : y = b \o c
    BY TextFacts
  <1>3. PICK l \in Texts : l = x \o c
    BY TextFacts
  <1>4. PICK r \in Texts : r = a \o y
    BY TextFacts
  <1>5. Len(a) \in Nat /\ Len(b) \in Nat /\ Len(c) \in Nat
    BY DEF Texts
  <1>6. Len(x) = Len(a) + Len(b) /\ Len(y) = Len(b) + Len(c)
    BY <1>1, <1>2 DEF Texts
  <1>7. Len(l) = Len(a) + Len(b) + Len(c) /\ Len(r) = Len(a) + Len(b) + Len(c)
    <2>1. Len(l) = Len(x) + Len(c) /\ Len(r) = Len(a) + Len(y)
      BY <1>3, <1>4 DEF Texts
    <2> QED BY <1>5, <1>6, <2>1
  <1>8. PICK n \in Nat : n = Len(a) + Len(b) + Len(c)
    BY <1>5
  <1>9. ASSUME NEW i \in 1..n PROVE l[i] = r[i]
    <2>1. CASE i <= Len(a)
      <3>1. l[i] = x[i] /\ x[i] = a[i]
        BY <1>1, <1>3, <1>5, <1>6, <2>1 DEF Texts
      <3>2. r[i] = a[i]
        BY <1>4, <1>5, <2>1 DEF Texts
      <3> QED BY <3>1, <3>2
    <2>2. CASE i > Len(a) /\ i <= Len(a) + Len(b)
      <3>1. l[i] = x[i] /\ x[i] = b[i - Len(a)]
        BY <1>1, <1>3, <1>5, <1>6, <2>2 DEF Texts
      <3>2. r[i] = y[i - Len(a)] /\ y[i - Len(a)] = b[i - Len(a)]
        BY <1>2, <1>4, <1>5, <1>6, <1>8, <2>2 DEF Texts
      <3> QED BY <3>1, <3>2
    <2>3. CASE i > Len(a) + Len(b)
      <3>1. l[i] = c[i - (Len(a) + Len(b))]
        BY <1>3, <1>5, <1>6, <1>8, <2>3 DEF Texts
      <3>2. r[i] = y[i - Len(a)] /\ y[i - Len(a)] = c[(i - Len(a)) - Len(b)]
        BY <1>2, <1>4, <1>5, <1>6, <1>8, <2>3 DEF Texts
      <3>3. (i - Len(a)) - Len(b) = i - (Len(a) + Len(b))
        BY <1>5, <1>8
      <3> QED BY <3>1, <3>2, <3>3
    <2> QED BY <1>5, <1>8, <2>1, <2>2, <2>3
  <1>10. l = r
    <2>1. l \in Seq(AllGlyphs) /\ r \in Seq(AllGlyphs) /\ Len(l) = n /\ Len(r) = n
      BY <1>7, <1>8 DEF Texts
    <2> QED BY <1>9, <2>1, SameSequence
  <1> QED BY Zenon, <1>1, <1>2, <1>3, <1>4, <1>10

\* The message of a parser, and what is heard of it once its tails are published.
LEMMA MessageHeard ==
    ASSUME NEW p \in ParserTypes, ReasonsFirst(p), NEW complete
    PROVE  /\ Message(p, complete) \in Answers
           /\ (complete /\ p.inTools) => Message(p, complete).calls = 1
           /\ Heard(Hearing(p.reasoning, p.content),
                    Tails(Hearing(p.reasoning, p.content).told, Message(p, complete)))
                 = Hearing(Message(p, complete).reasoning, Message(p, complete).content)
  <1>1. /\ p.channel \in Channels /\ p.pending \in Texts /\ p.reasoning \in Texts
        /\ p.content \in Texts /\ p.leading \in Texts
    BY ParserFields
  <1>2. PICK e \in Texts : e = IF p.channel = "content" /\ ~p.inTools THEN p.pending ELSE <<>>
    BY <1>1, TextFacts
  <1>3. PICK r \in Texts : r = IF p.channel = "reasoning" THEN p.pending ELSE <<>>
    BY <1>1, TextFacts
  <1>4. PICK c \in Texts : c = p.leading \o e
    BY <1>1, TextFacts
  <1>5. p.content \o p.leading \o e = p.content \o c
    <2>1. (p.content \o p.leading) \o e = p.content \o (p.leading \o e)
      <3>1. PICK a \in Texts, b \in Texts : a = p.content /\ b = p.leading
        BY <1>1
      <3>2. (a \o b) \o e = a \o (b \o e)
        BY ZenonT(60), JoinedTwice
      <3> QED BY Zenon, <3>1, <3>2
    <2> QED BY Zenon, <1>4, <2>1
  <1>6. PICK k \in {0, 1} : k = IF complete /\ p.inTools THEN 1 ELSE 0
    OBVIOUS
  <1>7. Message(p, complete) = Msg(p.reasoning \o r, p.content \o c, k)
    BY Zenon, <1>2, <1>3, <1>5, <1>6 DEF Message, Msg
  <1>8. PICK R \in Texts : R = p.reasoning \o r
    BY <1>1, TextFacts
  <1>9. PICK C \in Texts : C = p.content \o c
    BY <1>1, TextFacts
  <1>10. Msg(R, C, k) \in Answers /\ Msg(R, C, k).calls = k /\ Msg(R, C, k).reasoning = R /\ Msg(R, C, k).content = C
    BY DEF Msg, Answers
  <1>11. r # <<>> => p.content = <<>> /\ c = <<>>
    <2>1. ASSUME p.channel = "reasoning" PROVE p.content = <<>> /\ c = <<>>
      <3>1. p.content = <<>> /\ p.leading = <<>> /\ e = <<>>
        BY <1>2, <2>1 DEF ReasonsFirst
      <3>2. PICK none : none = <<>> /\ none \in Texts
        BY TextFacts
      <3>3. none \o none = none
        BY <3>2, TextFacts
      <3> QED BY Zenon, <1>4, <3>1, <3>2, <3>3
    <2> QED BY <1>3, <2>1
  <1>12. Heard(Hearing(p.reasoning, p.content), Tails(Hearing(p.reasoning, p.content).told, Msg(p.reasoning \o r, p.content \o c, k)))
            = Hearing(p.reasoning \o r, p.content \o c)
    BY <1>1, <1>11, TailsHeard
  <1>13. complete /\ p.inTools => k = 1
    BY <1>6
  <1> QED BY Zenon, <1>7, <1>8, <1>9, <1>10, <1>12, <1>13

\* What is published is what was heard.
LEMMA Publishes ==
    ASSUME NEW R, NEW C, Publish(Hearing(R, C))
    PROVE  SoFar' = Hearing(R, C)
  <1>1. PICK h : h = Hearing(R, C)
    OBVIOUS
  <1>2. told' = h.told /\ wires' = h.wires
    BY Zenon, <1>1 DEF Publish
  <1>3. h.told = [content |-> C, reasoning |-> R] /\ h.wires = WiresOf(R, C)
    BY <1>1 DEF Hearing
  <1> QED BY Zenon, <1>2, <1>3 DEF SoFar, Hearing

\* A turn begins as it was.
LEMMA StartTurnTells ==
    ASSUME TurnTypes, TurnTells, NEW thinking \in BOOLEAN, StartTurn(thinking)
    PROVE  TurnTypes' /\ TurnTells' /\ produced' = <<>>
  <1>1. PICK functions \in BOOLEAN, words \in Vocabularies : /\ setup'.words = words
                                                             /\ parser' = NewParser(thinking, functions)
    BY DEF StartTurn
  <1>2. words \in SUBSET TokenIds
    BY DEF TokenIds
  <1>3. UNCHANGED <<produced, spent, closed_by, cancelled, told, wires, verdict, answer>> /\ turnpc = "idle" /\ turnpc' = "window"
    BY DEF StartTurn
  <1>4. /\ parser' \in ParserTypes /\ ReasonsFirst(parser') /\ parser'.reasoning = <<>> /\ parser'.content = <<>>
    BY Zenon, <1>1, NewParserIs
  <1>5. TurnTypes'
    <2>1. setup'.words \in SUBSET TokenIds
      BY <1>1, <1>2
    <2> QED BY <1>3, <1>4, <2>1 DEF TurnTypes
  <1>6. SoFar = Hearing(<<>>, <<>>) /\ produced = <<>>
    BY <1>3 DEF TurnTells
  <1>7. SoFar' = SoFar
    BY <1>3 DEF SoFar
  <1>8. InStep'
    BY Zenon, <1>4, <1>6, <1>7 DEF InStep
  <1>9. TurnTells'
    BY <1>3, <1>8 DEF TurnTells, Ended
  <1> QED BY <1>3, <1>5, <1>6, <1>9

\* The server ends the streams with the message that was heard.
LEMMA ServerFinishTells ==
    ASSUME TurnTypes, TurnTells, ServerFinish
    PROVE  TurnTypes' /\ TurnTells'
  <1>1. UNCHANGED <<setup, produced, spent, closed_by, cancelled, parser, told, verdict, answer>>
        /\ turnpc = "told" /\ turnpc' = "done"
        /\ wires' = IF verdict.status \in {"completed", "incomplete"} THEN StreamEnd(wires, answer) ELSE wires
    BY DEF ServerFinish
  <1>2. TurnTypes'
    BY <1>1 DEF TurnTypes
  <1>3. answer \in Answers
    BY DEF TurnTypes
  <1>4. PICK R, C, k : R = answer.reasoning /\ C = answer.content /\ k = answer.calls
    OBVIOUS
  <1>5. R \in Texts /\ C \in Texts /\ k \in {0, 1} /\ answer = [content |-> C, reasoning |-> R, calls |-> k]
    BY <1>3, <1>4 DEF Answers
  <1>6. ASSUME verdict.status # "failed"
        PROVE  told = [content |-> C, reasoning |-> R] /\ wires = WiresOf(R, C)
    <2>1. SoFar = Hearing(R, C)
      BY Zenon, <1>1, <1>4, <1>6 DEF TurnTells
    <2>2. PICK s : s = SoFar
      OBVIOUS
    <2>3. s.told = told /\ s.wires = wires
      BY <2>2 DEF SoFar
    <2>4. s.told = [content |-> C, reasoning |-> R] /\ s.wires = WiresOf(R, C)
      BY <2>1, <2>2 DEF Hearing
    <2> QED BY Zenon, <2>3, <2>4
  <1>7. ASSUME verdict.status \in {"completed", "incomplete"}
        PROVE  WiresTell(wires', answer)
    <2>1. verdict.status # "failed"
      BY <1>7
    <2>2. wires' = StreamEnd(WiresOf(R, C), answer)
      BY Zenon, <1>1, <1>6, <1>7, <2>1
    <2>3. WiresTell(StreamEnd(WiresOf(R, C), Msg(R, C, k)), Msg(R, C, k))
      BY <1>5, WiresEnd
    <2> QED BY Zenon, <1>5, <2>2, <2>3 DEF Msg
  <1>8. Ended' => WiresTell(wires', answer')
    <2>1. Ended' => verdict.status \in {"completed", "incomplete"}
      BY <1>1 DEF Ended
    <2> QED BY Zenon, <1>1, <1>7, <2>1
  <1>9. verdict'.status \in {"completed", "incomplete"} => Honest'
    <2>1. verdict.status \in {"completed", "incomplete"} => Honest
      BY Zenon, <1>1 DEF TurnTells
    <2>2. Honest' <=> Honest
      BY Zenon, <1>1 DEF Honest
    <2> QED BY <1>1, <2>1, <2>2
  <1>10. verdict'.status # "failed" => told' = [content |-> answer'.content, reasoning |-> answer'.reasoning]
    BY <1>1, <1>4, <1>6
  <1>11. turnpc' = "done"
    BY <1>1
  <1> QED
    BY Zenon, <1>2, <1>8, <1>9, <1>10, <1>11 DEF TurnTells

\* A natural number is an integer.
LEMMA NatIsInt == ASSUME NEW n \in Nat PROVE n \in Int
  OBVIOUS

\* The end token and the close are tokens, and not the same.
LEMMA NamedIds == Stop \in TokenIds /\ Shut \in TokenIds /\ Shut # Stop
  <1>1. Stop \in TokenIds /\ Shut \in TokenIds
    <2>1. PICK U : U = UNION Vocabularies
      OBVIOUS
    <2>2. TokenIds = U \cup {Stop, Shut}
      BY Zenon, <2>1 DEF TokenIds
    <2> QED BY <2>2
  <1> QED BY <1>1 DEF Stop, Shut

\* The tokens of a piece.
LEMMA PiecesAre ==
    ASSUME NEW W \in SUBSET TokenIds, NEW most \in Int, NEW e \in Pieces(W, most)
    PROVE  /\ e \in Seq(TokenIds) /\ Len(e) \in 1..most
           /\ \A i \in 1..Len(e) : e[i] \in TokenIds /\ (i < Len(e) => e[i] # Stop)
  <1>1. PICK n \in 1..most : e \in [1..n -> W \cup {Stop}]
    BY DEF Pieces
  <1>2. W \cup {Stop} \subseteq TokenIds
    BY NamedIds
  <1>3. e \in [1..n -> TokenIds] /\ n \in Nat
    BY <1>1, <1>2
  <1>4. e \in Seq(TokenIds) /\ Len(e) = n
    BY <1>3
  <1>5. \A i \in 1..Len(e) - 1 : e[i] # Stop
    BY DEF Pieces
  <1> QED BY <1>3, <1>4, <1>5

\* The end of a sequence ends as it does.
LEMMA LastOfRest ==
    ASSUME NEW S, NEW s \in Seq(S), NEW k \in Nat, k < Len(s)
    PROVE  /\ SubSeq(s, k + 1, Len(s)) \in Seq(S) /\ Last(SubSeq(s, k + 1, Len(s))) = Last(s)
           /\ Len(SubSeq(s, k + 1, Len(s))) \in Nat
  <1>1. PICK r : r = SubSeq(s, k + 1, Len(s))
    OBVIOUS
  <1>2. r \in Seq(S) /\ Len(r) = Len(s) - k
    BY <1>1
  <1>3. r[Len(s) - k] = s[Len(s)]
    BY <1>1
  <1>4. Last(r) = Last(s) /\ Len(r) \in Nat
    BY <1>2, <1>3 DEF Last
  <1> QED BY <1>1, <1>2, <1>4

\* Tokens after tokens.
LEMMA MoreTokens ==
    ASSUME NEW s \in Seq(TokenIds), NEW e \in Seq(TokenIds), Len(e) >= 1
    PROVE  s \o e \in Seq(TokenIds) /\ Len(s \o e) = Len(s) + Len(e) /\ s \o e # <<>> /\ Last(s \o e) = Last(e)
  <1>1. PICK x : x = s \o e
    OBVIOUS
  <1>2. x \in Seq(TokenIds) /\ Len(x) = Len(s) + Len(e)
    BY <1>1
  <1>3. x[Len(s) + Len(e)] = e[Len(e)]
    BY <1>1
  <1>4. x # <<>>
    BY <1>2
  <1> QED BY <1>1, <1>2, <1>3, <1>4 DEF Last

\* One token more.
LEMMA OneMore ==
    ASSUME NEW s \in Seq(TokenIds), NEW id \in TokenIds
    PROVE  Len(s \o <<id>>) = Len(s) + 1 /\ s \o <<id>> # <<>> /\ Last(s \o <<id>>) = id
  <1>1. PICK one : one = <<id>>
    OBVIOUS
  <1>2. one \in Seq(TokenIds) /\ Len(one) = 1 /\ one[1] = id /\ Len(one) >= 1
    BY <1>1
  <1>3. Len(s \o one) = Len(s) + Len(one) /\ s \o one # <<>> /\ Last(s \o one) = Last(one)
    BY <1>2, MoreTokens
  <1>4. Last(one) = id
    BY <1>2 DEF Last
  <1> QED BY <1>1, <1>2, <1>3, <1>4

\* The close that is injected is the last token.
LEMMA InjectIs ==
    ASSUME NEW s \in Seq(TokenIds), s # <<>>
    PROVE  /\ ApplyInject(s) \in Seq(TokenIds) /\ ApplyInject(s) # <<>> /\ Last(ApplyInject(s)) = Shut
           /\ Last(ApplyInject(s)) # Stop
           /\ Len(ApplyInject(s)) = (Len(s) - (IF Last(s) = Stop THEN 1 ELSE 0)) + 1
  <1>1. PICK b : b = IF Last(s) = Stop THEN Front(s) ELSE s
    OBVIOUS
  <1>2. Len(s) \in Nat \ {0}
    OBVIOUS
  <1>3. Front(s) \in Seq(TokenIds) /\ Len(Front(s)) = Len(s) - 1
    <2>0. Len(s) - 1 \in Nat /\ Len(s) - 1 <= Len(s)
      BY <1>2
    <2>1. PICK n \in Nat : n = Len(s) - 1 /\ n <= Len(s)
      BY <2>0
    <2>2. PICK f : f = SubSeq(s, 1, n)
      OBVIOUS
    <2>3. f \in Seq(TokenIds) /\ Len(f) = n
      BY <2>1, <2>2
    <2>4. Front(s) = f
      BY Zenon, <2>1, <2>2 DEF Front
    <2> QED BY <2>1, <2>3, <2>4
  <1>4. b \in Seq(TokenIds) /\ Len(b) = Len(s) - (IF Last(s) = Stop THEN 1 ELSE 0)
    BY <1>1, <1>2, <1>3
  <1>5. PICK x : x = Append(b, Shut)
    OBVIOUS
  <1>6. Shut \in TokenIds /\ Shut # Stop
    BY NamedIds
  <1>7. x \in Seq(TokenIds) /\ Len(x) = Len(b) + 1 /\ x[Len(b) + 1] = Shut
    BY <1>4, <1>5, <1>6
  <1>8. ApplyInject(s) = x
    BY Zenon, <1>1, <1>5 DEF ApplyInject
  <1>9. x # <<>> /\ Last(x) = Shut
    BY <1>4, <1>7 DEF Last
  <1> QED BY <1>4, <1>6, <1>7, <1>8, <1>9

\* The text of the tokens of a window.
LEMMA TextPushIs ==
    ASSUME NEW t \in TailTypes, NEW ids \in Seq(TokenIds)
    PROVE  TextPush(t, ids).piece \in Texts /\ TextPush(t, ids).next \in TailTypes
  <1>1. t.ids \in Seq(TokenIds) /\ t.fed \in Texts
    BY DEF TailTypes
  <1>2. PICK all : all = t.ids \o ids
    OBVIOUS
  <1>3. all \in Seq(TokenIds)
    BY <1>1, <1>2
  <1>4. PICK tail \in Texts : tail = Decode(all)
    <2>1. Len(all) \in Nat
      BY <1>3
    <2> QED BY <2>1, DecodeIs
  <1>5. PICK stable \in Texts : stable = Stable(tail)
    BY StableIs
  <1>6. PICK piece \in Texts : piece = Unseen(t.fed, stable)
    BY <1>1, UnseenIs
  <1>7. PICK none : none = <<>>
    OBVIOUS
  <1>8. none \in Seq(TokenIds) /\ none \in Texts
    BY <1>7 DEF Texts
  <1>9. PICK yes \in BOOLEAN : yes = TRUE
    OBVIOUS
  <1>10. PICK x : x = IF Len(all) >= Span /\ stable = tail THEN [ids |-> none, fed |-> none, any |-> yes]
                      ELSE [ids |-> all, fed |-> stable, any |-> yes]
    OBVIOUS
  <1>11. x \in TailTypes
    BY <1>3, <1>8, <1>10 DEF TailTypes
  <1>12. TextPush(t, ids) = [piece |-> piece, next |-> x]
    BY Zenon, <1>2, <1>4, <1>5, <1>6, <1>7, <1>9, <1>10 DEF TextPush
  <1> QED BY <1>11, <1>12

\* The text that is left at the end.
LEMMA FlushIs ==
    ASSUME NEW t \in TailTypes
    PROVE  Flush(t) \in Texts
  <1>1. t.ids \in Seq(TokenIds) /\ t.fed \in Texts /\ Len(t.ids) \in Nat
    BY DEF TailTypes
  <1>2. Decode(t.ids) \in Texts
    BY <1>1, DecodeIs
  <1>3. Unseen(t.fed, Decode(t.ids)) \in Texts
    BY <1>1, <1>2, UnseenIs
  <1> QED BY <1>3, TextFacts DEF Flush

\* A window keeps the invariant.
LEMMA AcceptKeeps ==
    ASSUME ResidentTurnInv, Accept
    PROVE  ResidentTurnInv'
  <1>1. PICK e \in Pieces(setup.words, Min({2, MaxNew - Len(produced)})), late \in BOOLEAN : TakeWindow(e, late)
    BY DEF Accept
  <1>2. turnpc = "window" /\ ~cancelled /\ UNCHANGED <<setup, verdict, answer>>
    BY DEF Accept
  <1>3. /\ setup.words \in SUBSET TokenIds /\ produced \in Seq(TokenIds) /\ spent \in Nat /\ answer \in Answers
        /\ closed_by \in {"none", "budget", "unterminated"} /\ parser \in ParserTypes
    BY DEF ResidentTurnInv, TurnTypes
  <1>4. seen \in Nat /\ text \in TailTypes /\ seen <= Len(produced) /\ Len(produced) < MaxNew
    BY <1>2 DEF ResidentTurnInv, ResidentWindows
  <1>5. SoFar = Hearing(parser.reasoning, parser.content) /\ ReasonsFirst(parser)
    BY <1>2 DEF ResidentTurnInv, TurnTells, InStep
  <1>6. e \in Seq(TokenIds) /\ Len(e) >= 1
    <2>1. Len(produced) \in Nat /\ MaxNew \in Nat
      BY <1>3, TurnAssumption
    <2>2. PICK room \in Nat : room = MaxNew - Len(produced)
      BY <1>4, <2>1
    <2>3. Min({2, MaxNew - Len(produced)}) \in Int
      <3>1. Min({2, room}) = IF 2 <= room THEN 2 ELSE room
        BY <2>2, MinOfTwo
      <3> QED BY <2>2, <3>1
    <2>4. PICK most \in Int : most = Min({2, MaxNew - Len(produced)})
      BY <2>3
    <2>5. PICK W \in SUBSET TokenIds : W = setup.words
      BY <1>3
    <2>6. e \in Pieces(W, most)
      BY <2>4, <2>5
    <2>7. e \in Seq(TokenIds) /\ Len(e) \in 1..most
      BY <2>6, PiecesAre
    <2> QED BY <2>7
  <1> DEFINE all     == produced \o e
             new     == SubSeq(all, seen + 1, Len(all))
             hitStop == Last(new) = Stop
             visible == Visible(new)
             push    == TextPush(text, visible)
             fed     == IF visible = <<>> THEN [parser EXCEPT !.out = <<>>] ELSE Feed(parser, push.piece)
             count   == spent + (IF parser.channel = "reasoning" THEN Len(new) ELSE 0)
             budget  == setup.cap > 0 /\ count >= setup.cap
             close   == ~late /\ closed_by = "none" /\ fed.channel = "reasoning" /\ (budget \/ hitStop)
             closing == Feed(fed, ClosingText)
             kept    == Len(all) - (IF hitStop THEN 1 ELSE 0)
  <1>7. /\ produced' = all /\ spent' = count /\ cancelled' = late
        /\ text' = IF visible = <<>> THEN text ELSE push.next
        /\ parser' = IF close THEN closing ELSE fed
        /\ Publish(Heard(Heard(SoFar, fed.out), IF close THEN closing.out ELSE <<>>))
        /\ seen' = IF close THEN kept + 1 ELSE Len(all)
        /\ closed_by' = IF ~close THEN closed_by ELSE IF budget THEN "budget" ELSE "unterminated"
        /\ halt' = (close /\ MaxNew - (kept + 1) <= 0)
        /\ turnpc' = IF close THEN "inject"
                     ELSE IF hitStop \/ late \/ Len(all) >= MaxNew THEN "over" ELSE "window"
    BY <1>1 DEF TakeWindow
  <1>8. all \in Seq(TokenIds) /\ Len(all) = Len(produced) + Len(e) /\ all # <<>>
    BY <1>3, <1>6, MoreTokens
  <1> HIDE DEF all
  <1>9. new \in Seq(TokenIds) /\ Last(new) = Last(all) /\ Len(new) \in Nat
    <2>1. Len(produced) \in Nat /\ Len(e) \in Nat
      BY <1>3, <1>6
    <2>2. seen < Len(all)
      BY <1>4, <1>6, <1>8, <2>1
    <2> QED BY <1>4, <1>8, <2>2, LastOfRest
  <1> HIDE DEF new
  <1>10. visible \in Seq(TokenIds)
    BY <1>9, VisibleIs
  <1> HIDE DEF visible
  <1>11. push.piece \in Texts /\ push.next \in TailTypes
    BY <1>4, <1>10, TextPushIs
  <1> HIDE DEF push
  <1>12. Tells(fed, Hearing(parser.reasoning, parser.content))
    <2>1. Tells([parser EXCEPT !.out = <<>>], Hearing(parser.reasoning, parser.content))
      BY <1>3, <1>5, QuietTells
    <2>2. Tells(Feed(parser, push.piece), Hearing(parser.reasoning, parser.content))
      BY <1>3, <1>5, <1>11, FeedTells
    <2> QED BY Zenon, <2>1, <2>2
  <1> HIDE DEF fed
  <1>13. fed \in ParserTypes /\ ReasonsFirst(fed)
         /\ Heard(SoFar, fed.out) = Hearing(fed.reasoning, fed.content)
    BY Zenon, <1>5, <1>12 DEF Tells
  <1>14. Tells(closing, Hearing(fed.reasoning, fed.content))
    BY <1>13, MarkersAre, FeedTells
  <1> HIDE DEF closing
  <1>15. closing \in ParserTypes /\ ReasonsFirst(closing)
         /\ Heard(Heard(SoFar, fed.out), closing.out) = Hearing(closing.reasoning, closing.content)
    BY Zenon, <1>13, <1>14 DEF Tells
  <1>16. count \in Nat
    BY <1>3, <1>9
  <1> HIDE DEF count, budget
  <1>17. Len(all) \in Nat /\ kept + 1 = Len(ApplyInject(all)) /\ (hitStop <=> Last(all) = Stop) /\ kept \in Nat
    <2>1. Len(all) \in Nat \ {0}
      BY <1>8
    <2>2. Len(ApplyInject(all)) = (Len(all) - (IF Last(all) = Stop THEN 1 ELSE 0)) + 1
      BY <1>8, InjectIs
    <2> QED BY <1>9, <2>1, <2>2
  <1> HIDE DEF close, kept, hitStop
  <1>18. parser' \in ParserTypes /\ InStep'
    <2>1. CASE close
      <3>1. parser' = closing
        BY <1>7, <2>1
      <3>2. Publish(Hearing(closing.reasoning, closing.content))
        BY Zenon, <1>7, <1>15, <2>1
      <3>3. SoFar' = Hearing(closing.reasoning, closing.content)
        BY <3>2, Publishes
      <3> QED BY Zenon, <1>15, <3>1, <3>3 DEF InStep
    <2>2. CASE ~close
      <3>1. parser' = fed
        BY <1>7, <2>2
      <3>2. Heard(Hearing(fed.reasoning, fed.content), <<>>) = Hearing(fed.reasoning, fed.content)
        BY HeardNothing
      <3>3. Publish(Hearing(fed.reasoning, fed.content))
        BY Zenon, <1>7, <1>13, <2>2, <3>2
      <3>4. SoFar' = Hearing(fed.reasoning, fed.content)
        BY <3>3, Publishes
      <3> QED BY Zenon, <1>13, <3>1, <3>4 DEF InStep
    <2> QED BY <2>1, <2>2
  <1>19. turnpc' \in {"window", "inject", "over"}
    BY <1>7
  <1>20. TurnTypes'
    <2>1. /\ setup'.words \in SUBSET TokenIds /\ produced' \in Seq(TokenIds) /\ spent' \in Nat /\ cancelled' \in BOOLEAN
          /\ answer' \in Answers /\ parser' \in ParserTypes
      BY <1>2, <1>3, <1>7, <1>8, <1>16, <1>18
    <2>2. closed_by' \in {"none", "budget", "unterminated"}
      BY <1>3, <1>7
    <2> QED BY <2>1, <2>2 DEF TurnTypes
  <1>21. TurnTells'
    BY <1>18, <1>19 DEF TurnTells, Ended
  <1>22. ResidentWindows'
    <2>1. seen' \in Nat /\ halt' \in BOOLEAN /\ text' \in TailTypes
      BY <1>4, <1>7, <1>11, <1>17
    <2>2. turnpc' = "window" => seen' <= Len(produced') /\ Len(produced') < MaxNew /\ ~halt'
      BY <1>7, <1>17, TurnAssumption
    <2>3. turnpc' = "inject" => /\ produced' # <<>> /\ seen' = Len(ApplyInject(produced'))
                                /\ halt' => seen' >= MaxNew
      <3>1. turnpc' = "inject" => close
        BY <1>7
      <3>2. close => seen' = kept + 1 /\ seen' = Len(ApplyInject(produced')) /\ produced' # <<>>
        BY <1>7, <1>8, <1>17
      <3>3. close /\ halt' => kept + 1 >= MaxNew
        <4>1. halt' => MaxNew - (kept + 1) <= 0
          BY Zenon, <1>7
        <4> QED BY <1>17, <4>1, TurnAssumption
      <3> QED BY <3>1, <3>2, <3>3
    <2>4. turnpc' = "over" /\ ~cancelled' => CutOff' /\ (halt' => Last(produced') # Stop)
      <3>1. turnpc' = "over" => ~close /\ (hitStop \/ late \/ Len(all) >= MaxNew)
        BY <1>7
      <3>2. turnpc' = "over" => ~halt'
        BY <1>7, <3>1
      <3>3. turnpc' = "over" /\ ~cancelled' => Last(all) = Stop \/ Len(all) >= MaxNew
        BY <1>7, <1>17, <3>1
      <3>4. turnpc' = "over" /\ ~cancelled' => CutOff'
        BY <1>7, <1>8, <3>3 DEF CutOff
      <3> QED BY <3>2, <3>4
    <2> QED BY <1>19, <2>1, <2>2, <2>3, <2>4 DEF ResidentWindows
  <1> QED BY <1>20, <1>21, <1>22 DEF ResidentTurnInv

\* The close that is injected keeps the invariant.
LEMMA InjectKeeps ==
    ASSUME ResidentTurnInv, InjectClose
    PROVE  ResidentTurnInv'
  <1>1. PICK late \in BOOLEAN, behind \in BOOLEAN :
          /\ produced' = IF late THEN produced ELSE ApplyInject(produced)
          /\ turnpc' = IF late \/ halt \/ Len(produced') >= MaxNew THEN "over" ELSE "window"
          /\ cancelled' = (late \/ (behind /\ turnpc' = "over"))
    BY DEF InjectClose
  <1>2. turnpc = "inject"
        /\ UNCHANGED <<setup, spent, closed_by, parser, told, wires, verdict, answer, seen, text, halt>>
    BY DEF InjectClose
  <1>3. TurnTypes
    BY DEF ResidentTurnInv
  <1>4. /\ seen \in Nat /\ halt \in BOOLEAN /\ text \in TailTypes
        /\ produced # <<>> /\ seen = Len(ApplyInject(produced)) /\ (halt => seen >= MaxNew)
    BY <1>2 DEF ResidentTurnInv, ResidentWindows
  <1>5. InStep
    BY <1>2 DEF ResidentTurnInv, TurnTells
  <1>6. /\ ApplyInject(produced) \in Seq(TokenIds) /\ ApplyInject(produced) # <<>>
        /\ Last(ApplyInject(produced)) # Stop
    BY <1>3, <1>4, InjectIs DEF TurnTypes
  <1>7. turnpc' \in {"over", "window"}
    BY <1>1
  <1>8. TurnTypes'
    BY <1>1, <1>2, <1>3, <1>6 DEF TurnTypes
  <1>9. InStep'
    <2>1. SoFar' = SoFar
      BY <1>2 DEF SoFar
    <2> QED BY Zenon, <1>2, <1>5, <2>1 DEF InStep
  <1>10. TurnTells'
    BY <1>7, <1>9 DEF TurnTells, Ended
  <1>11. ASSUME turnpc' = "window" PROVE seen' <= Len(produced') /\ Len(produced') < MaxNew /\ ~halt'
    <2>1. ~late /\ ~halt /\ ~(Len(produced') >= MaxNew)
      BY <1>1, <1>11
    <2>2. Len(produced') = seen
      BY <1>1, <1>4, <2>1
    <2> QED BY <1>2, <1>4, <2>1, <2>2, TurnAssumption
  <1>12. ASSUME turnpc' = "over", ~cancelled' PROVE CutOff' /\ (halt' => Last(produced') # Stop)
    <2>1. ~late /\ (halt \/ Len(produced') >= MaxNew)
      BY <1>1, <1>12
    <2>2. produced' = ApplyInject(produced) /\ Len(produced') = seen
      BY <1>1, <1>4, <2>1
    <2>3. Len(produced') >= MaxNew
      BY <1>4, <2>1, <2>2
    <2> QED BY <1>6, <2>2, <2>3 DEF CutOff
  <1>13. ResidentWindows'
    BY <1>2, <1>4, <1>7, <1>11, <1>12 DEF ResidentWindows
  <1> QED BY <1>8, <1>10, <1>13 DEF ResidentTurnInv

\* A cancel between two windows keeps the invariant.
LEMMA CancelBetweenKeeps ==
    ASSUME ResidentTurnInv, CancelBetween
    PROVE  ResidentTurnInv'
  <1>1. /\ turnpc = "window" /\ cancelled' = TRUE /\ turnpc' = "over"
        /\ UNCHANGED <<setup, produced, spent, closed_by, parser, told, wires, verdict, answer>>
        /\ UNCHANGED <<seen, text, halt>>
    BY DEF CancelBetween, residentTurnVars
  <1>2. TurnTypes'
    BY <1>1 DEF ResidentTurnInv, TurnTypes
  <1>3. InStep'
    <2>1. SoFar' = SoFar /\ InStep
      BY <1>1 DEF SoFar, ResidentTurnInv, TurnTells
    <2> QED BY Zenon, <1>1, <2>1 DEF InStep
  <1>4. TurnTells'
    BY <1>1, <1>3 DEF TurnTells, Ended
  <1>5. ResidentWindows'
    BY <1>1 DEF ResidentTurnInv, ResidentWindows
  <1> QED BY <1>2, <1>4, <1>5 DEF ResidentTurnInv

\* The exception of a finish, and what it means that there is none.
LEMMA FinishErrorIs ==
    ASSUME NEW p \in ParserTypes, NEW s, NEW choice, NEW error, error = FinishError(p, s = "completed", choice)
    PROVE  /\ error \in {"none", "reasoning", "malformed", "missing"} /\ (s # "completed" => error = "none")
           /\ s = "completed" /\ error = "none" => p.channel = "content" /\ (choice = "required" => p.inTools)
           /\ s = "completed" /\ error # "missing" => (choice = "required" => p.inTools \/ error # "none")
  <1>1. p.channel \in Channels /\ p.inTools \in BOOLEAN
    BY ParserFields
  <1>2. PICK b \in BOOLEAN : b <=> CallsParse(p.xml)
    OBVIOUS
  <1>3. s # "completed" => error = "none"
    BY DEF FinishError
  <1>4. s = "completed" =>
          error = IF p.channel = "reasoning" THEN "reasoning"
                  ELSE IF p.inTools /\ ~b THEN "malformed"
                  ELSE IF choice = "required" /\ ~p.inTools THEN "missing" ELSE "none"
    BY Zenon, <1>2 DEF FinishError
  <1> QED BY <1>1, <1>3, <1>4 DEF Channels

\* What the verdict of a turn says, from how the turn ended.
Verdicts(p, x, choice) ==
    LET error == FinishError(p, x.status = "completed", choice)
        m     == Message(p, x.status = "completed" /\ error = "none")
        v     == IF error = "none" THEN x ELSE [status |-> "incomplete", reason |-> error]
    IN  /\ v.status = "completed" => /\ x.status = "completed" /\ p.channel = "content"
                                     /\ p.inTools => m.calls = 1
                                     /\ choice = "required" => m.calls = 1
        /\ FinishReason(v) = "length" <=>
                 x.status = "incomplete" /\ x.reason \in {"max_new_tokens", "reasoning_budget"}
        /\ v.status \in {"completed", "incomplete"} => x.status \in {"completed", "incomplete"}

\* However a turn ended, with the parser's exception or without, this is what it says.
LEMMA VerdictsAre ==
    ASSUME NEW p \in ParserTypes, ReasonsFirst(p), NEW x, NEW choice
    PROVE  Verdicts(p, x, choice)
  <1>1. PICK error : error = FinishError(p, x.status = "completed", choice)
    OBVIOUS
  <1>2. PICK m : m = Message(p, x.status = "completed" /\ error = "none")
    OBVIOUS
  <1>3. PICK v : v = IF error = "none" THEN x ELSE [status |-> "incomplete", reason |-> error]
    OBVIOUS
  <1>4. PICK s : s = x.status
    OBVIOUS
  <1>5. error = FinishError(p, s = "completed", choice)
    BY <1>1, <1>4
  <1>6. /\ error \in {"none", "reasoning", "malformed", "missing"} /\ (s # "completed" => error = "none")
        /\ s = "completed" /\ error = "none" => p.channel = "content" /\ (choice = "required" => p.inTools)
    BY <1>5, FinishErrorIs
  <1>7. /\ v.status = "completed" => /\ x.status = "completed" /\ p.channel = "content"
                                     /\ p.inTools => m.calls = 1
                                     /\ choice = "required" => m.calls = 1
        /\ FinishReason(v) = "length" <=>
                 x.status = "incomplete" /\ x.reason \in {"max_new_tokens", "reasoning_budget"}
        /\ v.status \in {"completed", "incomplete"} => x.status \in {"completed", "incomplete"}
    <2>1. CASE error = "none"
      <3>1. v = x
        BY <1>3, <2>1
      <3>2. ASSUME s = "completed", p.inTools PROVE m.calls = 1
        BY <1>4, <2>1, <1>2, <3>2 DEF Message
      <3> QED BY <1>4, <1>6, <2>1, <3>1, <3>2 DEF FinishReason
    <2>2. CASE error # "none"
      <3>1. s = "completed" /\ v.status = "incomplete" /\ v.reason = error
        BY <1>3, <1>6, <2>2
      <3> QED BY <1>4, <1>6, <2>2, <3>1 DEF FinishReason
    <2> QED BY <2>1, <2>2
  <1> QED BY Zenon, <1>1, <1>2, <1>3, <1>7 DEF Verdicts

\* The end of a turn of the resident engine keeps the invariant.
LEMMA FinishTurnKeeps ==
    ASSUME ResidentTurnInv, FinishTurn
    PROVE  ResidentTurnInv'
  <1> DEFINE last   == IF text.any THEN Feed(parser, Flush(text)) ELSE [parser EXCEPT !.out = <<>>]
             cut    == produced = <<>> \/ Last(produced) # Stop
             ended  == IF cancelled THEN [status |-> "cancelled", reason |-> "none"]
                       ELSE IF halt THEN [status |-> "incomplete", reason |-> "reasoning_budget"]
                       ELSE IF cut THEN [status |-> "incomplete", reason |-> "max_new_tokens"]
                       ELSE [status |-> "completed", reason |-> "none"]
             xml    == IF ended.status # "cancelled" /\ UnclosedToolXml(last)
                       THEN [status |-> "incomplete",
                             reason |-> IF ended.reason # "none" THEN ended.reason
                                        ELSE IF cut THEN "max_new_tokens" ELSE "unclosed_tool_call"]
                       ELSE ended
             error  == FinishError(last, xml.status = "completed", setup.choice)
             m      == Message(last, xml.status = "completed" /\ error = "none")
             flushed  == Heard(SoFar, last.out)
  <1>1. /\ turnpc = "over" /\ turnpc' = "told" /\ parser' = last /\ answer' = m
        /\ verdict' = IF error = "none" THEN xml ELSE [status |-> "incomplete", reason |-> error]
        /\ Publish(Heard(flushed, Tails(flushed.told, m)))
    BY DEF FinishTurn
  <1>2. UNCHANGED <<setup, produced, spent, closed_by, cancelled>> /\ UNCHANGED <<seen, text, halt>>
    BY DEF FinishTurn, residentTurnVars
  <1>3. TurnTypes /\ parser \in ParserTypes /\ text \in TailTypes /\ halt \in BOOLEAN /\ cancelled \in BOOLEAN
    BY DEF ResidentTurnInv, TurnTypes, ResidentWindows
  <1>4. SoFar = Hearing(parser.reasoning, parser.content) /\ ReasonsFirst(parser)
    BY <1>1 DEF ResidentTurnInv, TurnTells, InStep
  <1>5. ~cancelled => CutOff /\ (halt => Last(produced) # Stop)
    BY <1>1 DEF ResidentTurnInv, ResidentWindows
  <1>6. Tells(last, Hearing(parser.reasoning, parser.content))
    <2>1. Tells([parser EXCEPT !.out = <<>>], Hearing(parser.reasoning, parser.content))
      BY <1>3, <1>4, QuietTells
    <2>2. Flush(text) \in Texts
      BY <1>3, FlushIs
    <2>3. Tells(Feed(parser, Flush(text)), Hearing(parser.reasoning, parser.content))
      BY <1>3, <1>4, <2>2, FeedTells
    <2> QED BY Zenon, <2>1, <2>3
  <1> HIDE DEF last
  <1>7. last \in ParserTypes /\ ReasonsFirst(last) /\ flushed = Hearing(last.reasoning, last.content)
    BY Zenon, <1>4, <1>6 DEF Tells
  <1> HIDE DEF flushed
  <1>8. /\ xml.status = "cancelled" => cancelled
        /\ xml.status = "completed" => ~cancelled /\ ~cut
        /\ xml.status = "incomplete" => ~cancelled /\ (xml.reason \in {"max_new_tokens", "reasoning_budget"} <=> (halt \/ cut))
        /\ xml.status \in {"cancelled", "completed", "incomplete"}
    <2>1. /\ cancelled => ended.status = "cancelled" /\ ended.reason = "none"
          /\ ~cancelled /\ halt => ended.status = "incomplete" /\ ended.reason = "reasoning_budget"
          /\ ~cancelled /\ ~halt /\ cut => ended.status = "incomplete" /\ ended.reason = "max_new_tokens"
          /\ ~cancelled /\ ~halt /\ ~cut => ended.status = "completed" /\ ended.reason = "none"
      <3> HIDE DEF cut
      <3> QED OBVIOUS
    <2> HIDE DEF ended, cut
    <2>2. CASE ended.status # "cancelled" /\ UnclosedToolXml(last)
      <3>1. xml.status = "incomplete" /\ xml.reason = IF ended.reason # "none" THEN ended.reason
                                                      ELSE IF cut THEN "max_new_tokens" ELSE "unclosed_tool_call"
        BY <2>2
      <3> HIDE DEF xml
      <3> QED BY <2>1, <2>2, <3>1
    <2>3. CASE ~(ended.status # "cancelled" /\ UnclosedToolXml(last))
      <3>1. xml = ended
        BY <2>3
      <3> HIDE DEF xml
      <3> QED BY <2>1, <2>3, <3>1
    <2> QED BY <2>2, <2>3
  <1> HIDE DEF xml, ended
  <1>9. /\ m \in Answers
        /\ Heard(flushed, Tails(flushed.told, m)) = Hearing(m.reasoning, m.content)
    BY Zenon, <1>7, MessageHeard
  <1>10. /\ verdict'.status = "completed" => /\ xml.status = "completed" /\ last.channel = "content"
                                             /\ last.inTools => m.calls = 1
                                             /\ setup.choice = "required" => m.calls = 1
         /\ FinishReason(verdict') = "length" <=>
                 xml.status = "incomplete" /\ xml.reason \in {"max_new_tokens", "reasoning_budget"}
         /\ verdict'.status \in {"completed", "incomplete"} => xml.status \in {"completed", "incomplete"}
    <2>1. Verdicts(last, xml, setup.choice)
      BY Zenon, <1>7, VerdictsAre
    <2> QED BY Zenon, <1>1, <2>1 DEF Verdicts
  <1> HIDE DEF error, m
  <1>11. SoFar' = Hearing(answer'.reasoning, answer'.content)
    <2>1. Publish(Hearing(m.reasoning, m.content))
      BY Zenon, <1>1, <1>9
    <2>2. SoFar' = Hearing(m.reasoning, m.content)
      BY <2>1, Publishes
    <2> QED BY Zenon, <1>1, <2>2
  <1>12. TurnTypes'
    BY <1>1, <1>2, <1>3, <1>7, <1>9 DEF TurnTypes
  <1>13. ASSUME verdict'.status \in {"completed", "incomplete"} PROVE Honest'
    <2>1. ~cancelled /\ CutOff
      BY <1>5, <1>8, <1>10, <1>13
    <2>2. cut <=> Last(produced) # Stop
      BY <2>1 DEF CutOff
    <2>3. FinishReason(verdict') = "length" <=> Last(produced) # Stop
      BY <1>5, <1>8, <1>10, <1>13, <2>1, <2>2
    <2>4. verdict'.status = "completed" => Last(produced) = Stop
      BY <1>8, <1>10, <2>2
    <2> QED BY <1>1, <1>2, <1>10, <2>1, <2>3, <2>4 DEF Honest, CutOff
  <1>14. TurnTells'
    BY <1>1, <1>11, <1>13 DEF TurnTells, Ended
  <1>15. ResidentWindows'
    BY <1>1, <1>2 DEF ResidentTurnInv, ResidentWindows
  <1> QED BY <1>12, <1>14, <1>15 DEF ResidentTurnInv

\* The turns begin with nothing told.
LEMMA TurnInitTells ==
    ASSUME TurnInit
    PROVE  TurnTypes /\ TurnTells /\ turnpc = "idle" /\ produced = <<>>
  <1>1. parser \in ParserTypes /\ ReasonsFirst(parser) /\ parser.reasoning = <<>> /\ parser.content = <<>>
    <2>1. parser = NewParser(TRUE, FALSE)
      BY DEF TurnInit
    <2>2. PICK yes \in BOOLEAN : yes = TRUE
      OBVIOUS
    <2>3. PICK no \in BOOLEAN : no = FALSE
      OBVIOUS
    <2>4. parser = NewParser(yes, no)
      BY Zenon, <2>1, <2>2, <2>3
    <2>5. NewParser(yes, no) \in ParserTypes /\ ReasonsFirst(NewParser(yes, no))
          /\ NewParser(yes, no).reasoning = <<>> /\ NewParser(yes, no).content = <<>>
      BY NewParserIs
    <2> QED BY Zenon, <2>4, <2>5
  <1>2. SoFar = Hearing(<<>>, <<>>)
    <2>1. told = [content |-> <<>>, reasoning |-> <<>>] /\ wires = NewWires
      BY DEF TurnInit
    <2> QED BY Zenon, <2>1, NewWiresAre DEF SoFar, Hearing
  <1>3. InStep
    BY Zenon, <1>1, <1>2 DEF InStep
  <1>4. turnpc = "idle" /\ produced = <<>> /\ spent = 0 /\ closed_by = "none" /\ cancelled = FALSE
        /\ answer = [content |-> <<>>, reasoning |-> <<>>, calls |-> 0]
    BY DEF TurnInit, NoMessage
  <1>5. answer \in Answers
    <2>1. PICK none : none = <<>>
      OBVIOUS
    <2>2. none \in Texts
      BY <2>1 DEF Texts
    <2>3. [content |-> none, reasoning |-> none, calls |-> 0] \in Answers
      BY <2>2 DEF Answers
    <2> QED BY Zenon, <1>4, <2>1, <2>3
  <1>6. setup.words \in SUBSET TokenIds
    BY DEF TurnInit
  <1>7. produced \in Seq(TokenIds)
    BY <1>4
  <1>8. TurnTypes
    BY <1>1, <1>4, <1>5, <1>6, <1>7 DEF TurnTypes
  <1>9. TurnTells
    BY <1>2, <1>3, <1>4 DEF TurnTells, Ended
  <1> QED BY <1>4, <1>8, <1>9

\* What the invariant says of a turn that has ended.
LEMMA TellingAgrees ==
    ASSUME TurnTells
    PROVE  ClientsAgree
  <1>1. AllTold
    BY Zenon DEF TurnTells, AllTold
  <1>2. AllRebuilt
    BY Zenon DEF TurnTells, WiresTell, AllRebuilt
  <1>3. StatusHonest
    BY Zenon DEF TurnTells, Honest, Ended, StatusHonest
  <1> QED BY <1>1, <1>2, <1>3 DEF ClientsAgree

\* The turns of the resident engine: what is told stays what the parser has, and a
\* turn is over for the reason it gives (run_turn of chat.py).
THEOREM ResidentTurnInvariant == ResidentTurnSpec => []ResidentTurnInv
  <1>1. TurnInit /\ ResidentTurnInit => ResidentTurnInv
    <2> SUFFICES ASSUME TurnInit, ResidentTurnInit PROVE ResidentTurnInv
      OBVIOUS
    <2>1. TurnTypes /\ TurnTells /\ turnpc = "idle" /\ produced = <<>>
      BY TurnInitTells
    <2>2. seen = 0 /\ text = [ids |-> <<>>, fed |-> <<>>, any |-> FALSE] /\ halt = FALSE
      BY DEF ResidentTurnInit
    <2>3. text \in TailTypes
      <3>1. PICK none : none = <<>>
        OBVIOUS
      <3>2. none \in Texts /\ none \in Seq(TokenIds)
        BY <3>1 DEF Texts
      <3>3. PICK no \in BOOLEAN : no = FALSE
        OBVIOUS
      <3>4. [ids |-> none, fed |-> none, any |-> no] \in TailTypes
        BY <3>2 DEF TailTypes
      <3> QED BY Zenon, <2>2, <3>1, <3>3, <3>4
    <2>4. ResidentWindows
      <3>1. Len(produced) = 0 /\ 0 < MaxNew /\ MaxNew \in Nat
        BY <2>1, TurnAssumption
      <3>2. halt \in BOOLEAN /\ ~halt
        BY <2>2
      <3> QED BY <2>1, <2>2, <2>3, <3>1, <3>2 DEF ResidentWindows
    <2> QED BY <2>1, <2>4 DEF ResidentTurnInv
  <1>2. ResidentTurnInv /\ [ResidentTurnNext]_<<turnVars, residentTurnVars>> => ResidentTurnInv'
    <2> SUFFICES ASSUME ResidentTurnInv, [ResidentTurnNext]_<<turnVars, residentTurnVars>>
                 PROVE  ResidentTurnInv'
      OBVIOUS
    <2>1. CASE StartTurn(TRUE) /\ UNCHANGED residentTurnVars
      <3>1. PICK yes \in BOOLEAN : yes = TRUE
        OBVIOUS
      <3>2. StartTurn(yes)
        BY Zenon, <2>1, <3>1
      <3>3. TurnTypes' /\ TurnTells' /\ produced' = <<>>
        BY <3>2, StartTurnTells DEF ResidentTurnInv
      <3>4. turnpc = "idle" /\ turnpc' = "window" /\ produced' = produced
        BY <2>1 DEF StartTurn
      <3>5. ResidentWindows'
        BY <2>1, <3>4 DEF ResidentTurnInv, ResidentWindows, residentTurnVars
      <3> QED BY <3>3, <3>5 DEF ResidentTurnInv
    <2>2. CASE ServerFinish /\ UNCHANGED residentTurnVars
      <3>1. TurnTypes' /\ TurnTells'
        BY <2>2, ServerFinishTells DEF ResidentTurnInv
      <3>2. turnpc' = "done" /\ produced' = produced
        BY <2>2 DEF ServerFinish
      <3>3. ResidentWindows'
        BY <2>2, <3>2 DEF ResidentTurnInv, ResidentWindows, residentTurnVars
      <3> QED BY <3>1, <3>3 DEF ResidentTurnInv
    <2>3. CASE UNCHANGED <<turnVars, residentTurnVars>>
      <3>1. UNCHANGED <<setup, turnpc, produced, spent, closed_by, cancelled, parser, told, wires, verdict, answer>>
            /\ UNCHANGED <<seen, text, halt>>
        BY <2>3 DEF turnVars, residentTurnVars
      <3>2. TurnTypes' /\ ResidentWindows'
        BY <3>1 DEF ResidentTurnInv, TurnTypes, ResidentWindows, CutOff
      <3>3. TurnTells'
        <4>1. SoFar' = SoFar /\ (Honest <=> Honest') /\ (InStep <=> InStep') /\ (Ended <=> Ended')
          BY Zenon, <3>1 DEF SoFar, Honest, InStep, Ended
        <4>2. TurnTells
          BY DEF ResidentTurnInv
        <4> QED BY Zenon, <3>1, <4>1, <4>2 DEF TurnTells
      <3> QED BY <3>2, <3>3 DEF ResidentTurnInv
    <2> QED BY <2>1, <2>2, <2>3, AcceptKeeps, InjectKeeps, CancelBetweenKeeps, FinishTurnKeeps DEF ResidentTurnNext
  <1> QED BY <1>1, <1>2, PTL DEF ResidentTurnSpec

\* Every client of a turn of the resident engine reads the final message, in every
\* dialect, and is told how the turn ended as it was (engine/forward/chat.py,
\* server/stream.rs, server/anthropic.rs).
THEOREM ResidentClientsAgree == ResidentTurnSpec => []ClientsAgree
  <1>1. ResidentTurnInv => ClientsAgree
    BY TellingAgrees DEF ResidentTurnInv
  <1> QED BY <1>1, ResidentTurnInvariant, PTL

Hearings == {Hearing(R, C) : R \in Texts, C \in Texts}
BatchStates ==
    [tape : Seq(TokenIds), spent : Nat, parser : ParserTypes, heard : Hearings, final : Finals, serial : Serials,
     closed_by : {"none", "budget", "unterminated"}, stopped : BOOLEAN]

\* The states of a batch in which what was told is what the parser has.
InStepStates == {s \in BatchStates : ReasonsFirst(s.parser) /\ s.heard = Hearing(s.parser.reasoning, s.parser.content)}

\* A job that goes on has what is left of the tokens.
GoesOn(s) == Len(s.tape) + s.serial.left = MaxNew /\ s.serial.left >= 1

\* What was heard is heard of two texts.
LEMMA HearingIs ==
    ASSUME NEW p \in ParserTypes
    PROVE  Hearing(p.reasoning, p.content) \in Hearings
  <1>1. p.reasoning \in Texts /\ p.content \in Texts
    BY ParserFields
  <1> QED BY <1>1 DEF Hearings

\* One event of a batch is heard in full, and its job goes on, stops or is at an end.
LEMMA HearIs ==
    ASSUME NEW included \in BOOLEAN, NEW s \in InStepStates, NEW id \in TokenIds
    PROVE  /\ Hear(included, s, id) \in InStepStates
           /\ s.stopped => Hear(included, s, id) = s
           /\ ~s.stopped /\ Hear(included, s, id).stopped =>
                 \/ Hear(included, s, id).final = "synthetic" /\ AtLimit(Hear(included, s, id).tape)
                 \/ Hear(included, s, id).final = "none" /\ GoesOn(Hear(included, s, id))
           /\ ~s.stopped /\ ~Hear(included, s, id).stopped =>
                 /\ Hear(included, s, id).serial.left = s.serial.left - 1
                 /\ Hear(included, s, id).final = IF id = Stop THEN "stop" ELSE IF s.serial.left = 1 THEN "max" ELSE "none"
                 /\ id # Stop => /\ Len(Hear(included, s, id).tape) = Len(s.tape) + 1
                                 /\ Hear(included, s, id).tape # <<>> /\ Last(Hear(included, s, id).tape) = id
  <1> DEFINE eos    == IF id = Stop THEN "stop" ELSE IF s.serial.left = 1 THEN "max" ELSE "none"
             ids    == IF id = Stop /\ ~included THEN <<>> ELSE <<id>>
             known  == IF id = Stop THEN s.serial.ids ELSE Append(s.serial.ids, id)
             tail   == Decode(known)
             stable == IF eos = "none" THEN Stable(tail) ELSE tail
             fed    == Feed(s.parser, Unseen(s.serial.fed, stable))
             count  == s.spent + (IF s.parser.channel = "reasoning" THEN Len(ids) ELSE 0)
             budget == setup.cap > 0 /\ count >= setup.cap
             close  == s.closed_by = "none" /\ fed.channel = "reasoning" /\ (budget \/ eos = "stop")
             shut   == Feed(fed, ClosingText)
             tape   == s.tape \o ids
             kept   == Append(Visible(tape), Shut)
             goes   == [s EXCEPT !.tape = tape, !.spent = count, !.parser = fed, !.heard = Heard(@, fed.out),
                                !.final = eos,
                                !.serial = [ids |-> known, fed |-> stable, left |-> @.left - 1]]
             stops  == [tape |-> kept, spent |-> count, parser |-> shut, heard |-> Heard(Heard(s.heard, fed.out), shut.out),
                        final |-> IF Leftover(kept) <= 0 THEN "synthetic" ELSE "none",
                        serial |-> NewJob(Leftover(kept)),
                        closed_by |-> IF budget THEN "budget" ELSE "unterminated", stopped |-> TRUE]
             r == Hear(included, s, id)
  <1>1. r = IF s.stopped THEN s ELSE IF ~close THEN goes ELSE stops
    BY DEF Hear
  <1> HIDE DEF r
  <1>2. /\ s \in BatchStates /\ ReasonsFirst(s.parser) /\ s.heard = Hearing(s.parser.reasoning, s.parser.content)
    BY DEF InStepStates
  <1>3. /\ s.tape \in Seq(TokenIds) /\ s.spent \in Nat /\ s.parser \in ParserTypes /\ s.final \in Finals
        /\ s.serial \in Serials /\ s.closed_by \in {"none", "budget", "unterminated"} /\ s.stopped \in BOOLEAN
    BY <1>2 DEF BatchStates
  <1>4. s.serial.ids \in Seq(TokenIds) /\ s.serial.fed \in Texts /\ s.serial.left \in Int
    BY <1>3 DEF Serials
  <1>5. eos \in Finals
    BY DEF Finals
  <1>6. ids \in Seq(TokenIds) /\ (id # Stop => ids = <<id>>)
    OBVIOUS
  <1>7. known \in Seq(TokenIds) /\ Len(known) \in Nat
    BY <1>4
  <1> HIDE DEF known
  <1>8. tail \in Texts
    BY <1>7, DecodeIs
  <1> HIDE DEF tail
  <1>9. stable \in Texts
    BY <1>8, StableIs
  <1> HIDE DEF stable
  <1>10. Unseen(s.serial.fed, stable) \in Texts
    BY <1>4, <1>9, UnseenIs
  <1>11. Tells(fed, Hearing(s.parser.reasoning, s.parser.content))
    BY <1>2, <1>3, <1>10, FeedTells
  <1> HIDE DEF fed
  <1>12. fed \in ParserTypes /\ ReasonsFirst(fed) /\ Heard(s.heard, fed.out) = Hearing(fed.reasoning, fed.content)
    BY Zenon, <1>2, <1>11 DEF Tells
  <1>13. Tells(shut, Hearing(fed.reasoning, fed.content))
    BY <1>12, MarkersAre, FeedTells
  <1> HIDE DEF shut
  <1>14. shut \in ParserTypes /\ ReasonsFirst(shut)
         /\ Heard(Heard(s.heard, fed.out), shut.out) = Hearing(shut.reasoning, shut.content)
    BY Zenon, <1>12, <1>13 DEF Tells
  <1>15. count \in Nat
    BY <1>3, <1>6
  <1>16. tape \in Seq(TokenIds) /\ (id # Stop => Len(tape) = Len(s.tape) + 1 /\ tape # <<>> /\ Last(tape) = id)
    <2>1. tape \in Seq(TokenIds)
      BY <1>3, <1>6
    <2>2. ASSUME id # Stop PROVE Len(tape) = Len(s.tape) + 1 /\ tape # <<>> /\ Last(tape) = id
      <3>1. PICK tp \in Seq(TokenIds) : tp = s.tape
        BY <1>3
      <3>2. Len(tp \o <<id>>) = Len(tp) + 1 /\ tp \o <<id>> # <<>> /\ Last(tp \o <<id>>) = id
        BY OneMore
      <3>3. tape = tp \o <<id>>
        BY Zenon, <1>6, <2>2, <3>1
      <3> HIDE DEF tape
      <3> QED BY <3>1, <3>2, <3>3
    <2> QED BY <2>1, <2>2
  <1> HIDE DEF count, budget, ids, eos, tape
  <1>17. kept \in Seq(TokenIds) /\ kept # <<>> /\ Last(kept) = Shut /\ Len(kept) \in Nat
    <2>1. PICK seen1 \in Seq(TokenIds) : seen1 = Visible(tape)
      BY <1>16, VisibleIs
    <2>2. PICK k : k = Append(seen1, Shut)
      OBVIOUS
    <2>3. k \in Seq(TokenIds) /\ Len(k) = Len(seen1) + 1 /\ k[Len(seen1) + 1] = Shut
      BY <2>1, <2>2, NamedIds
    <2>4. k # <<>> /\ Last(k) = Shut /\ Len(k) \in Nat
      BY <2>1, <2>3 DEF Last
    <2> QED BY Zenon, <2>1, <2>2, <2>3, <2>4
  <1> HIDE DEF kept, close
  <1>18. CASE s.stopped
    BY <1>1, <1>18 DEF r
  <1>19. CASE ~s.stopped /\ ~close
    <2>1. PICK h \in Hearings : h = Heard(s.heard, fed.out) /\ h = Hearing(fed.reasoning, fed.content)
      BY Zenon, <1>12, HearingIs
    <2>2. PICK task : task = [ids |-> known, fed |-> stable, left |-> s.serial.left - 1]
      OBVIOUS
    <2>3. task \in Serials /\ task.left = s.serial.left - 1
      BY <1>4, <1>7, <1>9, <2>2 DEF Serials
    <2>4. PICK q : q = [s EXCEPT !.tape = tape, !.spent = count, !.parser = fed, !.heard = h, !.final = eos, !.serial = task]
      OBVIOUS
    <2>5. r = q
      BY Zenon, <1>1, <1>19, <2>1, <2>2, <2>4
    <2>6. /\ q \in BatchStates /\ q.parser = fed /\ q.heard = h /\ q.final = eos /\ q.serial = task /\ q.tape = tape
      BY <1>2, <1>5, <1>12, <1>15, <1>16, <2>1, <2>3, <2>4 DEF BatchStates
    <2>7. ~q.stopped
      BY <1>2, <1>19, <2>4 DEF BatchStates
    <2>8. q \in InStepStates
      BY Zenon, <1>12, <2>1, <2>6 DEF InStepStates
    <2>9. q.final = IF id = Stop THEN "stop" ELSE IF s.serial.left = 1 THEN "max" ELSE "none"
      BY <2>6 DEF eos
    <2> QED BY <1>16, <1>19, <2>3, <2>5, <2>6, <2>7, <2>8, <2>9 DEF r
  <1>20. CASE ~s.stopped /\ close
    <2>1. PICK h \in Hearings : h = Heard(Heard(s.heard, fed.out), shut.out) /\ h = Hearing(shut.reasoning, shut.content)
      BY Zenon, <1>14, HearingIs
    <2>2. PICK task : task = NewJob(Leftover(kept))
      OBVIOUS
    <2>3. task \in Serials /\ task.left = MaxNew - Len(kept)
      <3>1. PICK none : none = <<>>
        OBVIOUS
      <3>2. none \in Seq(TokenIds) /\ none \in Texts
        BY <3>1 DEF Texts
      <3>3. PICK left \in Int : left = MaxNew - Len(kept)
        <4>1. PICK k \in Int : k = Len(kept)
          BY Zenon, <1>17, NatIsInt
        <4>2. PICK M \in Int : M = MaxNew
          BY Zenon, TurnAssumption, NatIsInt
        <4>3. M - k \in Int
          OBVIOUS
        <4> QED BY Zenon, <4>1, <4>2, <4>3
      <3>4. task = [ids |-> none, fed |-> none, left |-> left]
        BY Zenon, <2>2, <3>1, <3>3 DEF NewJob, Leftover
      <3> QED BY <3>2, <3>3, <3>4 DEF Serials
    <2>4. PICK f \in Finals : f = IF Leftover(kept) <= 0 THEN "synthetic" ELSE "none"
      BY DEF Finals
    <2>5. PICK by \in {"none", "budget", "unterminated"} : by = IF budget THEN "budget" ELSE "unterminated"
      OBVIOUS
    <2>6. PICK yes \in BOOLEAN : yes = TRUE
      OBVIOUS
    <2>7. PICK q : q = [tape |-> kept, spent |-> count, parser |-> shut, heard |-> h, final |-> f, serial |-> task,
                        closed_by |-> by, stopped |-> yes]
      OBVIOUS
    <2>8. r = q
      BY Zenon, <1>1, <1>20, <2>1, <2>2, <2>4, <2>5, <2>6, <2>7
    <2>9. /\ q \in BatchStates /\ q.parser = shut /\ q.heard = h /\ q.final = f /\ q.serial = task /\ q.tape = kept
      BY <1>14, <1>15, <1>17, <2>1, <2>3, <2>7 DEF BatchStates
    <2>10. q.stopped
      BY <2>6, <2>7
    <2>11. q \in InStepStates
      BY Zenon, <1>14, <2>1, <2>9 DEF InStepStates
    <2>12. (q.final = "synthetic" /\ AtLimit(q.tape)) \/ (q.final = "none" /\ GoesOn(q))
      BY <1>17, <2>3, <2>4, <2>9, NamedIds, TurnAssumption DEF Leftover, AtLimit, GoesOn
    <2> QED BY <1>20, <2>8, <2>10, <2>11, <2>12 DEF r
  <1> QED BY <1>18, <1>19, <1>20

\* Where a job is once it has n of the N tokens of a batch.
OnBatch(s, n, N) ==
    /\ s.stopped => (s.final = "synthetic" /\ AtLimit(s.tape)) \/ (s.final = "none" /\ GoesOn(s))
    /\ ~s.stopped => /\ n < N => s.final = "none"
                     /\ s.final = "none" => GoesOn(s) /\ s.serial.left >= N - n
                     /\ s.final = "max" => AtLimit(s.tape)
                     /\ s.final # "synthetic"

\* One token more of a batch.
LEMMA OnBatchMore ==
    ASSUME NEW included \in BOOLEAN, NEW s \in InStepStates, NEW id \in TokenIds, NEW N \in Nat, NEW n \in 1..N,
           OnBatch(s, n - 1, N), n < N => id # Stop
    PROVE  OnBatch(Hear(included, s, id), n, N)
  <1>1. PICK r : r = Hear(included, s, id)
    OBVIOUS
  <1>2. /\ r \in InStepStates /\ (s.stopped => r = s)
        /\ ~s.stopped /\ r.stopped => (r.final = "synthetic" /\ AtLimit(r.tape)) \/ (r.final = "none" /\ GoesOn(r))
        /\ ~s.stopped /\ ~r.stopped =>
              /\ r.serial.left = s.serial.left - 1
              /\ r.final = IF id = Stop THEN "stop" ELSE IF s.serial.left = 1 THEN "max" ELSE "none"
              /\ id # Stop => Len(r.tape) = Len(s.tape) + 1 /\ r.tape # <<>> /\ Last(r.tape) = id
    <2>1. r \in InStepStates /\ (s.stopped => r = s)
      BY <1>1, HearIs
    <2>2. ~s.stopped /\ r.stopped => (r.final = "synthetic" /\ AtLimit(r.tape)) \/ (r.final = "none" /\ GoesOn(r))
      BY <1>1, HearIs
    <2>3. ~s.stopped /\ ~r.stopped =>
              /\ r.serial.left = s.serial.left - 1
              /\ r.final = IF id = Stop THEN "stop" ELSE IF s.serial.left = 1 THEN "max" ELSE "none"
              /\ id # Stop => Len(r.tape) = Len(s.tape) + 1 /\ r.tape # <<>> /\ Last(r.tape) = id
      BY <1>1, HearIs
    <2> QED BY Zenon, <2>1, <2>2, <2>3
  <1>3. CASE s.stopped
    BY <1>1, <1>2, <1>3 DEF OnBatch
  <1>4. CASE ~s.stopped /\ r.stopped
    BY <1>1, <1>2, <1>4 DEF OnBatch
  <1>5. CASE ~s.stopped /\ ~r.stopped
    <2>1. PICK left \in Int, had \in Nat : left = s.serial.left /\ had = Len(s.tape)
      BY DEF InStepStates, BatchStates, Serials
    <2>2. left + had = MaxNew /\ left >= 1 /\ left >= N - (n - 1)
      <3>1. n - 1 < N
        OBVIOUS
      <3>2. GoesOn(s) /\ s.serial.left >= N - (n - 1)
        BY <1>5, <3>1 DEF OnBatch
      <3> QED BY <2>1, <3>2, TurnAssumption DEF GoesOn
    <2>3. r.serial.left = left - 1 /\ r.final = IF id = Stop THEN "stop" ELSE IF left = 1 THEN "max" ELSE "none"
      BY <1>2, <1>5, <2>1
    <2>4. CASE id = Stop
      <3>1. r.final = "stop" /\ ~(n < N)
        BY <2>3, <2>4
      <3> QED BY <1>1, <1>5, <3>1 DEF OnBatch
    <2>5. CASE id # Stop /\ left = 1
      <3>1. r.final = "max" /\ ~(n < N)
        BY <2>2, <2>3, <2>5
      <3>2. Len(r.tape) = MaxNew /\ r.tape # <<>> /\ Last(r.tape) # Stop
        BY <1>2, <1>5, <2>1, <2>2, <2>5
      <3>3. AtLimit(r.tape)
        BY <3>2, TurnAssumption DEF AtLimit
      <3> QED BY <1>1, <1>5, <3>1, <3>3 DEF OnBatch
    <2>6. CASE id # Stop /\ left # 1
      <3>1. r.final = "none" /\ r.serial.left = left - 1
        BY <2>3, <2>6
      <3>2. Len(r.tape) = had + 1
        BY <1>2, <1>5, <2>1, <2>6
      <3>3. GoesOn(r) /\ r.serial.left >= N - n
        BY <2>2, <2>6, <3>1, <3>2, TurnAssumption DEF GoesOn
      <3> QED BY <1>1, <1>5, <3>1, <3>3 DEF OnBatch
    <2> QED BY <2>4, <2>5, <2>6
  <1> QED BY <1>3, <1>4, <1>5

\* A batch is heard event by event: what each event takes to the next set holds at the end.
LEMMA HearAllKeeps ==
    ASSUME NEW included \in BOOLEAN, NEW batch \in Seq(TokenIds), BeforeBatch \in InStepStates,
           NEW S \in [0..Len(batch) -> SUBSET InStepStates], BeforeBatch \in S[0],
           \A n \in 1..Len(batch) : \A x \in S[n - 1] : Hear(included, x, batch[n]) \in S[n]
    PROVE  HearAll(included, batch) \in S[Len(batch)]
  <1> DEFINE N == Len(batch)
             X == InStepStates
             h == BeforeBatch
             F == [n \in 1..N |-> [x \in X |-> Hear(included, x, batch[n])]]
             HearsOn(g) == g = [n \in 0..N |-> IF n = 0 THEN h ELSE Hear(included, g[n - 1], batch[n])]
             after == CHOOSE g : HearsOn(g)
  <1>1. HearAll(included, batch) = after[N]
    BY Zenon DEF HearAll
  <1>2. N \in Nat /\ h \in X
    OBVIOUS
  <1>s. ASSUME NEW x \in X, NEW n \in 1..N PROVE Hear(included, x, batch[n]) \in X
    <2>1. PICK id \in TokenIds : id = batch[n]
      OBVIOUS
    <2>2. Hear(included, x, id) \in X
      BY HearIs
    <2> QED BY <2>1, <2>2
  <1>3. F \in Steps(N, X)
    <2> HIDE DEF X, N
    <2> QED BY <1>s DEF Steps
  <1>4. \E g : HearsOn(g)
    <2> HIDE DEF h, X
    <2>1. PICK g : Folds(g, X, h, N, F)
      <3> HIDE DEF F, N
      <3> QED BY Zenon, <1>2, <1>3, FoldIs
    <2>2. ASSUME NEW n \in 0..N PROVE g[n] = IF n = 0 THEN h ELSE Hear(included, g[n - 1], batch[n])
      <3>1. CASE n = 0
        BY <2>1, <3>1 DEF Folds
      <3>2. CASE n # 0
        <4>1. n \in 1..N /\ n - 1 \in 0..N
          BY <1>2, <3>2
        <4>2. g[n] = F[n][g[n - 1]]
          BY <2>1, <4>1 DEF Folds
        <4>3. g[n - 1] \in X
          BY <2>1, <4>1 DEF Folds
        <4> QED BY <3>2, <4>1, <4>2, <4>3
      <3> QED BY <3>1, <3>2
    <2>3. g = [n \in 0..N |-> IF n = 0 THEN h ELSE Hear(included, g[n - 1], batch[n])]
      <3>1. g = [n \in 0..N |-> g[n]]
        BY <2>1 DEF Folds
      <3> QED BY <2>2, <3>1
    <2> QED BY <2>3
  <1>5. HearsOn(after)
    BY Zenon, <1>4
  <1> HIDE DEF after
  <1>6. after[0] = h
    <2> HIDE DEF h
    <2> QED BY <1>2, <1>5
  <1>7. ASSUME NEW n \in 1..N PROVE after[n] = Hear(included, after[n - 1], batch[n])
    <2>1. n \in 0..N /\ n # 0
      BY <1>2
    <2> HIDE DEF h
    <2> QED BY <1>5, <2>1
  <1> HIDE DEF HearsOn
  <1>8. after[0] \in S[0]
    BY Zenon, <1>6
  <1>9. ASSUME NEW n \in 1..N, after[n - 1] \in S[n - 1] PROVE after[n] \in S[n]
    <2>1. Hear(included, after[n - 1], batch[n]) \in S[n]
      BY <1>9
    <2> QED BY Zenon, <1>7, <2>1
  <1>10. after[N] \in S[N]
    <2> HIDE DEF N
    <2> QED BY <1>2, <1>8, <1>9, FoldKeeps
  <1> QED BY Zenon, <1>1, <1>10

\* A whole batch is heard in full.
LEMMA HearAllIs ==
    ASSUME NEW included \in BOOLEAN, NEW batch \in Seq(TokenIds), BeforeBatch \in InStepStates,
           OnBatch(BeforeBatch, 0, Len(batch)),
           \A n \in 1..Len(batch) : batch[n] \in TokenIds /\ (n < Len(batch) => batch[n] # Stop)
    PROVE  HearAll(included, batch) \in InStepStates /\ OnBatch(HearAll(included, batch), Len(batch), Len(batch))
  <1>1. PICK N \in Nat : N = Len(batch)
    OBVIOUS
  <1>2. PICK S : S = [n \in 0..N |-> {x \in InStepStates : OnBatch(x, n, N)}]
    OBVIOUS
  <1>3. S \in [0..N -> SUBSET InStepStates] /\ \A n \in 0..N : S[n] = {x \in InStepStates : OnBatch(x, n, N)}
    BY <1>2
  <1>4. 0 \in 0..N /\ N \in 0..N
    BY <1>1
  <1>5. BeforeBatch \in S[0]
    BY <1>1, <1>3, <1>4
  <1>6. ASSUME NEW n \in 1..N, NEW x \in S[n - 1] PROVE Hear(included, x, batch[n]) \in S[n]
    <2>1. n \in 0..N /\ n - 1 \in 0..N
      BY <1>1
    <2>2. x \in InStepStates /\ OnBatch(x, n - 1, N)
      BY <1>3, <2>1
    <2>3. PICK id \in TokenIds : id = batch[n] /\ (n < N => id # Stop)
      BY <1>1
    <2>4. Hear(included, x, id) \in InStepStates
      BY <2>2, HearIs
    <2>5. OnBatch(Hear(included, x, id), n, N)
      BY <1>1, <2>2, <2>3, OnBatchMore
    <2> QED BY <1>3, <2>1, <2>3, <2>4, <2>5
  <1>7. HearAll(included, batch) \in S[N]
    BY <1>1, <1>3, <1>5, <1>6, HearAllKeeps
  <1> QED BY <1>1, <1>3, <1>4, <1>7

\* The events of a batch, and the state it begins in.
LEMMA BatchBegins ==
    ASSUME RollbackTurnInv, turnpc = "window", NEW batch \in Pieces(setup.words, Min({2, serial.left}))
    PROVE  /\ batch \in Seq(TokenIds) /\ BeforeBatch \in InStepStates /\ OnBatch(BeforeBatch, 0, Len(batch))
           /\ \A i \in 1..Len(batch) : batch[i] \in TokenIds /\ (i < Len(batch) => batch[i] # Stop)
  <1>1. /\ setup.words \in SUBSET TokenIds /\ produced \in Seq(TokenIds) /\ spent \in Nat
        /\ closed_by \in {"none", "budget", "unterminated"} /\ parser \in ParserTypes
    BY DEF RollbackTurnInv, TurnTypes
  <1>2. serial \in Serials /\ final = "none" /\ serial.left >= 1 /\ Len(produced) + serial.left = MaxNew
    BY DEF RollbackTurnInv, RollbackJobs
  <1>3. SoFar = Hearing(parser.reasoning, parser.content) /\ ReasonsFirst(parser)
    BY DEF RollbackTurnInv, TurnTells, InStep
  <1>4. PICK left \in Nat : left = serial.left /\ left >= 1
    BY <1>2 DEF Serials
  <1>5. /\ batch \in Seq(TokenIds) /\ Len(batch) \in Nat \ {0} /\ Len(batch) <= left
        /\ \A i \in 1..Len(batch) : batch[i] \in TokenIds /\ (i < Len(batch) => batch[i] # Stop)
    <2>1. PICK most \in Int : most = Min({2, left}) /\ most <= left
      <3>1. Min({2, left}) = IF 2 <= left THEN 2 ELSE left
        BY MinOfTwo
      <3> QED BY <3>1
    <2>2. batch \in Pieces(setup.words, most)
      BY Zenon, <1>4, <2>1
    <2>3. /\ batch \in Seq(TokenIds) /\ Len(batch) \in 1..most
          /\ \A i \in 1..Len(batch) : batch[i] \in TokenIds /\ (i < Len(batch) => batch[i] # Stop)
      BY <1>1, <2>2, PiecesAre
    <2> QED BY <2>1, <2>3
  <1>6. PICK b : b = BeforeBatch
    OBVIOUS
  <1>7. b \in InStepStates /\ b.tape = produced /\ b.final = "none" /\ b.serial = serial /\ ~b.stopped
    <2>1. PICK h \in Hearings : h = SoFar /\ h = Hearing(parser.reasoning, parser.content)
      BY Zenon, <1>1, <1>3, HearingIs
    <2>2. PICK no \in BOOLEAN : no = FALSE
      OBVIOUS
    <2>3. b = [tape |-> produced, spent |-> spent, parser |-> parser, heard |-> h, final |-> final,
               serial |-> serial, closed_by |-> closed_by, stopped |-> no]
      BY Zenon, <1>6, <2>1, <2>2 DEF BeforeBatch
    <2>4. final \in Finals
      BY <1>2 DEF Finals
    <2>5. /\ b \in BatchStates /\ b.parser = parser /\ b.heard = h /\ b.tape = produced /\ b.final = final
          /\ b.serial = serial /\ (b.stopped <=> no)
      BY <1>1, <1>2, <2>3, <2>4 DEF BatchStates
    <2>6. b \in InStepStates
      BY Zenon, <1>3, <2>1, <2>5 DEF InStepStates
    <2> QED BY <1>2, <2>2, <2>5, <2>6
  <1>8. OnBatch(b, 0, Len(batch))
    <2>1. GoesOn(b) /\ b.serial.left >= Len(batch) - 0
      BY <1>2, <1>4, <1>5, <1>7 DEF GoesOn
    <2> QED BY <1>5, <1>7, <2>1 DEF OnBatch
  <1> QED BY Zenon, <1>5, <1>6, <1>7, <1>8

\* A batch of events keeps the invariant.
LEMMA IterateKeeps ==
    ASSUME RollbackTurnInv, Iterate
    PROVE  RollbackTurnInv'
  <1>1. PICK batch \in Pieces(setup.words, Min({2, serial.left})), included \in BOOLEAN, late \in BOOLEAN :
          LET s == HearAll(included, batch)
          IN  /\ produced' = s.tape /\ spent' = s.spent /\ parser' = s.parser /\ final' = s.final
              /\ serial' = s.serial /\ closed_by' = s.closed_by /\ cancelled' = late
              /\ Publish(s.heard)
              /\ turnpc' = IF s.final # "none" \/ late THEN "over" ELSE "window"
    BY DEF Iterate
  <1>2. turnpc = "window" /\ ~cancelled /\ UNCHANGED <<setup, verdict, answer>>
    BY DEF Iterate
  <1>3. setup.words \in SUBSET TokenIds /\ answer \in Answers
    BY DEF RollbackTurnInv, TurnTypes
  <1>4. /\ batch \in Seq(TokenIds) /\ BeforeBatch \in InStepStates /\ OnBatch(BeforeBatch, 0, Len(batch))
        /\ \A i \in 1..Len(batch) : batch[i] \in TokenIds /\ (i < Len(batch) => batch[i] # Stop)
    BY <1>2, BatchBegins
  <1>5. PICK s : s = HearAll(included, batch)
    OBVIOUS
  <1>6. s \in InStepStates /\ OnBatch(s, Len(batch), Len(batch))
    BY <1>4, <1>5, HearAllIs
  <1>7. /\ produced' = s.tape /\ spent' = s.spent /\ parser' = s.parser /\ final' = s.final
         /\ serial' = s.serial /\ closed_by' = s.closed_by /\ cancelled' = late
         /\ Publish(s.heard)
         /\ turnpc' = IF s.final # "none" \/ late THEN "over" ELSE "window"
    BY Zenon, <1>1, <1>5
  <1>8. /\ s.tape \in Seq(TokenIds) /\ s.spent \in Nat /\ s.parser \in ParserTypes /\ s.final \in Finals
         /\ s.serial \in Serials /\ s.closed_by \in {"none", "budget", "unterminated"}
         /\ ReasonsFirst(s.parser) /\ s.heard = Hearing(s.parser.reasoning, s.parser.content)
    BY <1>6 DEF InStepStates, BatchStates
  <1>9. InStep'
    <2>1. SoFar' = Hearing(s.parser.reasoning, s.parser.content)
      <3>1. Publish(Hearing(s.parser.reasoning, s.parser.content))
        BY Zenon, <1>7, <1>8
      <3> QED BY <3>1, Publishes
    <2> QED BY Zenon, <1>7, <1>8, <2>1 DEF InStep
  <1>10. turnpc' \in {"over", "window"}
    BY <1>7
  <1>11. TurnTypes'
    BY <1>2, <1>3, <1>7, <1>8 DEF TurnTypes
  <1>12. TurnTells'
    BY <1>9, <1>10 DEF TurnTells, Ended
  <1>13. /\ s.final = "none" => GoesOn(s)
         /\ s.final \in {"max", "synthetic"} => AtLimit(s.tape)
    BY <1>6 DEF OnBatch
  <1>14. turnpc' = "window" => final' = "none" /\ serial'.left >= 1 /\ Len(produced') + serial'.left = MaxNew
    BY <1>7, <1>13 DEF GoesOn
  <1>15. turnpc' = "over" /\ ~cancelled' => final' # "none" /\ (final' \in {"max", "synthetic"} => AtLimit(produced'))
    BY <1>7, <1>13
  <1>16. RollbackJobs'
    <2>1. serial' \in Serials /\ final' \in Finals
      BY <1>7, <1>8
    <2> QED BY <1>10, <1>14, <1>15, <2>1 DEF RollbackJobs
  <1> QED BY <1>11, <1>12, <1>16 DEF RollbackTurnInv

\* A cancel at the head of the loop keeps the invariant.
LEMMA CancelAtHeadKeeps ==
    ASSUME RollbackTurnInv, CancelAtHead
    PROVE  RollbackTurnInv'
  <1>1. /\ turnpc = "window" /\ cancelled' = TRUE /\ turnpc' = "over"
        /\ UNCHANGED <<setup, produced, spent, closed_by, parser, told, wires, verdict, answer>>
        /\ UNCHANGED <<serial, final>>
    BY DEF CancelAtHead, rollbackTurnVars
  <1>2. TurnTypes'
    BY <1>1 DEF RollbackTurnInv, TurnTypes
  <1>3. InStep'
    <2>1. SoFar' = SoFar /\ InStep
      BY <1>1 DEF SoFar, RollbackTurnInv, TurnTells
    <2> QED BY Zenon, <1>1, <2>1 DEF InStep
  <1>4. TurnTells'
    BY <1>1, <1>3 DEF TurnTells, Ended
  <1>5. RollbackJobs'
    BY <1>1 DEF RollbackTurnInv, RollbackJobs
  <1> QED BY <1>2, <1>4, <1>5 DEF RollbackTurnInv

\* The end of a turn of the ExLlama engine keeps the invariant.
LEMMA FinishGenerateKeeps ==
    ASSUME RollbackTurnInv, FinishGenerate
    PROVE  RollbackTurnInv'
  <1> DEFINE sequence == IF ~cancelled /\ final = "stop" /\ (produced = <<>> \/ Last(produced) # Stop)
                         THEN Append(produced, Stop) ELSE produced
             ended == IF cancelled THEN [status |-> "cancelled", reason |-> "none"]
                      ELSE IF final = "synthetic" THEN [status |-> "incomplete", reason |-> "reasoning_budget"]
                      ELSE IF final = "max" THEN [status |-> "incomplete", reason |-> "max_new_tokens"]
                      ELSE IF parser.channel = "reasoning"
                           THEN [status |-> "incomplete", reason |-> "unterminated_reasoning"]
                      ELSE [status |-> "completed", reason |-> "none"]
             xml   == IF ~cancelled /\ UnclosedToolXml(parser)
                      THEN [status |-> "incomplete",
                            reason |-> IF ended.reason # "none" THEN ended.reason ELSE "unclosed_tool_call"]
                      ELSE ended
             error == FinishError(parser, xml.status = "completed", setup.choice)
             m     == Message(parser, xml.status = "completed" /\ error = "none")
             v     == IF error = "none" THEN xml ELSE [status |-> "incomplete", reason |-> error]
  <1>1. /\ turnpc = "over" /\ turnpc' = "told" /\ produced' = sequence
        /\ error = "missing" => /\ verdict' = [status |-> "failed", reason |-> "generation_failed"]
                                /\ UNCHANGED <<answer, told, wires>>
        /\ error # "missing" => verdict' = v /\ answer' = m /\ Publish(Heard(SoFar, Tails(told, m)))
    BY Zenon DEF FinishGenerate
  <1>2. UNCHANGED <<setup, spent, closed_by, cancelled, parser>> /\ UNCHANGED <<serial, final>>
    BY DEF FinishGenerate, rollbackTurnVars
  <1>3. TurnTypes /\ parser \in ParserTypes /\ cancelled \in BOOLEAN /\ produced \in Seq(TokenIds) /\ final \in Finals
    BY DEF RollbackTurnInv, TurnTypes, RollbackJobs
  <1>4. SoFar = Hearing(parser.reasoning, parser.content) /\ ReasonsFirst(parser)
    BY <1>1 DEF RollbackTurnInv, TurnTells, InStep
  <1>5. ~cancelled => final # "none" /\ (final \in {"max", "synthetic"} => AtLimit(produced))
    BY <1>1 DEF RollbackTurnInv, RollbackJobs
  <1>6. /\ sequence \in Seq(TokenIds) /\ (~cancelled /\ final = "stop" => Last(sequence) = Stop)
        /\ (final # "stop" => sequence = produced)
    <2>1. PICK q : q = Append(produced, Stop)
      OBVIOUS
    <2>2. q \in Seq(TokenIds) /\ Len(q) = Len(produced) + 1 /\ q[Len(produced) + 1] = Stop
      BY <1>3, <2>1, NamedIds
    <2>3. Last(q) = Stop
      BY <2>2 DEF Last
    <2> QED BY <1>3, <2>1, <2>2, <2>3
  <1> HIDE DEF sequence
  <1>7. /\ xml.status = "completed" => ~cancelled /\ final = "stop"
        /\ xml.status = "incomplete" => ~cancelled /\ (xml.reason \in {"max_new_tokens", "reasoning_budget"} <=> final \in {"max", "synthetic"})
        /\ xml.status \in {"cancelled", "completed", "incomplete"}
    <2>1. /\ cancelled => ended.status = "cancelled" /\ ended.reason = "none"
          /\ ~cancelled /\ final = "synthetic" => ended.status = "incomplete" /\ ended.reason = "reasoning_budget"
          /\ ~cancelled /\ final = "max" => ended.status = "incomplete" /\ ended.reason = "max_new_tokens"
          /\ ~cancelled /\ final \notin {"synthetic", "max"} =>
                \/ ended.status = "incomplete" /\ ended.reason = "unterminated_reasoning"
                \/ ended.status = "completed" /\ ended.reason = "none"
      OBVIOUS
    <2> HIDE DEF ended
    <2>2. ~cancelled /\ final \notin {"synthetic", "max"} => final = "stop"
      BY <1>3, <1>5 DEF Finals
    <2>3. CASE ~cancelled /\ UnclosedToolXml(parser)
      <3>1. xml.status = "incomplete" /\ xml.reason = IF ended.reason # "none" THEN ended.reason ELSE "unclosed_tool_call"
        BY <2>3
      <3> HIDE DEF xml
      <3> QED BY <2>1, <2>2, <2>3, <3>1
    <2>4. CASE ~(~cancelled /\ UnclosedToolXml(parser))
      <3>1. xml = ended
        BY <2>4
      <3> HIDE DEF xml
      <3> QED BY <2>1, <2>2, <2>4, <3>1
    <2> QED BY <2>3, <2>4
  <1> HIDE DEF xml, ended
  <1>8. /\ m \in Answers
        /\ Heard(SoFar, Tails(told, m)) = Hearing(m.reasoning, m.content)
    <2>1. PICK h : h = Hearing(parser.reasoning, parser.content)
      OBVIOUS
    <2>2. m \in Answers /\ Heard(h, Tails(h.told, m)) = Hearing(m.reasoning, m.content)
      BY Zenon, <1>3, <1>4, <2>1, MessageHeard
    <2>3. h = SoFar /\ h.told = told
      <3>1. h = SoFar
        BY <1>4, <2>1
      <3> QED BY <3>1 DEF SoFar
    <2> QED BY Zenon, <2>2, <2>3
  <1>8a. Verdicts(parser, xml, setup.choice)
    BY Zenon, <1>3, <1>4, VerdictsAre
  <1>9. /\ v.status = "completed" => /\ xml.status = "completed" /\ parser.channel = "content"
                                     /\ parser.inTools => m.calls = 1
                                     /\ setup.choice = "required" => m.calls = 1
        /\ FinishReason(v) = "length" <=>
                 xml.status = "incomplete" /\ xml.reason \in {"max_new_tokens", "reasoning_budget"}
        /\ v.status \in {"completed", "incomplete"} => xml.status \in {"completed", "incomplete"}
    BY Zenon, <1>8a DEF Verdicts
  <1> HIDE DEF v, error, m
  <1>10. answer' \in Answers
    BY <1>1, <1>3, <1>8 DEF TurnTypes
  <1>11. TurnTypes'
    BY <1>1, <1>2, <1>3, <1>6, <1>10 DEF TurnTypes
  <1>12. ASSUME error # "missing" PROVE SoFar' = Hearing(answer'.reasoning, answer'.content)
    <2>1. Publish(Hearing(m.reasoning, m.content))
      BY Zenon, <1>1, <1>8, <1>12
    <2>2. SoFar' = Hearing(m.reasoning, m.content)
      BY <2>1, Publishes
    <2> QED BY Zenon, <1>1, <1>12, <2>2
  <1>13. error = "missing" => verdict'.status = "failed"
    BY <1>1
  <1>14. ASSUME verdict'.status \in {"completed", "incomplete"} PROVE Honest'
    <2>1. error # "missing" /\ verdict' = v /\ answer' = m
      BY <1>1, <1>13, <1>14
    <2>2. ~cancelled /\ xml.status \in {"completed", "incomplete"}
      BY <1>7, <1>9, <1>14, <2>1
    <2>3. FinishReason(v) = "length" <=> final \in {"max", "synthetic"}
      BY <1>7, <1>9, <2>2
    <2>4. final \in {"max", "synthetic"} => Last(sequence) # Stop /\ Len(sequence) >= MaxNew
      BY <1>5, <1>6, <2>2 DEF AtLimit
    <2>5. final \notin {"max", "synthetic"} => Last(sequence) = Stop
      BY <1>3, <1>5, <1>6, <2>2 DEF Finals
    <2>6. v.status = "completed" => Last(sequence) = Stop
      BY <1>6, <1>7, <1>9, <2>2
    <2> QED BY <1>1, <1>2, <1>9, <2>1, <2>3, <2>4, <2>5, <2>6 DEF Honest
  <1>15. TurnTells'
    BY <1>1, <1>12, <1>13, <1>14 DEF TurnTells, Ended
  <1>16. RollbackJobs'
    BY <1>1, <1>2 DEF RollbackTurnInv, RollbackJobs
  <1> QED BY <1>11, <1>15, <1>16 DEF RollbackTurnInv

\* The turns of the ExLlama engine: what is told stays what the parser has, over every
\* batch and every job, and a turn is over for the reason it gives (Engine.generate).
THEOREM RollbackTurnInvariant == RollbackTurnSpec => []RollbackTurnInv
  <1>1. TurnInit /\ RollbackTurnInit => RollbackTurnInv
    <2> SUFFICES ASSUME TurnInit, RollbackTurnInit PROVE RollbackTurnInv
      OBVIOUS
    <2>1. TurnTypes /\ TurnTells /\ turnpc = "idle" /\ produced = <<>>
      BY TurnInitTells
    <2>2. serial = [ids |-> <<>>, fed |-> <<>>, left |-> MaxNew] /\ final = "none"
      BY DEF RollbackTurnInit, NewJob
    <2>3. serial \in Serials /\ serial.left = MaxNew
      <3>1. PICK none : none = <<>>
        OBVIOUS
      <3>2. none \in Texts /\ none \in Seq(TokenIds)
        BY <3>1 DEF Texts
      <3>3. serial = [ids |-> none, fed |-> none, left |-> MaxNew]
        BY <2>2, <3>1
      <3> QED BY <3>2, <3>3, TurnAssumption DEF Serials
    <2>4. Len(produced) = 0
      BY <2>1
    <2>5. RollbackJobs
      BY <2>1, <2>2, <2>3, <2>4, TurnAssumption DEF RollbackJobs, Finals
    <2> QED BY <2>1, <2>5 DEF RollbackTurnInv
  <1>2. RollbackTurnInv /\ [RollbackTurnNext]_<<turnVars, rollbackTurnVars>> => RollbackTurnInv'
    <2> SUFFICES ASSUME RollbackTurnInv, [RollbackTurnNext]_<<turnVars, rollbackTurnVars>>
                 PROVE  RollbackTurnInv'
      OBVIOUS
    <2>1. CASE \E thinking \in BOOLEAN : StartTurn(thinking) /\ UNCHANGED rollbackTurnVars
      <3>1. PICK thinking \in BOOLEAN : StartTurn(thinking) /\ UNCHANGED rollbackTurnVars
        BY <2>1
      <3>2. TurnTypes' /\ TurnTells'
        BY <3>1, StartTurnTells DEF RollbackTurnInv
      <3>3. turnpc = "idle" /\ turnpc' = "window" /\ produced' = produced
        BY <3>1 DEF StartTurn
      <3>4. RollbackJobs'
        BY <3>1, <3>3 DEF RollbackTurnInv, RollbackJobs, rollbackTurnVars
      <3> QED BY <3>2, <3>4 DEF RollbackTurnInv
    <2>2. CASE ServerFinish /\ UNCHANGED rollbackTurnVars
      <3>1. TurnTypes' /\ TurnTells'
        BY <2>2, ServerFinishTells DEF RollbackTurnInv
      <3>2. turnpc' = "done" /\ produced' = produced
        BY <2>2 DEF ServerFinish
      <3>3. RollbackJobs'
        BY <2>2, <3>2 DEF RollbackTurnInv, RollbackJobs, rollbackTurnVars
      <3> QED BY <3>1, <3>3 DEF RollbackTurnInv
    <2>3. CASE UNCHANGED <<turnVars, rollbackTurnVars>>
      <3>1. UNCHANGED <<setup, turnpc, produced, spent, closed_by, cancelled, parser, told, wires, verdict, answer>>
            /\ UNCHANGED <<serial, final>>
        BY <2>3 DEF turnVars, rollbackTurnVars
      <3>2. TurnTypes' /\ RollbackJobs'
        BY <3>1 DEF RollbackTurnInv, TurnTypes, RollbackJobs
      <3>3. TurnTells'
        <4>1. SoFar' = SoFar /\ (Honest <=> Honest') /\ (InStep <=> InStep') /\ (Ended <=> Ended')
          BY Zenon, <3>1 DEF SoFar, Honest, InStep, Ended
        <4>2. TurnTells
          BY DEF RollbackTurnInv
        <4> QED BY Zenon, <3>1, <4>1, <4>2 DEF TurnTells
      <3> QED BY <3>2, <3>3 DEF RollbackTurnInv
    <2> QED BY <2>1, <2>2, <2>3, IterateKeeps, CancelAtHeadKeeps, FinishGenerateKeeps DEF RollbackTurnNext
  <1> QED BY <1>1, <1>2, PTL DEF RollbackTurnSpec

\* Every client of a turn of the ExLlama engine reads the final message, in every
\* dialect, and is told how the turn ended as it was (src/qwasar_runtime/engine.py,
\* server/stream.rs, server/anthropic.rs).
THEOREM RollbackClientsAgree == RollbackTurnSpec => []ClientsAgree
  <1>1. RollbackTurnInv => ClientsAgree
    BY TellingAgrees DEF RollbackTurnInv
  <1> QED BY <1>1, RollbackTurnInvariant, PTL

-----------------------------------------------------------------------------
(* The message is the split of the whole text: places of a marker.            *)

\* The marker m of two glyphs is at i in s.
TwoAt(m, s, i) == i \in 1..Len(s) /\ i + 1 \in 1..Len(s) /\ s[i] = m[1] /\ s[i + 1] = m[2]

\* Where the marker may be, of a text that is `a` and then `b`: not in what was
\* said, and what was said does not end as the marker begins.
Sought(m, a, b) == \A i \in 1..Len(a) : ~ TwoAt(m, a \o b, i)
Waits(m, a, b) == b = <<>> => a = <<>> \/ Last(a) # m[1]
Markers == {ThinkClose, CallOpen}

\* What is before a marker that is at k, and what is after it.
BeforeAt(s, k) == SubSeq(s, 1, k - 1)
AfterAt(s, k) == SubSeq(s, k + 2, Len(s))

\* The markers have two glyphs each, which differ.
LEMMA MarkerIs ==
    ASSUME NEW m \in Markers
    PROVE  m \in Texts /\ Len(m) = 2 /\ m \in Seq(AllGlyphs) /\ m # <<>> /\ m[1] # m[2]
  <1>1. m \in Texts /\ Len(m) = 2
    BY MarkersAre DEF Markers
  <1>2. m # <<>>
    <2>1. PICK none : none = <<>>
      OBVIOUS
    <2>2. Len(none) = 0
      BY <2>1
    <2>3. m # none
      <3>1. 2 # 0
        OBVIOUS
      <3> QED BY Zenon, <1>1, <2>2, <3>1
    <2> QED BY Zenon, <2>1, <2>3
  <1>3. m[1] # m[2]
    BY DEF Markers, ThinkClose, CallOpen
  <1> QED BY <1>1, <1>2, <1>3 DEF Texts

\* A text and another one after it.
LEMMA JoinIs ==
    ASSUME NEW a \in Texts, NEW b \in Texts
    PROVE  /\ a \o b \in Texts /\ Len(a \o b) = Len(a) + Len(b) /\ Len(a) \in Nat /\ Len(b) \in Nat
           /\ \A i \in 1..Len(a) : (a \o b)[i] = a[i]
           /\ \A i \in 1..Len(b) : (a \o b)[Len(a) + i] = b[i]
  BY DEF Texts

\* A marker is at a place when its two glyphs are there.
LEMMA PlacesAre ==
    ASSUME NEW m \in Markers, NEW s \in Texts
    PROVE  \A i : i \in Places(m, s) <=> TwoAt(m, s, i)
  <1>0. s \in Seq(AllGlyphs) /\ Len(s) \in Nat
    BY DEF Texts
  <1>1. m \in Seq(AllGlyphs) /\ Len(m) = 2
    BY MarkerIs
  <1>2. ASSUME NEW i \in 1..Len(s) PROVE IsPrefix(m, SubSeq(s, i, Len(s))) <=> TwoAt(m, s, i)
    <2>1. PICK r : r = SubSeq(s, i, Len(s))
      OBVIOUS
    <2>2. /\ r \in Seq(AllGlyphs) /\ Len(r) = Len(s) - i + 1 /\ r[1] = s[i]
          /\ i + 1 \in 1..Len(s) => r[2] = s[i + 1]
      BY <1>0, <2>1
    <2>3. IsPrefix(m, r) <=> 2 <= Len(r) /\ SubSeq(m, 1, 2) = SubSeq(r, 1, 2)
      BY <1>1 DEF IsPrefix
    <2>4. CASE 2 <= Len(r)
      <3>1. PICK x, y : x = SubSeq(m, 1, 2) /\ y = SubSeq(r, 1, 2)
        OBVIOUS
      <3>2. /\ x \in Seq(AllGlyphs) /\ Len(x) = 2 /\ x[1] = m[1] /\ x[2] = m[2]
            /\ y \in Seq(AllGlyphs) /\ Len(y) = 2 /\ y[1] = r[1] /\ y[2] = r[2]
        <4>1. x \in Seq(AllGlyphs) /\ Len(x) = 2 /\ x[1] = m[1] /\ x[2] = m[2]
          BY <1>1, <3>1
        <4>2. y \in Seq(AllGlyphs) /\ Len(y) = 2 /\ y[1] = r[1] /\ y[2] = r[2]
          <5>1. Len(r) \in Nat
            BY <2>2
          <5> QED BY <2>2, <2>4, <3>1, <5>1
        <4> QED BY <4>1, <4>2
      <3>3. x = y <=> x[1] = y[1] /\ x[2] = y[2]
        <4>1. ASSUME x[1] = y[1], x[2] = y[2] PROVE x = y
          <5>1. \A j \in 1..2 : x[j] = y[j]
            BY <4>1
          <5> QED BY <3>2, <5>1, SameSequence
        <4> QED BY <4>1
      <3> QED BY <1>0, <2>1, <2>2, <2>3, <2>4, <3>1, <3>2, <3>3 DEF TwoAt
    <2>5. CASE ~ (2 <= Len(r))
      BY <1>0, <2>1, <2>2, <2>3, <2>5 DEF TwoAt
    <2> QED BY <2>4, <2>5
  <1>3. Places(m, s) = {i \in 1..Len(s) : IsPrefix(m, SubSeq(s, i, Len(s)))}
    BY Zenon DEF Places
  <1> QED BY <1>2, <1>3 DEF TwoAt

\* The first place of a marker.
LEMMA FirstPlace ==
    ASSUME NEW m \in Markers, NEW s \in Texts, Places(m, s) # {}
    PROVE  /\ Min(Places(m, s)) \in Nat /\ TwoAt(m, s, Min(Places(m, s)))
           /\ \A i : TwoAt(m, s, i) => Min(Places(m, s)) <= i
  <1>1. PICK S : S = Places(m, s)
    OBVIOUS
  <1>2. \A i : i \in S <=> TwoAt(m, s, i)
    BY <1>1, PlacesAre
  <1>3. S \subseteq Nat /\ S # {}
    BY <1>1, <1>2 DEF TwoAt
  <1>4. Min(S) \in S /\ \A i \in S : Min(S) <= i
    BY <1>3, MinIsLeast
  <1> QED BY <1>1, <1>2, <1>3, <1>4

\* The first place is the one before which there is none.
LEMMA FirstPlaceIs ==
    ASSUME NEW m \in Markers, NEW s \in Texts, NEW n, TwoAt(m, s, n), \A i : TwoAt(m, s, i) => n <= i
    PROVE  Places(m, s) # {} /\ Min(Places(m, s)) = n
  <1>1. n \in Places(m, s)
    BY PlacesAre
  <1>2. PICK k : k = Min(Places(m, s))
    OBVIOUS
  <1>3. k \in Nat /\ TwoAt(m, s, k) /\ k <= n
    BY <1>1, <1>2, FirstPlace
  <1>4. n <= k /\ n \in Nat
    BY <1>3 DEF TwoAt
  <1> QED BY <1>1, <1>2, <1>3, <1>4

\* Where nothing was missed, a marker is first where it first is in what is left.
LEMMA FirstOfRest ==
    ASSUME NEW m \in Markers, NEW a \in Texts, NEW b \in Texts, Sought(m, a, b)
    PROVE  /\ Places(m, b) = {} => Places(m, a \o b) = {}
           /\ Places(m, b) # {} => Places(m, a \o b) # {}
                                   /\ Min(Places(m, a \o b)) = Len(a) + Min(Places(m, b))
  <1>1. PICK s \in Texts : s = a \o b
    BY JoinIs
  <1>2. /\ Len(s) = Len(a) + Len(b) /\ Len(a) \in Nat /\ Len(b) \in Nat
        /\ \A i \in 1..Len(a) : s[i] = a[i]
        /\ \A i \in 1..Len(b) : s[Len(a) + i] = b[i]
    BY <1>1, JoinIs
  <1>3. \A i \in 1..Len(a) : ~ TwoAt(m, s, i)
    BY <1>1 DEF Sought
  <1>4. ASSUME NEW i \in 1..Len(b) PROVE TwoAt(m, b, i) <=> TwoAt(m, s, Len(a) + i)
    <2>1. Len(a) + i \in 1..Len(s) /\ s[Len(a) + i] = b[i]
      BY <1>2
    <2>2. i + 1 \in 1..Len(b) <=> (Len(a) + i) + 1 \in 1..Len(s)
      BY <1>2
    <2>3. i + 1 \in 1..Len(b) => s[(Len(a) + i) + 1] = b[i + 1]
      <3>1. (Len(a) + i) + 1 = Len(a) + (i + 1)
        BY <1>2
      <3> QED BY <1>2, <3>1
    <2> QED BY <2>1, <2>2, <2>3 DEF TwoAt
  <1>5. ASSUME NEW i, TwoAt(m, s, i)
        PROVE  i - Len(a) \in 1..Len(b) /\ i = Len(a) + (i - Len(a)) /\ TwoAt(m, b, i - Len(a))
    <2>1. i \in 1..Len(s) /\ i \notin 1..Len(a)
      BY <1>3, <1>5 DEF TwoAt
    <2>2. i \in Nat /\ i > Len(a) /\ i <= Len(a) + Len(b)
      BY <1>2, <2>1
    <2>3. i - Len(a) \in 1..Len(b) /\ i = Len(a) + (i - Len(a))
      BY <1>2, <2>2
    <2>4. PICK j \in 1..Len(b) : j = i - Len(a) /\ i = Len(a) + j
      BY <2>3
    <2> QED BY <1>4, <1>5, <2>4
  <1>6. Places(m, b) = {} => Places(m, s) = {}
    BY <1>5, PlacesAre
  <1>7. ASSUME Places(m, b) # {} PROVE Places(m, s) # {} /\ Min(Places(m, s)) = Len(a) + Min(Places(m, b))
    <2>1. PICK k : k = Min(Places(m, b))
      OBVIOUS
    <2>2. k \in Nat /\ TwoAt(m, b, k) /\ \A i : TwoAt(m, b, i) => k <= i
      BY <1>7, <2>1, FirstPlace
    <2>3. k \in 1..Len(b)
      BY <2>2 DEF TwoAt
    <2>4. TwoAt(m, s, Len(a) + k)
      BY <1>4, <2>2, <2>3
    <2>5. ASSUME NEW i, TwoAt(m, s, i) PROVE Len(a) + k <= i
      <3>1. PICK j \in 1..Len(b) : i = Len(a) + j /\ TwoAt(m, b, j)
        BY <1>5, <2>5
      <3>2. k <= j
        BY <2>2, <3>1
      <3> QED BY <1>2, <2>2, <3>1, <3>2
    <2>6. PICK n : n = Len(a) + k
      OBVIOUS
    <2>7. Places(m, s) # {} /\ Min(Places(m, s)) = n
      <3>1. TwoAt(m, s, n) /\ \A i : TwoAt(m, s, i) => n <= i
        BY <2>4, <2>5, <2>6
      <3> QED BY <3>1, FirstPlaceIs
    <2> QED BY <2>1, <2>6, <2>7
  <1> QED BY <1>1, <1>6, <1>7

\* More text does not change where a marker is first.
LEMMA FirstStays ==
    ASSUME NEW m \in Markers, NEW a \in Texts, NEW b \in Texts, Places(m, a) # {}
    PROVE  Places(m, a \o b) # {} /\ Min(Places(m, a \o b)) = Min(Places(m, a))
  <1>1. PICK s \in Texts : s = a \o b
    BY JoinIs
  <1>2. /\ Len(s) = Len(a) + Len(b) /\ Len(a) \in Nat /\ Len(b) \in Nat
        /\ \A i \in 1..Len(a) : s[i] = a[i]
    BY <1>1, JoinIs
  <1>3. PICK k : k = Min(Places(m, a))
    OBVIOUS
  <1>4. k \in Nat /\ TwoAt(m, a, k) /\ \A i : TwoAt(m, a, i) => k <= i
    BY <1>3, FirstPlace
  <1>5. TwoAt(m, s, k)
    BY <1>2, <1>4 DEF TwoAt
  <1>6. ASSUME NEW i, TwoAt(m, s, i) PROVE k <= i
    <2>1. CASE i + 1 \in 1..Len(a)
      <3>1. TwoAt(m, a, i)
        BY <1>2, <1>6, <2>1 DEF TwoAt
      <3> QED BY <1>4, <3>1
    <2>2. CASE i + 1 \notin 1..Len(a)
      BY <1>2, <1>4, <1>6, <2>2 DEF TwoAt
    <2> QED BY <2>1, <2>2
  <1>7. Places(m, s) # {} /\ Min(Places(m, s)) = k
    BY <1>5, <1>6, FirstPlaceIs
  <1> QED BY <1>1, <1>3, <1>7

\* What was settled without the marker stays so when more text comes.
LEMMA SoughtOn ==
    ASSUME NEW m \in Markers, NEW a \in Texts, NEW b \in Texts, NEW t \in Texts,
           Places(m, a \o b) = {}, Waits(m, a, b)
    PROVE  Sought(m, a, b \o t) /\ Waits(m, a, b \o t)
  <1>1. PICK s \in Texts : s = a \o b
    BY JoinIs
  <1>2. PICK y \in Texts : y = b \o t
    BY JoinIs
  <1>3. PICK z \in Texts : z = a \o y
    BY JoinIs
  <1>4. /\ Len(a) \in Nat /\ Len(b) \in Nat /\ Len(t) \in Nat
        /\ Len(s) = Len(a) + Len(b) /\ Len(y) = Len(b) + Len(t) /\ Len(z) = Len(a) + Len(y)
    <2>1. /\ Len(a) \in Nat /\ Len(b) \in Nat /\ Len(s) = Len(a) + Len(b)
      BY <1>1, JoinIs
    <2>2. Len(t) \in Nat /\ Len(y) = Len(b) + Len(t)
      BY <1>2, JoinIs
    <2>3. Len(z) = Len(a) + Len(y)
      BY <1>3, JoinIs
    <2> QED BY <2>1, <2>2, <2>3
  <1>5. /\ \A i \in 1..Len(a) : s[i] = a[i] /\ z[i] = a[i]
        /\ \A i \in 1..Len(b) : s[Len(a) + i] = b[i] /\ y[i] = b[i]
        /\ \A i \in 1..Len(y) : z[Len(a) + i] = y[i]
    <2>1. /\ \A i \in 1..Len(a) : s[i] = a[i]
          /\ \A i \in 1..Len(b) : s[Len(a) + i] = b[i]
      BY <1>1, JoinIs
    <2>2. \A i \in 1..Len(b) : y[i] = b[i]
      BY <1>2, JoinIs
    <2>3. /\ \A i \in 1..Len(a) : z[i] = a[i]
          /\ \A i \in 1..Len(y) : z[Len(a) + i] = y[i]
      BY <1>3, JoinIs
    <2> QED BY <2>1, <2>2, <2>3
  <1>6. \A i : ~ TwoAt(m, s, i)
    BY <1>1, PlacesAre
  <1>7. ASSUME NEW i \in 1..Len(a), TwoAt(m, z, i) PROVE FALSE
    <2>1. CASE b # <<>>
      <3>1. Len(b) >= 1
        BY <2>1 DEF Texts
      <3>2. i + 1 \in 1..Len(s) /\ i \in 1..Len(s) /\ s[i] = z[i]
        BY <1>4, <1>5, <3>1
      <3>3. s[i + 1] = z[i + 1]
        <4>1. CASE i < Len(a)
          BY <1>4, <1>5, <4>1
        <4>2. CASE i = Len(a)
          <5>1. 1 \in 1..Len(b) /\ 1 \in 1..Len(y)
            BY <1>4, <3>1
          <5>2. s[Len(a) + 1] = b[1] /\ z[Len(a) + 1] = y[1] /\ y[1] = b[1]
            BY <1>5, <5>1
          <5> QED BY <4>2, <5>2
        <4> QED BY <1>4, <4>1, <4>2
      <3>4. TwoAt(m, s, i)
        BY <1>7, <3>2, <3>3 DEF TwoAt
      <3> QED BY <1>6, <3>4
    <2>2. CASE b = <<>>
      <3>1. Len(b) = 0 /\ Len(s) = Len(a)
        BY <1>4, <2>2
      <3>2. a # <<>>
        BY <1>4
      <3>3. a[Len(a)] # m[1]
        BY <2>2, <3>2 DEF Waits, Last
      <3>4. i # Len(a)
        BY <1>5, <1>7, <3>3 DEF TwoAt
      <3>5. i + 1 \in 1..Len(s) /\ i \in 1..Len(s) /\ s[i] = z[i] /\ s[i + 1] = z[i + 1]
        BY <1>4, <1>5, <3>1, <3>4
      <3>6. TwoAt(m, s, i)
        BY <1>7, <3>5 DEF TwoAt
      <3> QED BY <1>6, <3>6
    <2> QED BY <2>1, <2>2
  <1>8. Sought(m, a, y)
    BY <1>3, <1>7 DEF Sought
  <1>9. Waits(m, a, y)
    <2>1. y = <<>> => b = <<>>
      BY <1>4 DEF Texts
    <2> QED BY <2>1 DEF Waits
  <1> QED BY <1>2, <1>8, <1>9

\* A text cut in two.
LEMMA CutInTwo ==
    ASSUME NEW s \in Texts, NEW n \in 0..Len(s)
    PROVE  /\ SubSeq(s, 1, n) \in Texts /\ SubSeq(s, n + 1, Len(s)) \in Texts
           /\ SubSeq(s, 1, n) \o SubSeq(s, n + 1, Len(s)) = s /\ Len(SubSeq(s, 1, n)) = n
  <1>1. s \in Seq(AllGlyphs) /\ Len(s) \in Nat /\ n \in Nat
    BY DEF Texts
  <1>2. PICK a, b : a = SubSeq(s, 1, n) /\ b = SubSeq(s, n + 1, Len(s))
    OBVIOUS
  <1>3. /\ a \in Seq(AllGlyphs) /\ Len(a) = n
        /\ \A i \in 1..n : a[i] = s[i]
    BY <1>1, <1>2
  <1>4. /\ b \in Seq(AllGlyphs) /\ Len(b) = Len(s) - n
        /\ \A i \in 1..Len(b) : b[i] = s[n + i]
    BY <1>1, <1>2
  <1>5. PICK z : z = a \o b
    OBVIOUS
  <1>6. /\ z \in Seq(AllGlyphs) /\ Len(z) = Len(s)
        /\ \A i \in 1..n : z[i] = a[i]
        /\ \A i \in 1..Len(b) : z[n + i] = b[i]
    BY <1>1, <1>3, <1>4, <1>5
  <1>7. ASSUME NEW i \in 1..Len(s) PROVE z[i] = s[i]
    <2>1. CASE i <= n
      BY <1>1, <1>3, <1>6, <2>1
    <2>2. CASE i > n
      <3>1. i - n \in 1..Len(b) /\ n + (i - n) = i
        BY <1>1, <1>4, <2>2
      <3> QED BY <1>4, <1>6, <3>1
    <2> QED BY <1>1, <2>1, <2>2
  <1>8. z = s
    BY <1>1, <1>6, <1>7, SameSequence
  <1> QED BY <1>2, <1>3, <1>4, <1>5, <1>8 DEF Texts

\* A pending text that ends as the marker begins is not let go.
LEMMA HeldBack ==
    ASSUME NEW p \in ParserTypes, Marker(p) \in Markers, p.pending # <<>>, Held(p) = 0
    PROVE  Last(p.pending) # Marker(p)[1]
  <1>1. PICK m \in Markers : m = Marker(p)
    OBVIOUS
  <1>2. PICK x \in Texts : x = p.pending
    BY ParserFields
  <1>3. x \in Seq(AllGlyphs) /\ Len(x) \in Nat /\ x # <<>>
    BY <1>2 DEF Texts
  <1>4. Len(x) >= 1
    BY <1>3
  <1>5. Len(m) = 2 /\ m \in Seq(AllGlyphs)
    BY MarkerIs
  <1>6. PICK k : k = Min({Len(m), Len(x)})
    OBVIOUS
  <1>7. k \in Nat /\ k >= 1
    BY <1>3, <1>4, <1>5, <1>6, MinOfTwo
  <1> DEFINE S == {n \in 0..k : n = 0 \/ (n < Len(m) /\ SubSeq(m, 1, n) = SubSeq(x, Len(x) - n + 1, Len(x)))}
  <1>8. Max(S) = 0
    BY Zenon, <1>1, <1>2, <1>6 DEF Held
  <1>9. S \subseteq Nat /\ S # {} /\ \A n \in S : n <= k
    <2>1. 0 \in S
      BY <1>7
    <2> QED BY <1>7, <2>1
  <1>10. 1 \notin S
    <2>1. \A n \in S : n <= Max(S)
      <3> HIDE DEF S
      <3> QED BY <1>7, <1>9, MaxIsGreatest
    <2> HIDE DEF S
    <2> QED BY <1>8, <2>1
  <1>11. SubSeq(m, 1, 1) # SubSeq(x, Len(x) - 1 + 1, Len(x))
    BY <1>5, <1>7, <1>10
  <1>12. PICK u, v : u = SubSeq(m, 1, 1) /\ v = SubSeq(x, Len(x), Len(x))
    OBVIOUS
  <1>13. u \in Seq(AllGlyphs) /\ Len(u) = 1 /\ u[1] = m[1]
    <2>1. m \in Seq(AllGlyphs) /\ Len(m) = 2 /\ u = SubSeq(m, 1, 1)
      BY <1>5, <1>12
    <2>2. u \in Seq(AllGlyphs) /\ Len(u) = 1
      BY <2>1
    <2>3. u[1] = m[1]
      BY <2>1
    <2> QED BY <2>2, <2>3
  <1>14. v \in Seq(AllGlyphs) /\ Len(v) = 1 /\ v[1] = x[Len(x)]
    BY <1>3, <1>4, <1>12
  <1>15. u # v
    <2>1. Len(x) - 1 + 1 = Len(x)
      BY <1>3
    <2> QED BY <1>11, <1>12, <2>1
  <1>16. u[1] # v[1]
    <2> SUFFICES ASSUME u[1] = v[1] PROVE FALSE
      OBVIOUS
    <2>1. \A i \in 1..1 : u[i] = v[i]
      OBVIOUS
    <2>2. u = v
      BY <1>13, <1>14, <2>1, SameSequence
    <2> QED BY <1>15, <2>2
  <1> QED BY <1>1, <1>2, <1>13, <1>14, <1>16 DEF Last

\* A pass that finds no marker: what it says, and what it still holds.
Passed(p, said, rest) == [Utter(p, said) EXCEPT !.pending = rest]
LEMMA PassQuiet ==
    ASSUME NEW p \in ParserTypes, Marker(p) \in Markers, Places(Marker(p), p.pending) = {}
    PROVE  \E said \in Texts, rest \in Texts :
              /\ p.pending = said \o rest /\ Waits(Marker(p), said, rest)
              /\ Pass(p) = Passed(p, said, rest)
  <1>1. PICK m \in Markers : m = Marker(p)
    OBVIOUS
  <1>2. PICK x \in Texts : x = p.pending
    BY ParserFields
  <1>3. Len(x) \in Nat
    BY DEF Texts
  <1>4. PICK h : h = Held(p)
    OBVIOUS
  <1>5. h \in 0..Len(x)
    BY <1>2, <1>4, HeldIn
  <1>6. PICK n \in 0..Len(x) : n = Len(x) - h
    BY <1>3, <1>5
  <1>7. PICK said, rest : said = SubSeq(x, 1, n) /\ rest = SubSeq(x, n + 1, Len(x))
    OBVIOUS
  <1>8. said \in Texts /\ rest \in Texts /\ said \o rest = x /\ Len(said) = n
    BY <1>7, CutInTwo
  <1>9. Waits(m, said, rest)
    <2> SUFFICES ASSUME rest = <<>>, said # <<>> PROVE Last(said) # m[1]
      BY DEF Waits
    <2>1. said = x
      BY <1>8, TextFacts
    <2>2. h = 0
      BY <1>3, <1>5, <1>6, <1>8, <2>1
    <2> QED BY <1>1, <1>2, <1>4, <2>1, <2>2, HeldBack
  <1>10. Pass(p) = Passed(p, said, rest)
    <2> DEFINE at   == IF m = <<>> THEN {} ELSE Places(m, x)
               cut  == IF at = {} THEN Len(x) - Held(p) ELSE Min(at) - 1
               past == IF at = {} THEN 0 ELSE Len(m)
    <2>1. Pass(p) = AfterPass(p, SubSeq(x, 1, cut), SubSeq(x, cut + past + 1, Len(x)), at, m)
      BY Zenon, <1>1, <1>2 DEF Pass
    <2>2. at = {}
      BY <1>1, <1>2
    <2>3. cut = n /\ past = 0
      BY <1>4, <1>6, <2>2
    <2> HIDE DEF at, cut, past
    <2>4. cut + past + 1 = n + 1
      BY <1>6, <2>3
    <2>5. Pass(p) = AfterPass(p, said, rest, at, m)
      BY <1>7, <2>1, <2>3, <2>4
    <2>6. AfterPass(p, said, rest, at, m) = Passed(p, said, rest)
      BY Zenon, <2>2 DEF AfterPass, Passed
    <2> QED BY <2>5, <2>6
  <1> QED BY <1>1, <1>2, <1>8, <1>9, <1>10

\* A pass with no marker to wait for says it all.
LEMMA PassPlain ==
    ASSUME NEW p \in ParserTypes, Marker(p) = <<>>
    PROVE  Pass(p) = Passed(p, p.pending, <<>>)
  <1>1. PICK m : m = Marker(p)
    OBVIOUS
  <1>2. PICK x \in Texts : x = p.pending
    BY ParserFields
  <1>3. Len(x) \in Nat /\ x \in Seq(AllGlyphs)
    BY DEF Texts
  <1>4. Held(p) = 0
    <2>1. Len(m) = 0
      BY <1>1
    <2>2. PICK k : k = Min({Len(m), Len(x)})
      OBVIOUS
    <2>3. k = 0
      BY <1>3, <2>1, <2>2, MinOfTwo
    <2> DEFINE S == {n \in 0..k : n = 0 \/ (n < Len(m) /\ SubSeq(m, 1, n) = SubSeq(x, Len(x) - n + 1, Len(x)))}
    <2>4. Held(p) = Max(S)
      BY Zenon, <1>1, <1>2, <2>2 DEF Held
    <2>5. S \subseteq Nat /\ 0 \in S /\ \A n \in S : n <= 0
      BY <2>3
    <2>6. Max(S) \in S
      <3> HIDE DEF S
      <3> QED BY <2>5, MaxIsGreatest
    <2>7. PICK top : top = Max(S)
      OBVIOUS
    <2> HIDE DEF S
    <2>8. top \in Nat /\ top <= 0
      BY <2>5, <2>6, <2>7
    <2> QED BY <2>4, <2>7, <2>8
  <1> DEFINE at   == IF m = <<>> THEN {} ELSE Places(m, x)
             cut  == IF at = {} THEN Len(x) - Held(p) ELSE Min(at) - 1
             past == IF at = {} THEN 0 ELSE Len(m)
  <1>5. Pass(p) = AfterPass(p, SubSeq(x, 1, cut), SubSeq(x, cut + past + 1, Len(x)), at, m)
    BY Zenon, <1>1, <1>2 DEF Pass
  <1>6. at = {}
    BY <1>1
  <1>7. cut = Len(x) /\ past = 0
    BY <1>3, <1>4, <1>6
  <1> HIDE DEF at, cut, past
  <1>8. SubSeq(x, 1, cut) = x
    <2>1. PICK y : y = SubSeq(x, 1, Len(x))
      OBVIOUS
    <2>2. y \in Seq(AllGlyphs) /\ Len(y) = Len(x) /\ \A i \in 1..Len(x) : y[i] = x[i]
      BY <1>3, <2>1
    <2>3. y = x
      BY <1>3, <2>2, SameSequence
    <2> QED BY <1>7, <2>1, <2>3
  <1>9. SubSeq(x, cut + past + 1, Len(x)) = <<>>
    BY <1>3, <1>7
  <1>10. AfterPass(p, x, <<>>, at, m) = Passed(p, x, <<>>)
    BY Zenon, <1>6 DEF AfterPass, Passed
  <1> QED BY Zenon, <1>2, <1>5, <1>8, <1>9, <1>10

\* A pass that finds the marker: what is before it is said, and what is after it left.
LEMMA PassFound ==
    ASSUME NEW p \in ParserTypes, Marker(p) \in Markers, Places(Marker(p), p.pending) # {}, NEW k,
           k = Min(Places(Marker(p), p.pending))
    PROVE  Pass(p) = AfterPass(p, BeforeAt(p.pending, k), AfterAt(p.pending, k),
                               Places(Marker(p), p.pending), Marker(p))
  <1>1. PICK m \in Markers : m = Marker(p)
    OBVIOUS
  <1>2. PICK x \in Texts : x = p.pending
    BY ParserFields
  <1> DEFINE at   == IF m = <<>> THEN {} ELSE Places(m, x)
             cut  == IF at = {} THEN Len(x) - Held(p) ELSE Min(at) - 1
             past == IF at = {} THEN 0 ELSE Len(m)
  <1>3. Pass(p) = AfterPass(p, SubSeq(x, 1, cut), SubSeq(x, cut + past + 1, Len(x)), at, m)
    BY Zenon, <1>1, <1>2 DEF Pass
  <1>4. m # <<>> /\ Len(m) = 2
    BY MarkerIs
  <1>5. at = Places(m, x) /\ at # {}
    BY <1>1, <1>2, <1>4
  <1>6. cut = k - 1 /\ past = 2
    BY <1>1, <1>2, <1>4, <1>5
  <1> HIDE DEF at, cut, past
  <1>7. k \in Nat
    BY <1>1, <1>2, FirstPlace
  <1>8. cut + past + 1 = k + 2
    BY <1>6, <1>7
  <1> QED BY <1>1, <1>2, <1>3, <1>5, <1>6, <1>8 DEF BeforeAt, AfterAt

\* What was sought and is not there is settled.
NowSettled(m, a, said, rest, x) ==
    /\ (a \o said) \o rest = a \o x /\ Places(m, (a \o said) \o rest) = {} /\ Waits(m, a \o said, rest)
LEMMA QuietSettles ==
    ASSUME NEW m \in Markers, NEW a \in Texts, NEW said \in Texts, NEW rest \in Texts, NEW x \in Texts,
           x = said \o rest, Sought(m, a, x), Waits(m, a, x), Places(m, x) = {}, Waits(m, said, rest)
    PROVE  NowSettled(m, a, said, rest, x)
  <1>1. (a \o said) \o rest = a \o x
    BY ZenonT(60), JoinedTwice
  <1>2. Places(m, a \o x) = {}
    BY FirstOfRest
  <1>3. Waits(m, a \o said, rest)
    <2> SUFFICES ASSUME rest = <<>> PROVE a \o said = <<>> \/ Last(a \o said) # m[1]
      BY DEF Waits
    <2>1. x = said
      BY TextFacts
    <2>2. CASE said = <<>>
      <3>1. a \o said = a /\ x = <<>>
        BY <2>1, <2>2, TextFacts
      <3> QED BY <3>1 DEF Waits
    <2>3. CASE said # <<>>
      <3>1. Last(said) # m[1]
        BY <2>3 DEF Waits
      <3>2. PICK z \in Texts : z = a \o said
        BY JoinIs
      <3>3. Len(z) = Len(a) + Len(said) /\ Len(said) \in 1..Len(said) /\ Len(a) \in Nat
        BY <2>3, <3>2, JoinIs DEF Texts
      <3>4. z[Len(a) + Len(said)] = said[Len(said)]
        BY <3>2, <3>3, JoinIs
      <3>5. Last(z) = Last(said)
        BY <3>3, <3>4 DEF Last
      <3> QED BY <3>1, <3>2, <3>5
    <2> QED BY <2>2, <2>3
  <1> QED BY <1>1, <1>2, <1>3 DEF NowSettled
-----------------------------------------------------------------------------
(* The parser after the whole text X it was fed.                              *)

\* The reasoning of X, what of X comes after it, and what of that is before a call.
Reasoned(p, X, thinking) ==
    IF thinking THEN Places(ThinkClose, X) # {} /\ p.reasoning = BeforeAt(X, Min(Places(ThinkClose, X)))
    ELSE p.reasoning = <<>>
After(X, thinking) == IF thinking THEN AfterAt(X, Min(Places(ThinkClose, X))) ELSE X
SaidFirst(Y) == LET s == BeforeAt(Y, Min(Places(CallOpen, Y))) IN IF AllBlank(s) THEN <<>> ELSE s

\* White space is held back only while nothing else was said and a call may follow.
Uttered(p) == p.content \o p.leading
Shaped(p) ==
    /\ AllBlank(p.leading) /\ (p.leading = <<>> \/ (p.functions /\ p.content = <<>>))
    /\ p.functions => p.content = <<>> \/ ~ AllBlank(p.content)

\* The three states: in the reasoning, in the content, and in a call.
Thinks(p, X) ==
    /\ p.channel = "reasoning" /\ ~ p.inTools /\ p.content = <<>> /\ p.leading = <<>>
    /\ X = p.reasoning \o p.pending
    /\ Sought(ThinkClose, p.reasoning, p.pending) /\ Waits(ThinkClose, p.reasoning, p.pending)
Talks(p, Y) ==
    /\ p.channel = "content" /\ ~ p.inTools /\ Shaped(p) /\ Y = Uttered(p) \o p.pending
    /\ p.functions => Sought(CallOpen, Uttered(p), p.pending) /\ Waits(CallOpen, Uttered(p), p.pending)
InCall(p, Y) ==
    /\ p.channel = "content" /\ p.inTools /\ p.functions /\ p.leading = <<>> /\ p.pending = <<>>
    /\ Places(CallOpen, Y) # {} /\ p.content = SaidFirst(Y)

\* The parser has split X, or is about to.
Splitting(p, X, thinking) ==
    \/ thinking /\ Thinks(p, X)
    \/ Reasoned(p, X, thinking) /\ (Talks(p, After(X, thinking)) \/ InCall(p, After(X, thinking)))
Settled(p, X, thinking) ==
    /\ p.channel = "reasoning" => Places(ThinkClose, X) = {}
    /\ p.channel = "content" /\ ~ p.inTools =>
          IF p.functions THEN Places(CallOpen, After(X, thinking)) = {} ELSE p.pending = <<>>
Split(p, X, thinking) == p \in ParserTypes /\ X \in Texts /\ Splitting(p, X, thinking) /\ Settled(p, X, thinking)

\* White space after white space.
LEMMA BlankJoined ==
    ASSUME NEW a \in Texts, NEW b \in Texts
    PROVE  AllBlank(a \o b) <=> AllBlank(a) /\ AllBlank(b)
  <1>1. PICK z \in Texts : z = a \o b
    BY JoinIs
  <1>2. /\ Len(a) \in Nat /\ Len(b) \in Nat /\ Len(z) = Len(a) + Len(b)
        /\ \A i \in 1..Len(a) : z[i] = a[i]
        /\ \A i \in 1..Len(b) : z[Len(a) + i] = b[i]
    BY <1>1, JoinIs
  <1>3. DOMAIN a = 1..Len(a) /\ DOMAIN b = 1..Len(b) /\ DOMAIN z = 1..Len(z)
    BY DEF Texts
  <1>4. ASSUME AllBlank(z) PROVE AllBlank(a) /\ AllBlank(b)
    <2>1. ASSUME NEW i \in 1..Len(a) PROVE a[i] = Blank
      BY <1>2, <1>3, <1>4 DEF AllBlank
    <2>2. ASSUME NEW i \in 1..Len(b) PROVE b[i] = Blank
      <3>1. Len(a) + i \in 1..Len(z)
        BY <1>2
      <3> QED BY <1>2, <1>3, <1>4, <3>1 DEF AllBlank
    <2> QED BY <1>3, <2>1, <2>2 DEF AllBlank
  <1>5. ASSUME AllBlank(a), AllBlank(b) PROVE AllBlank(z)
    <2>1. ASSUME NEW i \in 1..Len(z) PROVE z[i] = Blank
      <3>1. CASE i <= Len(a)
        BY <1>2, <1>3, <1>5, <3>1 DEF AllBlank
      <3>2. CASE i > Len(a)
        <4>1. i - Len(a) \in 1..Len(b) /\ Len(a) + (i - Len(a)) = i
          BY <1>2, <3>2
        <4> QED BY <1>2, <1>3, <1>5, <4>1 DEF AllBlank
      <3> QED BY <1>2, <3>1, <3>2
    <2> QED BY <1>3, <2>1 DEF AllBlank
  <1> QED BY <1>1, <1>4, <1>5

\* What a parser has when it has uttered a text.
LEMMA UtterReasons ==
    ASSUME NEW p \in ParserTypes, NEW t \in Texts, p.channel = "reasoning"
    PROVE  /\ Utter(p, t) \in ParserTypes /\ Utter(p, t).channel = p.channel
           /\ (Utter(p, t).functions <=> p.functions) /\ (Utter(p, t).inTools <=> p.inTools)
           /\ Utter(p, t).content = p.content /\ Utter(p, t).leading = p.leading
           /\ Utter(p, t).reasoning = p.reasoning \o t
  <1>1. /\ p.channel \in Channels /\ p.reasoning \in Texts /\ p.out \in Seq(Pieces1)
    BY ParserFields
  <1>2. CASE t = <<>>
    <2>1. Utter(p, t) = p
      BY Zenon, <1>2 DEF Utter
    <2>2. p.reasoning \o t = p.reasoning
      BY <1>1, <1>2, TextFacts
    <2> QED BY <2>1, <2>2
  <1>3. CASE t # <<>>
    <2>1. PICK d : d = Delta(p.channel, t)
      OBVIOUS
    <2>2. d \in Pieces1
      BY <1>1, <2>1 DEF Delta, Pieces1
    <2>3. PICK o \in Seq(Pieces1) : o = Append(p.out, d)
      <3>1. Append(p.out, d) \in Seq(Pieces1)
        BY <1>1, <2>2
      <3> QED BY <3>1
    <2>4. PICK r \in Texts : r = p.reasoning \o t
      BY <1>1, TextFacts
    <2>5. PICK q : q = [[p EXCEPT !.out = o] EXCEPT !.reasoning = r]
      OBVIOUS
    <2>6. [p EXCEPT !.out = o].reasoning = p.reasoning
      BY DEF ParserTypes
    <2>7. Utter(p, t) = q
      BY Zenon, <1>3, <2>1, <2>3, <2>4, <2>5, <2>6, ToldIs DEF Utter
    <2>8. /\ q \in ParserTypes /\ q.reasoning = r /\ q.content = p.content
          /\ q.leading = p.leading /\ q.channel = p.channel /\ (q.inTools <=> p.inTools)
          /\ (q.functions <=> p.functions)
      BY <2>5 DEF ParserTypes
    <2> QED BY <2>4, <2>7, <2>8
  <1> QED BY <1>2, <1>3

LEMMA UtterTalks ==
    ASSUME NEW p \in ParserTypes, NEW t \in Texts, p.channel = "content", Shaped(p)
    PROVE  /\ Utter(p, t) \in ParserTypes /\ Utter(p, t).channel = p.channel
           /\ (Utter(p, t).functions <=> p.functions) /\ (Utter(p, t).inTools <=> p.inTools)
           /\ Utter(p, t).reasoning = p.reasoning /\ Shaped(Utter(p, t))
           /\ Uttered(Utter(p, t)) = Uttered(p) \o t
  <1>1. /\ p.channel \in Channels /\ p.content \in Texts /\ p.leading \in Texts /\ p.out \in Seq(Pieces1)
    BY ParserFields
  <1>2. Uttered(p) \in Texts
    BY <1>1, TextFacts DEF Uttered
  <1>3. CASE t = <<>>
    <2>1. Utter(p, t) = p
      BY Zenon, <1>3 DEF Utter
    <2>2. Uttered(p) \o t = Uttered(p)
      BY <1>2, <1>3, TextFacts
    <2> QED BY <2>1, <2>2
  <1>4. CASE t # <<>> /\ p.functions /\ p.content = <<>> /\ AllBlank(t)
    <2>1. PICK l \in Texts : l = p.leading \o t
      BY <1>1, TextFacts
    <2>2. PICK q : q = [p EXCEPT !.leading = l]
      OBVIOUS
    <2>3. Utter(p, t) = q
      BY Zenon, <1>4, <2>1, <2>2 DEF Utter
    <2>4. /\ q \in ParserTypes /\ q.reasoning = p.reasoning /\ q.content = p.content /\ q.leading = l
          /\ q.channel = p.channel /\ (q.inTools <=> p.inTools) /\ (q.functions <=> p.functions)
      BY <2>2 DEF ParserTypes
    <2>5. AllBlank(l)
      BY <1>1, <1>4, <2>1, BlankJoined DEF Shaped
    <2>6. Shaped(q)
      BY <1>4, <2>4, <2>5 DEF Shaped
    <2>7. Uttered(q) = Uttered(p) \o t
      <3>1. Uttered(p) = p.leading /\ Uttered(q) = l
        BY <1>1, <1>4, <2>4, TextFacts DEF Uttered
      <3> QED BY <2>1, <3>1
    <2> QED BY <2>3, <2>4, <2>6, <2>7
  <1>5. CASE t # <<>> /\ p.functions /\ p.content = <<>> /\ ~ AllBlank(t)
    <2>1. PICK c \in Texts : c = p.leading \o t
      BY <1>1, TextFacts
    <2>2. PICK d : d = Delta(p.channel, c)
      OBVIOUS
    <2>3. d \in Pieces1
      BY <1>1, <2>2 DEF Delta, Pieces1
    <2>4. PICK o \in Seq(Pieces1) : o = Append(p.out, d)
      <3>1. Append(p.out, d) \in Seq(Pieces1)
        BY <1>1, <2>3
      <3> QED BY <3>1
    <2>5. PICK none \in Texts : none = <<>>
      BY TextFacts
    <2>6. PICK q : q = [p EXCEPT !.out = o, !.content = c, !.leading = none]
      OBVIOUS
    <2>7. Utter(p, t) = q
      <3>1. Told(p, c) = [p EXCEPT !.out = o]
        BY Zenon, <2>2, <2>4, ToldIs
      <3>2. Utter(p, t) = [Told(p, c) EXCEPT !.content = c, !.leading = none]
        <4>1. p.channel # "reasoning"
          OBVIOUS
        <4> QED BY Zenon, <1>5, <2>1, <2>5, <4>1 DEF Utter
      <3>3. [[p EXCEPT !.out = o] EXCEPT !.content = c, !.leading = none] = [p EXCEPT !.out = o, !.content = c, !.leading = none]
        OBVIOUS
      <3> QED BY Zenon, <2>6, <3>1, <3>2, <3>3
    <2>8. /\ q \in ParserTypes /\ q.reasoning = p.reasoning /\ q.content = c /\ q.leading = none
          /\ q.channel = p.channel /\ (q.inTools <=> p.inTools) /\ (q.functions <=> p.functions)
      BY <2>6 DEF ParserTypes
    <2>9. Shaped(q)
      <3>1. ~ AllBlank(c)
        BY <1>1, <1>5, <2>1, BlankJoined
      <3>2. AllBlank(none)
        BY <2>5 DEF AllBlank
      <3> QED BY <2>5, <2>8, <3>1, <3>2 DEF Shaped
    <2>10. Uttered(q) = Uttered(p) \o t
      <3>1. Uttered(p) = p.leading /\ Uttered(q) = c
        BY <1>1, <1>5, <2>5, <2>8, TextFacts DEF Uttered
      <3> QED BY <2>1, <3>1
    <2> QED BY <2>7, <2>8, <2>9, <2>10
  <1>6. CASE t # <<>> /\ ~ (p.functions /\ p.content = <<>>)
    <2>1. PICK c \in Texts : c = p.content \o t
      BY <1>1, TextFacts
    <2>2. PICK d : d = Delta(p.channel, t)
      OBVIOUS
    <2>3. d \in Pieces1
      BY <1>1, <2>2 DEF Delta, Pieces1
    <2>4. PICK o \in Seq(Pieces1) : o = Append(p.out, d)
      <3>1. Append(p.out, d) \in Seq(Pieces1)
        BY <1>1, <2>3
      <3> QED BY <3>1
    <2>5. PICK q : q = [[p EXCEPT !.out = o] EXCEPT !.content = c]
      OBVIOUS
    <2>6. [p EXCEPT !.out = o].content = p.content
      BY DEF ParserTypes
    <2>7. Utter(p, t) = q
      <3>1. p.channel # "reasoning"
        OBVIOUS
      <3> QED BY Zenon, <1>6, <2>1, <2>2, <2>4, <2>5, <2>6, <3>1, ToldIs DEF Utter
    <2>8. /\ q \in ParserTypes /\ q.reasoning = p.reasoning /\ q.content = c /\ q.leading = p.leading
          /\ q.channel = p.channel /\ (q.inTools <=> p.inTools) /\ (q.functions <=> p.functions)
      BY <2>5 DEF ParserTypes
    <2>9. p.leading = <<>>
      BY <1>6 DEF Shaped
    <2>10. Shaped(q)
      <3>1. p.functions => ~ AllBlank(p.content)
        BY <1>6 DEF Shaped
      <3>2. p.functions => ~ AllBlank(c)
        BY <1>1, <2>1, <3>1, BlankJoined
      <3>3. AllBlank(q.leading) /\ q.leading = <<>>
        BY <2>8, <2>9 DEF Shaped
      <3> QED BY <2>8, <3>2, <3>3 DEF Shaped
    <2>11. Uttered(q) = Uttered(p) \o t
      <3>1. Uttered(p) = p.content /\ Uttered(q) = c
        BY <1>1, <2>8, <2>9, TextFacts DEF Uttered
      <3> QED BY <2>1, <3>1
    <2> QED BY <2>7, <2>8, <2>10, <2>11
  <1> QED BY <1>3, <1>4, <1>5, <1>6

\* Where the marker is nowhere, it was not missed.
LEMMA NowhereSought ==
    ASSUME NEW m \in Markers, NEW a \in Texts, NEW b \in Texts, Places(m, a \o b) = {}
    PROVE  Sought(m, a, b)
  <1>1. PICK s \in Texts : s = a \o b
    BY JoinIs
  <1>2. \A i : ~ TwoAt(m, s, i)
    BY <1>1, PlacesAre
  <1> QED BY <1>1, <1>2 DEF Sought

\* The rest of a text.
LEMMA RestFrom ==
    ASSUME NEW s \in Texts, NEW n \in 0..Len(s)
    PROVE  /\ SubSeq(s, n + 1, Len(s)) \in Seq(AllGlyphs) /\ Len(SubSeq(s, n + 1, Len(s))) = Len(s) - n
           /\ \A i \in 1..Len(SubSeq(s, n + 1, Len(s))) : SubSeq(s, n + 1, Len(s))[i] = s[n + i]
  <1>1. s \in Seq(AllGlyphs) /\ Len(s) \in Nat /\ n \in Nat
    BY DEF Texts
  <1>2. PICK b : b = SubSeq(s, n + 1, Len(s))
    OBVIOUS
  <1>3. /\ b \in Seq(AllGlyphs) /\ Len(b) = Len(s) - n
        /\ \A i \in 1..Len(b) : b[i] = s[n + i]
    BY <1>1, <1>2
  <1> QED BY <1>2, <1>3

\* What is before a place in the second of two texts, and after it.
Moved(n, a, k) == n = Len(a) + k
CutAt(a, x, k, n) ==
    /\ BeforeAt(a \o x, n) = a \o BeforeAt(x, k) /\ AfterAt(a \o x, n) = AfterAt(x, k)
    /\ BeforeAt(x, k) \in Texts /\ AfterAt(x, k) \in Texts
LEMMA PartsOfJoin ==
    ASSUME NEW m, NEW a \in Texts, NEW x \in Texts, NEW k, TwoAt(m, x, k), NEW n, Moved(n, a, k)
    PROVE  CutAt(a, x, k, n)
  <1>0. k \in 1..Len(x) /\ k + 1 \in 1..Len(x) /\ n = Len(a) + k
    BY DEF TwoAt, Moved
  <1>1. PICK z \in Texts : z = a \o x
    BY JoinIs
  <1>2. /\ Len(z) = Len(a) + Len(x) /\ Len(a) \in Nat /\ Len(x) \in Nat /\ k \in 1..Len(x) /\ k + 1 \in 1..Len(x) /\ n = Len(a) + k
        /\ \A i \in 1..Len(a) : z[i] = a[i]
        /\ \A i \in 1..Len(x) : z[Len(a) + i] = x[i]
    BY <1>0, <1>1, JoinIs
  <1>s. z \in Seq(AllGlyphs) /\ x \in Seq(AllGlyphs) /\ a \in Seq(AllGlyphs)
    BY DEF Texts
  <1>3. PICK said, rest : said = SubSeq(x, 1, k - 1) /\ rest = SubSeq(x, k + 2, Len(x))
    OBVIOUS
  <1>4. /\ said \in Seq(AllGlyphs) /\ Len(said) = k - 1
        /\ \A i \in 1..Len(said) : said[i] = x[i]
    BY <1>2, <1>3, <1>s
  <1>5. /\ rest \in Seq(AllGlyphs) /\ Len(rest) = Len(x) - (k + 1)
        /\ \A i \in 1..Len(rest) : rest[i] = x[k + 1 + i]
    BY <1>2, <1>3, <1>s
  <1>6. said \in Texts /\ rest \in Texts
    BY <1>4, <1>5 DEF Texts
  <1>7. SubSeq(z, 1, n - 1) = a \o said
    <2>1. PICK l : l = SubSeq(z, 1, n - 1)
      OBVIOUS
    <2>2. /\ l \in Seq(AllGlyphs) /\ Len(l) = n - 1
          /\ \A i \in 1..Len(l) : l[i] = z[i]
      BY <1>2, <1>s, <2>1
    <2>3. PICK r \in Texts : r = a \o said
      BY <1>6, JoinIs
    <2>4. /\ Len(r) = Len(a) + Len(said)
          /\ \A i \in 1..Len(a) : r[i] = a[i]
          /\ \A i \in 1..Len(said) : r[Len(a) + i] = said[i]
      BY <1>6, <2>3, JoinIs
    <2>5. Len(r) = n - 1 /\ r \in Seq(AllGlyphs)
      BY <1>2, <1>4, <2>4 DEF Texts
    <2>6. ASSUME NEW i \in 1..(n - 1) PROVE l[i] = r[i]
      <3>1. CASE i <= Len(a)
        BY <1>2, <2>2, <2>4, <3>1
      <3>2. CASE i > Len(a)
        <4>1. i - Len(a) \in 1..Len(said) /\ Len(a) + (i - Len(a)) = i /\ i - Len(a) \in 1..Len(x)
          BY <1>2, <1>4, <3>2
        <4>2. r[i] = said[i - Len(a)]
          BY <2>4, <4>1
        <4>3. said[i - Len(a)] = x[i - Len(a)]
          BY <1>4, <4>1
        <4>4. z[i] = x[i - Len(a)]
          BY <1>2, <4>1
        <4>5. l[i] = z[i]
          BY <2>2
        <4> QED BY <4>2, <4>3, <4>4, <4>5
      <3> QED BY <1>2, <3>1, <3>2
    <2>7. l = r
      BY <2>2, <2>5, <2>6, SameSequence
    <2> QED BY <2>1, <2>3, <2>7
  <1>8. SubSeq(z, n + 2, Len(z)) = rest
    <2>1. PICK l : l = SubSeq(z, n + 2, Len(z))
      OBVIOUS
    <2>2. /\ l \in Seq(AllGlyphs) /\ Len(l) = Len(rest)
          /\ \A i \in 1..Len(rest) : l[i] = z[n + 1 + i]
      <3>1. PICK c \in 0..Len(z) : c = n + 1
        BY <1>2
      <3>2. n + 2 = c + 1 /\ Len(z) - c = Len(rest)
        BY <1>2, <1>5, <3>1
      <3>3. l = SubSeq(z, c + 1, Len(z))
        BY <2>1, <3>2
      <3>4. l \in Seq(AllGlyphs) /\ Len(l) = Len(z) - c /\ \A i \in 1..Len(l) : l[i] = z[c + i]
        BY <3>3, RestFrom
      <3> QED BY <3>1, <3>2, <3>4
    <2>3. ASSUME NEW i \in 1..Len(rest) PROVE l[i] = rest[i]
      <3>1. k + 1 + i \in 1..Len(x) /\ Len(a) + (k + 1 + i) = n + 1 + i
        BY <1>2, <1>5
      <3> QED BY <1>2, <1>5, <2>2, <3>1
    <2>4. PICK N : N = Len(rest)
      OBVIOUS
    <2>5. l = rest
      BY <1>5, <2>2, <2>3, <2>4, SameSequence
    <2> QED BY <2>1, <2>5
  <1> QED BY <1>1, <1>3, <1>6, <1>7, <1>8 DEF BeforeAt, AfterAt, CutAt

\* A parser with another pending text, or another channel.
Pends(q, u, rest) ==
    /\ q \in ParserTypes /\ q.pending = rest /\ q.channel = u.channel /\ q.reasoning = u.reasoning
    /\ q.content = u.content /\ q.leading = u.leading /\ (q.inTools <=> u.inTools)
    /\ (q.functions <=> u.functions)
LEMMA PendingIs ==
    ASSUME NEW u \in ParserTypes, NEW rest \in Texts
    PROVE  Pends([u EXCEPT !.pending = rest], u, rest)
  BY DEF ParserTypes, Pends

\* A pass over the reasoning.
LEMMA PassThinks ==
    ASSUME NEW p \in ParserTypes, NEW X \in Texts, Thinks(p, X), Places(ThinkClose, p.pending) = {}
    PROVE  /\ Pass(p) \in ParserTypes /\ (Pass(p).functions <=> p.functions)
           /\ Thinks(Pass(p), X) /\ Places(ThinkClose, X) = {}
  <1>1. Marker(p) = ThinkClose /\ ThinkClose \in Markers
    BY DEF Thinks, Marker, Markers
  <1>2. PICK m \in Markers : m = ThinkClose
    BY <1>1
  <1>3. PICK x \in Texts, a \in Texts : x = p.pending /\ a = p.reasoning
    BY ParserFields
  <1>4. PICK said \in Texts, rest \in Texts : x = said \o rest /\ Waits(m, said, rest) /\ Pass(p) = Passed(p, said, rest)
    BY <1>1, <1>2, <1>3, PassQuiet
  <1>5. Sought(m, a, x) /\ Waits(m, a, x) /\ Places(m, x) = {} /\ X = a \o x
    BY <1>2, <1>3 DEF Thinks
  <1>6. X = (a \o said) \o rest /\ Places(m, (a \o said) \o rest) = {} /\ Waits(m, a \o said, rest)
    <2>1. NowSettled(m, a, said, rest, x)
      <3>1. x = said \o rest /\ Waits(m, said, rest)
        BY <1>4
      <3>2. Sought(m, a, x) /\ Waits(m, a, x) /\ Places(m, x) = {}
        BY <1>5
      <3> QED BY ZenonT(60), <3>1, <3>2, QuietSettles
    <2> QED BY <1>5, <2>1 DEF NowSettled
  <1>7. PICK as \in Texts : as = a \o said
    BY JoinIs
  <1>8. Sought(m, as, rest)
    BY <1>6, <1>7, NowhereSought
  <1>9. PICK u : u = Utter(p, said)
    OBVIOUS
  <1>10. /\ u \in ParserTypes /\ u.channel = "reasoning" /\ (u.functions <=> p.functions) /\ ~ u.inTools
         /\ u.content = <<>> /\ u.leading = <<>> /\ u.reasoning = as
    BY <1>3, <1>7, <1>9, UtterReasons DEF Thinks
  <1>11. PICK q : q = [u EXCEPT !.pending = rest]
    OBVIOUS
  <1>12. Pass(p) = q
    BY Zenon, <1>4, <1>9, <1>11 DEF Passed
  <1>13. /\ q \in ParserTypes /\ q.pending = rest /\ q.channel = "reasoning" /\ (q.functions <=> p.functions)
         /\ ~ q.inTools /\ q.content = <<>> /\ q.leading = <<>> /\ q.reasoning = as
    <2>1. Pends(q, u, rest)
      BY ZenonT(60), <1>10, <1>11, PendingIs
    <2> QED BY <1>10, <2>1 DEF Pends
  <1>14. Thinks(q, X)
    BY <1>2, <1>6, <1>7, <1>8, <1>13 DEF Thinks
  <1> QED BY <1>2, <1>6, <1>12, <1>13, <1>14

\* The pass that finds the end of the reasoning.
LEMMA PassCloses ==
    ASSUME NEW p \in ParserTypes, NEW X \in Texts, Thinks(p, X), Places(ThinkClose, p.pending) # {}
    PROVE  /\ Pass(p) \in ParserTypes /\ (Pass(p).functions <=> p.functions)
           /\ Reasoned(Pass(p), X, TRUE) /\ Talks(Pass(p), After(X, TRUE))
  <1>1. Marker(p) = ThinkClose /\ ThinkClose \in Markers
    BY DEF Thinks, Marker, Markers
  <1>2. PICK m \in Markers : m = ThinkClose
    BY <1>1
  <1>3. PICK x \in Texts, a \in Texts : x = p.pending /\ a = p.reasoning
    BY ParserFields
  <1>4. PICK at : at = Places(m, x)
    OBVIOUS
  <1>5. PICK k : k = Min(at)
    OBVIOUS
  <1>6. at # {} /\ k \in Nat /\ TwoAt(m, x, k)
    BY <1>2, <1>3, <1>4, <1>5, FirstPlace
  <1>8. PICK said, rest : said = BeforeAt(x, k) /\ rest = AfterAt(x, k)
    OBVIOUS
  <1>9. Sought(m, a, x) /\ X = a \o x
    BY <1>2, <1>3 DEF Thinks
  <1>10. PICK n : n = Len(a) + k
    OBVIOUS
  <1>11. BeforeAt(X, n) = a \o said /\ AfterAt(X, n) = rest /\ said \in Texts /\ rest \in Texts
    <2>1. Moved(n, a, k)
      BY <1>10 DEF Moved
    <2>2. CutAt(a, x, k, n)
      BY ZenonT(60), <1>6, <2>1, PartsOfJoin
    <2> QED BY <1>8, <1>9, <2>2 DEF CutAt
  <1>12. Places(m, X) # {} /\ Min(Places(m, X)) = n
    BY <1>4, <1>5, <1>6, <1>9, <1>10, FirstOfRest
  <1>13. Pass(p) = AfterPass(p, said, rest, at, m)
    BY <1>1, <1>2, <1>3, <1>4, <1>5, <1>6, <1>8, PassFound
  <1>14. PICK as \in Texts : as = a \o said
    BY <1>11, JoinIs
  <1>15. PICK u : u = Utter(p, said)
    OBVIOUS
  <1>16. /\ u \in ParserTypes /\ u.channel = "reasoning" /\ (u.functions <=> p.functions) /\ ~ u.inTools
         /\ u.content = <<>> /\ u.leading = <<>> /\ u.reasoning = as
    BY <1>3, <1>11, <1>14, <1>15, UtterReasons DEF Thinks
  <1>17. PICK q : q = [u EXCEPT !.pending = rest]
    OBVIOUS
  <1>18. /\ q \in ParserTypes /\ q.pending = rest /\ (q.functions <=> p.functions)
         /\ ~ q.inTools /\ q.content = <<>> /\ q.leading = <<>> /\ q.reasoning = as
    <2>1. Pends(q, u, rest)
      <3>1. u \in ParserTypes /\ rest \in Texts
        BY <1>11, <1>16
      <3> QED BY ZenonT(60), <1>17, <3>1, PendingIs
    <2> QED BY <1>16, <2>1 DEF Pends
  <1>19. PICK y : y = [q EXCEPT !.channel = "content"]
    OBVIOUS
  <1>20. Pass(p) = y
    <2>1. ~ p.inTools /\ p.channel = "reasoning"
      BY DEF Thinks
    <2> QED BY Zenon, <1>6, <1>13, <1>15, <1>17, <1>19, <2>1 DEF AfterPass
  <1>21. /\ y \in ParserTypes /\ y.pending = rest /\ (y.functions <=> p.functions) /\ y.channel = "content"
         /\ ~ y.inTools /\ y.content = <<>> /\ y.leading = <<>> /\ y.reasoning = as
    BY <1>18, <1>19 DEF ParserTypes, Channels
  <1>22. Reasoned(y, X, TRUE) /\ After(X, TRUE) = rest
    BY <1>2, <1>11, <1>12, <1>14, <1>21 DEF Reasoned, After
  <1>23. Talks(y, rest)
    <2>1. PICK none \in Texts : none = <<>>
      BY TextFacts
    <2>2. Uttered(y) = none
      BY <1>21, <2>1, TextFacts DEF Uttered
    <2>3. none \o rest = rest
      BY <1>11, <2>1, TextFacts
    <2>4. AllBlank(none)
      BY <2>1 DEF AllBlank
    <2>5. Shaped(y)
      BY <1>21, <2>1, <2>4 DEF Shaped
    <2>6. Sought(CallOpen, none, rest) /\ Waits(CallOpen, none, rest)
      <3>1. Len(none) = 0
        BY <2>1
      <3> QED BY <2>1, <3>1 DEF Sought, Waits
    <2> QED BY <1>21, <2>1, <2>2, <2>3, <2>5, <2>6 DEF Talks
  <1> QED BY <1>20, <1>21, <1>22, <1>23

\* A pass over the content where no call may follow.
LEMMA PassPlainTalks ==
    ASSUME NEW p \in ParserTypes, NEW Y \in Texts, Talks(p, Y), ~ p.functions
    PROVE  /\ Pass(p) \in ParserTypes /\ (Pass(p).functions <=> p.functions)
           /\ Pass(p).reasoning = p.reasoning /\ Talks(Pass(p), Y) /\ Pass(p).pending = <<>>
  <1>1. Marker(p) = <<>>
    BY DEF Talks, Marker
  <1>2. PICK x \in Texts : x = p.pending
    BY ParserFields
  <1>3. PICK rest \in Texts : rest = <<>>
    BY TextFacts
  <1>4. Pass(p) = Passed(p, x, rest)
    BY <1>1, <1>2, <1>3, PassPlain
  <1>5. PICK u : u = Utter(p, x)
    OBVIOUS
  <1>6. /\ u \in ParserTypes /\ u.channel = "content" /\ (u.functions <=> p.functions) /\ ~ u.inTools
        /\ u.reasoning = p.reasoning /\ Shaped(u) /\ Uttered(u) = Uttered(p) \o x
    BY <1>5, UtterTalks DEF Talks
  <1>7. PICK q : q = [u EXCEPT !.pending = rest]
    OBVIOUS
  <1>8. Pass(p) = q
    BY Zenon, <1>4, <1>5, <1>7 DEF Passed
  <1>9. Pends(q, u, rest)
    BY ZenonT(60), <1>6, <1>7, PendingIs
  <1>10. Shaped(q) /\ Uttered(q) = Uttered(u)
    BY <1>6, <1>9 DEF Pends, Shaped, Uttered
  <1>11. Y = Uttered(q) \o rest
    <2>1. Uttered(q) = Y
      BY <1>2, <1>6, <1>10 DEF Talks
    <2> QED BY <1>3, <2>1, TextFacts
  <1>12. Talks(q, Y)
    BY <1>6, <1>9, <1>10, <1>11 DEF Pends, Talks
  <1> QED BY <1>3, <1>6, <1>8, <1>9, <1>12 DEF Pends

\* A pass over the content that finds no call.
LEMMA PassTalks ==
    ASSUME NEW p \in ParserTypes, NEW Y \in Texts, Talks(p, Y), p.functions, Places(CallOpen, p.pending) = {}
    PROVE  /\ Pass(p) \in ParserTypes /\ (Pass(p).functions <=> p.functions)
           /\ Pass(p).reasoning = p.reasoning /\ Talks(Pass(p), Y) /\ Places(CallOpen, Y) = {}
  <1>1. Marker(p) = CallOpen /\ CallOpen \in Markers
    BY DEF Talks, Marker, Markers
  <1>2. PICK m \in Markers : m = CallOpen
    BY <1>1
  <1>a. Uttered(p) \in Texts
    BY ParserFields, TextFacts DEF Uttered
  <1>3. PICK x \in Texts, a \in Texts : x = p.pending /\ a = Uttered(p)
    BY <1>a, ParserFields
  <1>4. PICK said \in Texts, rest \in Texts : x = said \o rest /\ Waits(m, said, rest) /\ Pass(p) = Passed(p, said, rest)
    BY <1>1, <1>2, <1>3, PassQuiet
  <1>5. Sought(m, a, x) /\ Waits(m, a, x) /\ Places(m, x) = {} /\ Y = a \o x
    BY <1>2, <1>3 DEF Talks
  <1>6. Y = (a \o said) \o rest /\ Places(m, (a \o said) \o rest) = {} /\ Waits(m, a \o said, rest)
    <2>1. NowSettled(m, a, said, rest, x)
      <3>1. x = said \o rest /\ Waits(m, said, rest)
        BY <1>4
      <3>2. Sought(m, a, x) /\ Waits(m, a, x) /\ Places(m, x) = {}
        BY <1>5
      <3> QED BY ZenonT(60), <3>1, <3>2, QuietSettles
    <2> QED BY <1>5, <2>1 DEF NowSettled
  <1>7. PICK as \in Texts : as = a \o said
    BY JoinIs
  <1>8. Sought(m, as, rest)
    BY <1>6, <1>7, NowhereSought
  <1>9. PICK u : u = Utter(p, said)
    OBVIOUS
  <1>10. /\ u \in ParserTypes /\ u.channel = "content" /\ (u.functions <=> p.functions) /\ ~ u.inTools
         /\ u.reasoning = p.reasoning /\ Shaped(u) /\ Uttered(u) = as
    BY <1>3, <1>7, <1>9, UtterTalks DEF Talks
  <1>11. PICK q : q = [u EXCEPT !.pending = rest]
    OBVIOUS
  <1>12. Pass(p) = q
    BY Zenon, <1>4, <1>9, <1>11 DEF Passed
  <1>13. Pends(q, u, rest)
    BY ZenonT(60), <1>10, <1>11, PendingIs
  <1>14. Shaped(q) /\ Uttered(q) = as
    BY <1>10, <1>13 DEF Pends, Shaped, Uttered
  <1>15. Talks(q, Y)
    BY <1>2, <1>6, <1>7, <1>8, <1>10, <1>13, <1>14 DEF Pends, Talks
  <1> QED BY <1>2, <1>6, <1>10, <1>12, <1>13, <1>15 DEF Pends

\* The pass that finds a call.
LEMMA PassOpens ==
    ASSUME NEW p \in ParserTypes, NEW Y \in Texts, Talks(p, Y), p.functions, Places(CallOpen, p.pending) # {}
    PROVE  /\ Pass(p) \in ParserTypes /\ (Pass(p).functions <=> p.functions)
           /\ Pass(p).reasoning = p.reasoning /\ InCall(Pass(p), Y)
  <1>1. Marker(p) = CallOpen /\ CallOpen \in Markers
    BY DEF Talks, Marker, Markers
  <1>2. PICK m \in Markers : m = CallOpen
    BY <1>1
  <1>a. Uttered(p) \in Texts
    BY ParserFields, TextFacts DEF Uttered
  <1>3. PICK x \in Texts, a \in Texts : x = p.pending /\ a = Uttered(p)
    BY <1>a, ParserFields
  <1>4. PICK at : at = Places(m, x)
    OBVIOUS
  <1>5. PICK k : k = Min(at)
    OBVIOUS
  <1>6. at # {} /\ k \in Nat /\ TwoAt(m, x, k)
    BY <1>2, <1>3, <1>4, <1>5, FirstPlace
  <1>8. PICK said, rest : said = BeforeAt(x, k) /\ rest = AfterAt(x, k)
    OBVIOUS
  <1>9. Sought(m, a, x) /\ Y = a \o x
    BY <1>2, <1>3 DEF Talks
  <1>10. PICK n : n = Len(a) + k
    OBVIOUS
  <1>11. BeforeAt(Y, n) = a \o said /\ said \in Texts /\ rest \in Texts
    <2>1. Moved(n, a, k)
      BY <1>10 DEF Moved
    <2>2. CutAt(a, x, k, n)
      BY ZenonT(60), <1>6, <2>1, PartsOfJoin
    <2> QED BY <1>8, <1>9, <2>2 DEF CutAt
  <1>12. Places(m, Y) # {} /\ Min(Places(m, Y)) = n
    BY <1>4, <1>5, <1>6, <1>9, <1>10, FirstOfRest
  <1>13. Pass(p) = AfterPass(p, said, rest, at, m)
    BY <1>1, <1>2, <1>3, <1>4, <1>5, <1>6, <1>8, PassFound
  <1>14. PICK as \in Texts : as = a \o said
    BY <1>11, JoinIs
  <1>15. PICK u : u = Utter(p, said)
    OBVIOUS
  <1>16. /\ u \in ParserTypes /\ u.channel = "content" /\ (u.functions <=> p.functions) /\ ~ u.inTools
         /\ u.reasoning = p.reasoning /\ Shaped(u) /\ Uttered(u) = as
    BY <1>3, <1>11, <1>14, <1>15, UtterTalks DEF Talks
  <1>17. PICK q : q = [u EXCEPT !.pending = rest]
    OBVIOUS
  <1>18. Pends(q, u, rest)
    BY ZenonT(60), <1>11, <1>16, <1>17, PendingIs
  <1>19. PICK none \in Texts, xml \in Texts : none = <<>> /\ xml = m \o rest
    BY <1>11, MarkerIs, TextFacts
  <1>20. PICK y : y = [q EXCEPT !.inTools = TRUE, !.leading = none, !.xml = xml, !.pending = none]
    OBVIOUS
  <1>21. Pass(p) = y
    <2>1. ~ p.inTools /\ p.channel # "reasoning"
      BY DEF Talks
    <2> QED BY Zenon, <1>6, <1>13, <1>15, <1>17, <1>19, <1>20, <2>1 DEF AfterPass
  <1>22. q \in ParserTypes
    BY <1>18 DEF Pends
  <1>23. /\ y \in ParserTypes /\ y.pending = none /\ (y.functions <=> q.functions) /\ y.channel = q.channel
         /\ y.inTools /\ y.content = q.content /\ y.leading = none /\ y.reasoning = q.reasoning
    BY <1>20, <1>22 DEF ParserTypes
  <1>24. u.content = SaidFirst(Y)
    <2>1. SaidFirst(Y) = IF AllBlank(as) THEN <<>> ELSE as
      BY <1>2, <1>11, <1>12, <1>14 DEF SaidFirst
    <2>2. CASE u.content = <<>>
      <3>1. as = u.leading /\ AllBlank(u.leading)
        BY <1>16, <2>2, ParserFields, TextFacts DEF Shaped, Uttered
      <3> QED BY <2>1, <2>2, <3>1
    <2>3. CASE u.content # <<>>
      <3>1. u.leading = <<>> /\ ~ AllBlank(u.content)
        BY <1>16, <2>3 DEF Shaped
      <3>2. as = u.content
        BY <1>16, <3>1, ParserFields, TextFacts DEF Uttered
      <3> QED BY <2>1, <3>1, <3>2
    <2> QED BY <2>2, <2>3
  <1>25. InCall(y, Y)
    BY <1>2, <1>12, <1>16, <1>18, <1>19, <1>23, <1>24 DEF Pends, InCall
  <1> QED BY <1>16, <1>18, <1>21, <1>23, <1>25 DEF Pends

\* In a call the pass says nothing.
LEMMA PassInCall ==
    ASSUME NEW p \in ParserTypes, NEW Y \in Texts, InCall(p, Y)
    PROVE  /\ Pass(p) \in ParserTypes /\ (Pass(p).functions <=> p.functions)
           /\ Pass(p).reasoning = p.reasoning /\ InCall(Pass(p), Y)
  <1>1. Marker(p) = CallOpen /\ CallOpen \in Markers
    BY DEF InCall, Marker, Markers
  <1>2. PICK m \in Markers : m = CallOpen
    BY <1>1
  <1>3. PICK x \in Texts : x = p.pending /\ x = <<>>
    BY ParserFields DEF InCall
  <1>4. Places(m, x) = {}
    <2>1. Len(x) = 0
      BY <1>3
    <2> QED BY <2>1, PlacesAre DEF TwoAt
  <1>5. PICK said \in Texts, rest \in Texts : x = said \o rest /\ Pass(p) = Passed(p, said, rest)
    BY <1>1, <1>2, <1>3, <1>4, PassQuiet
  <1>6. said = <<>> /\ rest = <<>>
    <2>1. Len(x) = Len(said) + Len(rest) /\ Len(said) \in Nat /\ Len(rest) \in Nat /\ Len(x) = 0
      BY <1>3, <1>5, JoinIs
    <2>2. said # <<>> => Len(said) > 0
      BY DEF Texts
    <2>3. rest # <<>> => Len(rest) > 0
      BY DEF Texts
    <2>4. ~ (Len(said) > 0) /\ ~ (Len(rest) > 0)
      <3>1. PICK i \in Nat, j \in Nat : i = Len(said) /\ j = Len(rest)
        BY <2>1
      <3>2. i + j = 0
        BY <2>1, <3>1
      <3>3. i = 0 /\ j = 0
        BY <3>2
      <3> QED BY <3>1, <3>3
    <2> QED BY Zenon, <2>2, <2>3, <2>4
  <1>7. PICK q : q = [p EXCEPT !.pending = rest]
    OBVIOUS
  <1>8. Pass(p) = q
    BY Zenon, <1>5, <1>6, <1>7 DEF Passed, Utter
  <1>9. Pends(q, p, rest)
    BY ZenonT(60), <1>7, PendingIs
  <1> QED BY <1>6, <1>8, <1>9 DEF Pends, InCall

\* What is before a marker and after it, when the text grows.
GrowsAt(a, b, k) ==
    /\ BeforeAt(a \o b, k) = BeforeAt(a, k) /\ AfterAt(a \o b, k) = AfterAt(a, k) \o b
    /\ BeforeAt(a, k) \in Texts /\ AfterAt(a, k) \in Texts
LEMMA GrowsAfter ==
    ASSUME NEW m, NEW a \in Texts, NEW b \in Texts, NEW k, TwoAt(m, a, k)
    PROVE  GrowsAt(a, b, k)
  <1>1. PICK z \in Texts : z = a \o b
    BY JoinIs
  <1>2. /\ Len(z) = Len(a) + Len(b) /\ Len(a) \in Nat /\ Len(b) \in Nat /\ k \in 1..Len(a) /\ k + 1 \in 1..Len(a)
        /\ \A i \in 1..Len(a) : z[i] = a[i]
        /\ \A i \in 1..Len(b) : z[Len(a) + i] = b[i]
    BY <1>1, JoinIs DEF TwoAt
  <1>s. z \in Seq(AllGlyphs) /\ a \in Seq(AllGlyphs) /\ b \in Seq(AllGlyphs)
    BY DEF Texts
  <1>3. PICK c \in 0..Len(a) : c = k - 1
    BY <1>2
  <1>4. PICK d \in 0..Len(a) : d = k + 1
    BY <1>2
  <1>5. c \in 0..Len(z) /\ d \in 0..Len(z)
    BY <1>2
  <1>6. k + 2 = d + 1
    BY <1>2, <1>4
  <1>7. PICK l, r : l = SubSeq(z, 1, c) /\ r = SubSeq(a, 1, c)
    OBVIOUS
  <1>8. l = r
    <2>1. l \in Seq(AllGlyphs) /\ Len(l) = c /\ \A i \in 1..c : l[i] = z[i]
      BY <1>2, <1>s, <1>5, <1>7
    <2>2. r \in Seq(AllGlyphs) /\ Len(r) = c /\ \A i \in 1..c : r[i] = a[i]
      BY <1>2, <1>s, <1>7
    <2>3. \A i \in 1..c : l[i] = r[i]
      BY <1>2, <2>1, <2>2
    <2> QED BY <2>1, <2>2, <2>3, SameSequence
  <1>9. PICK v, w : v = SubSeq(z, d + 1, Len(z)) /\ w = SubSeq(a, d + 1, Len(a))
    OBVIOUS
  <1>10. v \in Seq(AllGlyphs) /\ Len(v) = Len(z) - d /\ \A i \in 1..Len(v) : v[i] = z[d + i]
    BY <1>5, <1>9, RestFrom
  <1>11. w \in Seq(AllGlyphs) /\ Len(w) = Len(a) - d /\ \A i \in 1..Len(w) : w[i] = a[d + i]
    BY <1>9, RestFrom
  <1>12. w \in Texts /\ r \in Texts
    <2>1. r \in Seq(AllGlyphs)
      BY <1>2, <1>s, <1>7
    <2> QED BY <1>11, <2>1 DEF Texts
  <1>13. PICK y \in Texts : y = w \o b
    BY <1>12, JoinIs
  <1>14. /\ Len(y) = Len(w) + Len(b)
         /\ \A i \in 1..Len(w) : y[i] = w[i]
         /\ \A i \in 1..Len(b) : y[Len(w) + i] = b[i]
    BY <1>12, <1>13, JoinIs
  <1>15. Len(v) = Len(y)
    BY <1>2, <1>10, <1>11, <1>14
  <1>16. ASSUME NEW i \in 1..Len(y) PROVE v[i] = y[i]
    <2>1. v[i] = z[d + i]
      BY <1>10, <1>15
    <2>2. CASE i <= Len(w)
      <3>1. i \in 1..Len(w) /\ d + i \in 1..Len(a)
        BY <1>2, <1>11, <2>2
      <3>2. y[i] = w[i] /\ w[i] = a[d + i] /\ z[d + i] = a[d + i]
        BY <1>2, <1>11, <1>14, <3>1
      <3> QED BY <2>1, <3>2
    <2>3. CASE i > Len(w)
      <3>1. PICK j \in 1..Len(b) : j = i - Len(w)
        BY <1>2, <1>11, <1>14, <2>3
      <3>2. i = Len(w) + j /\ d + i = Len(a) + j
        BY <1>2, <1>11, <3>1
      <3>3. y[i] = b[j] /\ z[d + i] = b[j]
        BY <1>2, <1>14, <3>2
      <3> QED BY <2>1, <3>3
    <2> QED BY <1>11, <2>2, <2>3
  <1>17. v = y
    <2>1. PICK N : N = Len(y)
      OBVIOUS
    <2>2. y \in Seq(AllGlyphs)
      BY DEF Texts
    <2> QED BY <1>10, <1>15, <1>16, <2>1, <2>2, SameSequence
  <1>18. BeforeAt(z, k) = l /\ BeforeAt(a, k) = r
    BY <1>3, <1>7 DEF BeforeAt
  <1>19. AfterAt(z, k) = v /\ AfterAt(a, k) = w
    BY <1>6, <1>9 DEF AfterAt
  <1> QED BY <1>1, <1>8, <1>12, <1>13, <1>17, <1>18, <1>19 DEF GrowsAt

\* What comes after the reasoning is a text, and grows with the text.
ReasonedOn(q, X, t, thinking) ==
    /\ After(X, thinking) \in Texts /\ Reasoned(q, X \o t, thinking)
    /\ After(X \o t, thinking) = After(X, thinking) \o t
LEMMA AfterIs ==
    ASSUME NEW p, NEW q, NEW X \in Texts, NEW t \in Texts, NEW thinking \in BOOLEAN, Reasoned(p, X, thinking),
           q.reasoning = p.reasoning
    PROVE  ReasonedOn(q, X, t, thinking)
  <1>1. CASE thinking
    <2>1. PICK m \in Markers : m = ThinkClose
      BY DEF Markers
    <2>2. Places(m, X) # {}
      BY <1>1, <2>1 DEF Reasoned
    <2>3. PICK k : k = Min(Places(m, X))
      OBVIOUS
    <2>4. TwoAt(m, X, k)
      BY <2>2, <2>3, FirstPlace
    <2>5. Places(m, X \o t) # {} /\ Min(Places(m, X \o t)) = k
      BY <2>2, <2>3, FirstStays
    <2>6. GrowsAt(X, t, k)
      BY ZenonT(60), <2>4, GrowsAfter
    <2> QED BY <1>1, <2>1, <2>3, <2>5, <2>6 DEF Reasoned, After, GrowsAt, ReasonedOn
  <1>2. CASE ~ thinking
    BY <1>2 DEF Reasoned, After, ReasonedOn
  <1> QED BY <1>1, <1>2

\* A pass keeps the split, and settles it but where it has just found the end of
\* the reasoning.
LEMMA PassSplits ==
    ASSUME NEW p \in ParserTypes, NEW X \in Texts, NEW thinking \in BOOLEAN, Splitting(p, X, thinking)
    PROVE  /\ Pass(p) \in ParserTypes /\ (Pass(p).functions <=> p.functions) /\ Splitting(Pass(p), X, thinking)
           /\ Settled(p, X, thinking) \/ p.channel # "reasoning" \/ Pass(p).channel = "reasoning"
                => Settled(Pass(p), X, thinking)
  <1>1. CASE thinking /\ Thinks(p, X) /\ Places(ThinkClose, p.pending) = {}
    <2>1. /\ Pass(p) \in ParserTypes /\ (Pass(p).functions <=> p.functions)
          /\ Thinks(Pass(p), X) /\ Places(ThinkClose, X) = {}
      BY <1>1, PassThinks
    <2>2. Settled(Pass(p), X, thinking)
      BY <2>1 DEF Settled, Thinks
    <2> QED BY <1>1, <2>1, <2>2 DEF Splitting
  <1>2. CASE thinking /\ Thinks(p, X) /\ Places(ThinkClose, p.pending) # {}
    <2>1. /\ Pass(p) \in ParserTypes /\ (Pass(p).functions <=> p.functions)
          /\ Reasoned(Pass(p), X, TRUE) /\ Talks(Pass(p), After(X, TRUE))
      BY <1>2, PassCloses
    <2>2. Splitting(Pass(p), X, thinking)
      <3>1. Reasoned(Pass(p), X, thinking) /\ Talks(Pass(p), After(X, thinking))
        BY <1>2, <2>1
      <3> QED BY <3>1 DEF Splitting
    <2>3. p.channel = "reasoning" /\ Pass(p).channel # "reasoning"
      BY <1>2, <2>1 DEF Thinks, Talks
    <2>4. ~ Settled(p, X, thinking)
      <3>1. PICK m \in Markers : m = ThinkClose
        BY DEF Markers
      <3>2. PICK a \in Texts, x \in Texts : a = p.reasoning /\ x = p.pending
        BY ParserFields
      <3>3. Sought(m, a, x) /\ X = a \o x /\ Places(m, x) # {}
        BY <1>2, <3>1, <3>2 DEF Thinks
      <3>4. Places(m, X) # {}
        BY <3>3, FirstOfRest
      <3> QED BY <2>3, <3>1, <3>4 DEF Settled
    <2> QED BY <2>1, <2>2, <2>3, <2>4
  <1>3. CASE Reasoned(p, X, thinking) /\ (Talks(p, After(X, thinking)) \/ InCall(p, After(X, thinking)))
    <2>1. PICK Y \in Texts : Y = After(X, thinking)
      <3>1. ReasonedOn(p, X, X, thinking)
        BY ZenonT(60), <1>3, AfterIs
      <3> QED BY <3>1 DEF ReasonedOn
    <2>2. ASSUME Pass(p).reasoning = p.reasoning PROVE Reasoned(Pass(p), X, thinking)
      BY <1>3, <2>2 DEF Reasoned
    <2>3. CASE Talks(p, Y) /\ ~ p.functions
      <3>1. /\ Pass(p) \in ParserTypes /\ (Pass(p).functions <=> p.functions)
            /\ Pass(p).reasoning = p.reasoning /\ Talks(Pass(p), Y) /\ Pass(p).pending = <<>>
        BY <2>3, PassPlainTalks
      <3>2. Settled(Pass(p), X, thinking)
        BY <2>3, <3>1 DEF Settled, Talks
      <3> QED BY <2>1, <2>2, <3>1, <3>2 DEF Splitting
    <2>4. CASE Talks(p, Y) /\ p.functions /\ Places(CallOpen, p.pending) = {}
      <3>1. /\ Pass(p) \in ParserTypes /\ (Pass(p).functions <=> p.functions)
            /\ Pass(p).reasoning = p.reasoning /\ Talks(Pass(p), Y) /\ Places(CallOpen, Y) = {}
        BY <2>4, PassTalks
      <3>2. Settled(Pass(p), X, thinking)
        BY <2>1, <2>4, <3>1 DEF Settled, Talks
      <3> QED BY <2>1, <2>2, <3>1, <3>2 DEF Splitting
    <2>5. CASE Talks(p, Y) /\ p.functions /\ Places(CallOpen, p.pending) # {}
      <3>1. /\ Pass(p) \in ParserTypes /\ (Pass(p).functions <=> p.functions)
            /\ Pass(p).reasoning = p.reasoning /\ InCall(Pass(p), Y)
        BY <2>5, PassOpens
      <3>2. Settled(Pass(p), X, thinking)
        BY <3>1 DEF Settled, InCall
      <3> QED BY <2>1, <2>2, <3>1, <3>2 DEF Splitting
    <2>6. CASE InCall(p, Y)
      <3>1. /\ Pass(p) \in ParserTypes /\ (Pass(p).functions <=> p.functions)
            /\ Pass(p).reasoning = p.reasoning /\ InCall(Pass(p), Y)
        BY <2>6, PassInCall
      <3>2. Settled(Pass(p), X, thinking)
        BY <3>1 DEF Settled, InCall
      <3> QED BY <2>1, <2>2, <3>1, <3>2 DEF Splitting
    <2> QED BY <1>3, <2>1, <2>3, <2>4, <2>5, <2>6
  <1> QED BY <1>1, <1>2, <1>3 DEF Splitting

\* A parser that is fed a piece has split the text with the piece (feed).
LEMMA FeedSplits ==
    ASSUME NEW p, NEW X, NEW t \in Texts, NEW thinking \in BOOLEAN, Split(p, X, thinking)
    PROVE  Split(Feed(p, t), X \o t, thinking) /\ (Feed(p, t).functions <=> p.functions)
  <1>1. p \in ParserTypes /\ X \in Texts /\ Splitting(p, X, thinking) /\ Settled(p, X, thinking)
    BY DEF Split
  <1>2. PICK Z \in Texts : Z = X \o t
    BY <1>1, JoinIs
  <1>3. PICK none : none = <<>>
    OBVIOUS
  <1>4. none \in Seq(Pieces1)
    BY <1>3
  <1>5. PICK xml \in Texts : xml = p.xml \o t
    BY <1>1, ParserFields, TextFacts
  <1>6. PICK y \in Texts : y = p.pending \o t
    BY <1>1, ParserFields, TextFacts
  <1>7. CASE p.inTools
    <2>1. PICK n : n = [p EXCEPT !.xml = xml, !.out = none]
      OBVIOUS
    <2>2. Feed(p, t) = n
      BY Zenon, <1>3, <1>5, <1>7, <2>1 DEF Feed
    <2>3. /\ n \in ParserTypes /\ n.pending = p.pending /\ n.channel = p.channel /\ n.reasoning = p.reasoning
          /\ n.content = p.content /\ n.leading = p.leading /\ (n.inTools <=> p.inTools)
          /\ (n.functions <=> p.functions)
      BY <1>1, <1>4, <2>1 DEF ParserTypes
    <2>4. Reasoned(p, X, thinking) /\ InCall(p, After(X, thinking))
      BY <1>1, <1>7 DEF Splitting, Thinks, Talks
    <2>5. /\ After(X, thinking) \in Texts /\ Reasoned(n, Z, thinking)
          /\ After(Z, thinking) = After(X, thinking) \o t
      <3>1. ReasonedOn(n, X, t, thinking)
        BY ZenonT(60), <1>1, <2>3, <2>4, AfterIs
      <3> QED BY <1>2, <3>1 DEF ReasonedOn
    <2>6. PICK Y \in Texts : Y = After(X, thinking)
      BY <2>5
    <2>7. PICK m \in Markers : m = CallOpen
      BY DEF Markers
    <2>8. Places(m, Y) # {} /\ p.content = SaidFirst(Y)
      BY <2>4, <2>6, <2>7 DEF InCall
    <2>9. PICK k : k = Min(Places(m, Y))
      OBVIOUS
    <2>10. TwoAt(m, Y, k)
      BY <2>8, <2>9, FirstPlace
    <2>11. Places(m, Y \o t) # {} /\ Min(Places(m, Y \o t)) = k
      BY <2>8, <2>9, FirstStays
    <2>12. GrowsAt(Y, t, k)
      BY ZenonT(60), <2>10, GrowsAfter
    <2>13. SaidFirst(Y \o t) = SaidFirst(Y)
      BY Zenon, <2>7, <2>9, <2>11, <2>12 DEF GrowsAt, SaidFirst
    <2>14. InCall(n, Y \o t)
      BY <2>3, <2>4, <2>7, <2>8, <2>11, <2>13 DEF InCall
    <2>15. Splitting(n, Z, thinking)
      BY <2>5, <2>6, <2>14 DEF Splitting
    <2>16. Settled(n, Z, thinking)
      BY <2>14 DEF InCall, Settled
    <2> QED BY <1>2, <2>2, <2>3, <2>15, <2>16 DEF Split
  <1>8. CASE ~ p.inTools
    <2>1. PICK n : n = [p EXCEPT !.pending = y, !.out = none]
      OBVIOUS
    <2>2. Feed(p, t) = Pass(Pass(Pass(n)))
      BY Zenon, <1>3, <1>6, <1>8, <2>1 DEF Feed
    <2>3. /\ n \in ParserTypes /\ n.pending = y /\ n.channel = p.channel /\ n.reasoning = p.reasoning
          /\ n.content = p.content /\ n.leading = p.leading /\ (n.inTools <=> p.inTools)
          /\ (n.functions <=> p.functions)
      BY <1>1, <1>4, <2>1 DEF ParserTypes
    <2>4. PICK b \in Texts, a \in Texts : b = p.pending /\ a = p.reasoning
      BY <1>1, ParserFields
    <2>5. ASSUME thinking /\ Thinks(p, X) PROVE Splitting(n, Z, thinking)
      <3>1. PICK m \in Markers : m = ThinkClose
        BY DEF Markers
      <3>2. X = a \o b /\ Waits(m, a, b) /\ Places(m, X) = {}
        BY <1>1, <2>4, <2>5, <3>1 DEF Thinks, Settled
      <3>3. Sought(m, a, y) /\ Waits(m, a, y)
        <4>1. Sought(m, a, b \o t) /\ Waits(m, a, b \o t)
          BY <3>2, SoughtOn
        <4> QED BY <1>6, <2>4, <4>1
      <3>4. Z = a \o y
        <4>1. (a \o b) \o t = a \o (b \o t)
          BY ZenonT(60), JoinedTwice
        <4> QED BY <1>2, <1>6, <2>4, <3>2, <4>1
      <3>5. Thinks(n, Z)
        BY <2>3, <2>4, <2>5, <3>1, <3>3, <3>4 DEF Thinks
      <3> QED BY <2>5, <3>5 DEF Splitting
    <2>6. ASSUME Reasoned(p, X, thinking) /\ Talks(p, After(X, thinking)) PROVE Splitting(n, Z, thinking)
      <3>1. /\ After(X, thinking) \in Texts /\ Reasoned(n, Z, thinking)
            /\ After(Z, thinking) = After(X, thinking) \o t
        <4>1. ReasonedOn(n, X, t, thinking)
          BY ZenonT(60), <1>1, <2>3, <2>6, AfterIs
        <4> QED BY <1>2, <4>1 DEF ReasonedOn
      <3>2. PICK Y \in Texts : Y = After(X, thinking)
        BY <3>1
      <3>3. PICK s \in Texts : s = Uttered(p)
        <4>1. Uttered(p) \in Texts
          BY <1>1, ParserFields, TextFacts DEF Uttered
        <4> QED BY <4>1
      <3>4. Uttered(n) = s /\ Shaped(n)
        BY <2>3, <2>6, <3>3 DEF Uttered, Shaped, Talks
      <3>5. Y = s \o b
        BY <2>4, <2>6, <3>2, <3>3 DEF Talks
      <3>6. Y \o t = s \o y
        <4>1. (s \o b) \o t = s \o (b \o t)
          BY ZenonT(60), JoinedTwice
        <4> QED BY <1>6, <2>4, <3>5, <4>1
      <3>7. ASSUME p.functions PROVE Sought(CallOpen, s, y) /\ Waits(CallOpen, s, y)
        <4>1. PICK m \in Markers : m = CallOpen
          BY DEF Markers
        <4>2. Places(m, Y) = {} /\ Waits(m, s, b)
          BY <1>1, <2>4, <2>6, <3>2, <3>3, <3>7, <4>1 DEF Talks, Settled
        <4>3. Sought(m, s, b \o t) /\ Waits(m, s, b \o t)
          BY <3>5, <4>2, SoughtOn
        <4> QED BY <1>6, <2>4, <4>1, <4>3
      <3>8. Talks(n, Y \o t)
        BY <2>3, <2>6, <3>4, <3>6, <3>7 DEF Talks
      <3> QED BY <3>1, <3>2, <3>8 DEF Splitting
    <2>7. Splitting(n, Z, thinking)
      <3>1. ~ InCall(p, After(X, thinking))
        BY <1>8 DEF InCall
      <3> QED BY <1>1, <2>5, <2>6, <3>1 DEF Splitting
    <2>8. PICK u, v, w : u = Pass(n) /\ v = Pass(u) /\ w = Pass(v)
      OBVIOUS
    <2>9. /\ u \in ParserTypes /\ (u.functions <=> n.functions) /\ Splitting(u, Z, thinking)
          /\ n.channel # "reasoning" \/ u.channel = "reasoning" => Settled(u, Z, thinking)
      BY <2>3, <2>7, <2>8, PassSplits
    <2>10. /\ v \in ParserTypes /\ (v.functions <=> u.functions) /\ Splitting(v, Z, thinking)
           /\ Settled(u, Z, thinking) \/ u.channel # "reasoning" => Settled(v, Z, thinking)
      BY <2>8, <2>9, PassSplits
    <2>11. Settled(v, Z, thinking)
      BY <2>9, <2>10
    <2>12. /\ w \in ParserTypes /\ (w.functions <=> v.functions) /\ Splitting(w, Z, thinking)
           /\ Settled(v, Z, thinking) => Settled(w, Z, thinking)
      BY <2>8, <2>10, PassSplits
    <2> QED BY <1>2, <2>2, <2>3, <2>8, <2>9, <2>10, <2>11, <2>12 DEF Split
  <1> QED BY <1>7, <1>8

\* A parser that is told nothing has split what it has.
LEMMA QuietSplits ==
    ASSUME NEW p, NEW X, NEW thinking, Split(p, X, thinking)
    PROVE  Split([p EXCEPT !.out = <<>>], X, thinking) /\ ([p EXCEPT !.out = <<>>].functions <=> p.functions)
  <1>1. PICK none : none = <<>>
    OBVIOUS
  <1>2. none \in Seq(Pieces1)
    BY <1>1
  <1>3. PICK n : n = [p EXCEPT !.out = none]
    OBVIOUS
  <1>4. /\ n \in ParserTypes /\ n.pending = p.pending /\ n.channel = p.channel /\ n.reasoning = p.reasoning
        /\ n.content = p.content /\ n.leading = p.leading /\ (n.inTools <=> p.inTools)
        /\ (n.functions <=> p.functions)
    BY <1>2, <1>3 DEF Split, ParserTypes
  <1>5. Splitting(n, X, thinking)
    <2>1. Thinks(p, X) => Thinks(n, X)
      BY <1>4 DEF Thinks
    <2>2. Reasoned(p, X, thinking) => Reasoned(n, X, thinking)
      BY <1>4 DEF Reasoned
    <2>3. PICK Y : Y = After(X, thinking)
      OBVIOUS
    <2>4. Talks(p, Y) => Talks(n, Y)
      BY <1>4 DEF Talks, Shaped, Uttered
    <2>5. InCall(p, Y) => InCall(n, Y)
      BY <1>4 DEF InCall
    <2> QED BY <2>1, <2>2, <2>3, <2>4, <2>5 DEF Split, Splitting
  <1>6. Settled(n, X, thinking)
    BY <1>4 DEF Split, Settled
  <1>7. Split(n, X, thinking)
    BY <1>4, <1>5, <1>6 DEF Split
  <1> QED BY <1>1, <1>3, <1>4, <1>7

\* The parser of a turn that begins has split the empty text.
LEMMA NewSplits ==
    ASSUME NEW thinking \in BOOLEAN, NEW functions \in BOOLEAN
    PROVE  Split(NewParser(thinking, functions), <<>>, thinking)
           /\ (NewParser(thinking, functions).functions <=> functions)
  <1>1. PICK p : p = NewParser(thinking, functions)
    OBVIOUS
  <1>2. p \in ParserTypes
    BY <1>1, NewParserIs
  <1>3. PICK none \in Texts : none = <<>>
    BY MarkersAre
  <1>4. /\ p.channel = (IF thinking THEN "reasoning" ELSE "content") /\ (p.functions <=> functions) /\ ~ p.inTools
        /\ p.pending = none /\ p.reasoning = none /\ p.content = none /\ p.leading = none
    BY <1>1, <1>3 DEF NewParser
  <1>5. none \o none = none /\ Len(none) = 0 /\ AllBlank(none)
    BY <1>3, TextFacts DEF AllBlank
  <1>6. \A m \in Markers : Places(m, none) = {} /\ Sought(m, none, none) /\ Waits(m, none, none)
    <2> TAKE m \in Markers
    <2>1. Places(m, none) = {}
      BY <1>5, PlacesAre DEF TwoAt
    <2> QED BY <1>3, <1>5, <2>1 DEF Sought, Waits
  <1>7. CASE thinking
    <2>1. Thinks(p, none) /\ Places(ThinkClose, none) = {}
      BY <1>3, <1>4, <1>5, <1>6, <1>7 DEF Thinks, Markers
    <2>2. Split(p, none, thinking)
      BY <1>2, <1>4, <1>7, <2>1 DEF Split, Splitting, Settled
    <2> QED BY <1>1, <1>3, <1>4, <2>2
  <1>8. CASE ~ thinking
    <2>1. Reasoned(p, none, thinking) /\ After(none, thinking) = none
      BY <1>3, <1>4, <1>8 DEF Reasoned, After
    <2>2. Uttered(p) = none /\ Shaped(p)
      BY <1>3, <1>4, <1>5 DEF Uttered, Shaped
    <2>3. Talks(p, none)
      BY <1>4, <1>5, <1>6, <1>8, <2>2 DEF Talks, Markers
    <2>4. Places(CallOpen, none) = {}
      BY <1>6 DEF Markers
    <2>5. Split(p, none, thinking)
      BY <1>2, <1>3, <1>4, <1>8, <2>1, <2>3, <2>4 DEF Split, Splitting, Settled
    <2> QED BY <1>1, <1>3, <1>4, <2>5
  <1> QED BY <1>7, <1>8

\* The message of a parser is the split of the whole text it was fed.
LEMMA MessageSplits ==
    ASSUME NEW p, NEW X, NEW thinking \in BOOLEAN, NEW functions \in BOOLEAN, Split(p, X, thinking),
           p.functions <=> functions, NEW complete
    PROVE  /\ Message(p, complete).content = WholeMessage(X, thinking, functions).content
           /\ Message(p, complete).reasoning = WholeMessage(X, thinking, functions).reasoning
  <1>1. p \in ParserTypes /\ X \in Texts /\ Splitting(p, X, thinking) /\ Settled(p, X, thinking)
    BY DEF Split
  <1> DEFINE close == Places(ThinkClose, X)
             open  == thinking /\ close = {}
             after == IF ~thinking THEN X
                      ELSE IF open THEN <<>> ELSE SubSeq(X, Min(close) + Len(ThinkClose), Len(X))
             calls == IF functions THEN Places(CallOpen, after) ELSE {}
             said  == IF calls = {} THEN after ELSE SubSeq(after, 1, Min(calls) - 1)
             rsn   == IF ~thinking THEN <<>> ELSE IF open THEN X ELSE SubSeq(X, 1, Min(close) - 1)
             cnt   == IF calls # {} /\ AllBlank(said) THEN <<>> ELSE said
             tail  == IF p.channel = "content" /\ ~p.inTools THEN p.pending ELSE <<>>
             more  == IF p.channel = "reasoning" THEN p.pending ELSE <<>>
  <1>2. WholeMessage(X, thinking, functions).content = cnt /\ WholeMessage(X, thinking, functions).reasoning = rsn
    BY DEF WholeMessage
  <1>3. Message(p, complete).content = p.content \o p.leading \o tail
        /\ Message(p, complete).reasoning = p.reasoning \o more
    BY DEF Message
  <1>4. p.content \in Texts /\ p.leading \in Texts /\ p.reasoning \in Texts /\ p.pending \in Texts
    BY <1>1, ParserFields
  <1>5. PICK none \in Texts : none = <<>>
    BY MarkersAre
  <1>6. CASE thinking /\ Thinks(p, X)
    <2>1. close = {}
      BY <1>1, <1>6 DEF Settled, Thinks
    <2>2. after = none
      BY <1>5, <1>6, <2>1
    <2>3. calls = {}
      <3>1. PICK m \in Markers : m = CallOpen
        BY DEF Markers
      <3>2. Len(none) = 0
        BY <1>5
      <3>3. Places(m, none) = {}
        BY <3>2, PlacesAre DEF TwoAt
      <3> QED BY <2>2, <3>1, <3>3
    <2>4. cnt = none /\ rsn = X
      BY <1>6, <2>1, <2>2, <2>3
    <2>5. p.content \o p.leading \o tail = none
      <3>1. p.content = none /\ p.leading = none /\ tail = none
        BY <1>5, <1>6 DEF Thinks
      <3>2. none \o none = none
        BY <1>5, TextFacts
      <3> HIDE DEF tail
      <3> QED BY <3>1, <3>2
    <2>6. p.reasoning \o more = X
      BY <1>6 DEF Thinks
    <2> QED BY <1>2, <1>3, <2>4, <2>5, <2>6
  <1>7. CASE Reasoned(p, X, thinking) /\ (Talks(p, After(X, thinking)) \/ InCall(p, After(X, thinking)))
    <2>1. p.channel = "content"
      BY <1>7 DEF Talks, InCall
    <2>2. ~ open /\ rsn = p.reasoning /\ after = After(X, thinking)
      <3>1. Len(ThinkClose) = 2
        BY MarkersAre
      <3> QED BY <1>7, <3>1 DEF Reasoned, After, BeforeAt, AfterAt
    <2>3. p.reasoning \o more = rsn
      <3>1. more = none
        BY <1>5, <2>1
      <3>2. p.reasoning \o none = p.reasoning
        BY <1>4, <1>5, TextFacts
      <3> QED BY <2>2, <3>1, <3>2
    <2>4. PICK Y : Y = After(X, thinking)
      OBVIOUS
    <2> HIDE DEF after, rsn, more
    <2>5. CASE Talks(p, Y)
      <3>1. calls = {}
        BY <1>1, <2>2, <2>4, <2>5 DEF Talks, Settled
      <3>2. cnt = Y
        BY <2>2, <2>4, <3>1
      <3>3. tail = p.pending
        BY <2>1, <2>5 DEF Talks
      <3>4. p.content \o p.leading \o tail = Y
        BY <2>5, <3>3 DEF Talks, Uttered
      <3> QED BY <1>2, <1>3, <2>3, <3>2, <3>4
    <2>6. CASE InCall(p, Y)
      <3>1. functions /\ calls = Places(CallOpen, Y) /\ calls # {}
        BY <2>2, <2>4, <2>6 DEF InCall
      <3>2. cnt = p.content
        BY <2>2, <2>4, <2>6, <3>1 DEF InCall, SaidFirst, BeforeAt
      <3>3. p.content \o p.leading \o tail = p.content
        <4>1. p.leading = none /\ tail = none
          BY <1>5, <2>6 DEF InCall
        <4>2. p.content \o none = p.content
          BY <1>4, <1>5, TextFacts
        <4> HIDE DEF tail
        <4> QED BY <4>1, <4>2
      <3> QED BY <1>2, <1>3, <2>3, <3>2, <3>3
    <2> QED BY <1>7, <2>4, <2>5, <2>6
  <1> QED BY <1>1, <1>6, <1>7 DEF Splitting
-----------------------------------------------------------------------------
(* Decoding token by token.                                                   *)

\* The text of some tokens, and whether it ends in a half character.
ReadOf(ids) ==
    LET read[n \in 0..Len(ids)] ==
          IF n = 0 THEN [text |-> <<>>, half |-> FALSE] ELSE DecodeStep(read[n - 1], ids[n])
    IN  read[Len(ids)]

\* Induction up to a number.
LEMMA CountUp ==
    ASSUME NEW N \in Nat, NEW B, 0 \in B, \A k \in 1..N : k - 1 \in B => k \in B
    PROVE  N \in B
  <1>1. PICK f : f = [n \in 0..N |-> n]
    OBVIOUS
  <1>2. PICK S : S = [n \in 0..N |-> B]
    OBVIOUS
  <1>3. f[0] \in S[0] /\ \A n \in 1..N : f[n - 1] \in S[n - 1] => f[n] \in S[n]
    BY <1>1, <1>2
  <1>4. f[N] \in S[N]
    BY <1>3, FoldKeeps
  <1> QED BY <1>1, <1>2, <1>4

\* Two folds that take the same steps are one.
LEMMA FoldsAgree ==
    ASSUME NEW N \in Nat, NEW f, NEW g, f[0] = g[0], \A n \in 1..N : f[n - 1] = g[n - 1] => f[n] = g[n]
    PROVE  f[N] = g[N]
  <1>1. PICK S : S = [n \in 0..N |-> {g[n]}]
    OBVIOUS
  <1>2. f[0] \in S[0] /\ \A n \in 1..N : f[n - 1] \in S[n - 1] => f[n] \in S[n]
    BY <1>1
  <1>3. f[N] \in S[N]
    BY <1>2, FoldKeeps
  <1> QED BY <1>1, <1>3

\* The decoding of tokens, as a function of how many.
LEMMA ReadRule ==
    ASSUME NEW ids, Len(ids) \in Nat
    PROVE  \E f : /\ ReadOf(ids) = f[Len(ids)] /\ f[0] = [text |-> <<>>, half |-> FALSE]
                  /\ \A n \in 1..Len(ids) : f[n] = DecodeStep(f[n - 1], ids[n])
  <1> DEFINE N == Len(ids)
             h == [text |-> <<>>, half |-> FALSE]
             F == [n \in 1..N |-> [x \in DecodeStates |-> DecodeStep(x, ids[n])]]
             Reads1(g) == g = [n \in 0..N |-> IF n = 0 THEN h ELSE DecodeStep(g[n - 1], ids[n])]
             read == CHOOSE g : Reads1(g)
  <1>1. ReadOf(ids) = read[Len(ids)]
    BY Zenon DEF ReadOf
  <1>2. h \in DecodeStates /\ N \in Nat
    BY DEF DecodeStates, Texts
  <1>3. F \in Steps(N, DecodeStates)
    BY DecodeStepIs DEF Steps
  <1>4. \E g : Reads1(g)
    <2> HIDE DEF h
    <2>1. PICK g : Folds(g, DecodeStates, h, N, F)
      <3> HIDE DEF F, N
      <3> QED BY Zenon, <1>2, <1>3, FoldIs
    <2>2. ASSUME NEW n \in 0..N PROVE g[n] = IF n = 0 THEN h ELSE DecodeStep(g[n - 1], ids[n])
      <3>1. CASE n = 0
        BY <2>1, <3>1 DEF Folds
      <3>2. CASE n # 0
        <4>1. n \in 1..N /\ n - 1 \in 0..N
          BY <1>2, <3>2
        <4>2. g[n] = F[n][g[n - 1]]
          BY <2>1, <4>1 DEF Folds
        <4>3. g[n - 1] \in DecodeStates
          BY <2>1, <4>1 DEF Folds
        <4> QED BY <3>2, <4>1, <4>2, <4>3
      <3> QED BY <3>1, <3>2
    <2>3. g = [n \in 0..N |-> IF n = 0 THEN h ELSE DecodeStep(g[n - 1], ids[n])]
      <3>1. g = [n \in 0..N |-> g[n]]
        BY <2>1 DEF Folds
      <3> QED BY <2>2, <3>1
    <2> QED BY <2>3
  <1>5. Reads1(read)
    BY Zenon, <1>4
  <1> HIDE DEF read
  <1>6. read[0] = h
    BY <1>2, <1>5
  <1>7. ASSUME NEW n \in 1..N PROVE read[n] = DecodeStep(read[n - 1], ids[n])
    <2>1. n \in 0..N /\ n # 0
      BY <1>2
    <2> QED BY <1>5, <2>1
  <1> QED BY <1>1, <1>6, <1>7

LEMMA ReadNothing == ReadOf(<<>>) = [text |-> <<>>, half |-> FALSE]
  <1>1. PICK none : none = <<>>
    OBVIOUS
  <1>2. Len(none) = 0 /\ Len(none) \in Nat
    BY <1>1
  <1>3. PICK f : ReadOf(none) = f[Len(none)] /\ f[0] = [text |-> <<>>, half |-> FALSE]
    BY <1>2, ReadRule
  <1> QED BY Zenon, <1>1, <1>2, <1>3

\* One token more.
LEMMA ReadMore ==
    ASSUME NEW D, NEW s \in Seq(D), NEW id \in D
    PROVE  ReadOf(Append(s, id)) = DecodeStep(ReadOf(s), id)
  <1>1. PICK more : more = Append(s, id)
    OBVIOUS
  <1>2. /\ Len(s) \in Nat /\ Len(more) = Len(s) + 1 /\ Len(more) \in Nat /\ more[Len(s) + 1] = id
        /\ \A i \in 1..Len(s) : more[i] = s[i]
    BY <1>1
  <1>3. PICK f : /\ ReadOf(s) = f[Len(s)] /\ f[0] = [text |-> <<>>, half |-> FALSE]
                 /\ \A n \in 1..Len(s) : f[n] = DecodeStep(f[n - 1], s[n])
    BY <1>2, ReadRule
  <1>4. PICK g : /\ ReadOf(more) = g[Len(more)] /\ g[0] = [text |-> <<>>, half |-> FALSE]
                 /\ \A n \in 1..Len(more) : g[n] = DecodeStep(g[n - 1], more[n])
    BY <1>2, ReadRule
  <1>5. PICK N \in Nat : N = Len(s)
    BY <1>2
  <1>6. g[0] = f[0]
    BY <1>3, <1>4
  <1>7. ASSUME NEW n \in 1..N, g[n - 1] = f[n - 1] PROVE g[n] = f[n]
    <2>1. n \in 1..Len(s) /\ n \in 1..Len(more) /\ more[n] = s[n]
      BY <1>2, <1>5
    <2> QED BY <1>3, <1>4, <1>7, <2>1
  <1>8. g[N] = f[N]
    BY <1>6, <1>7, FoldsAgree
  <1>9. g[N + 1] = DecodeStep(g[N], id)
    <2>1. N + 1 \in 1..Len(more) /\ (N + 1) - 1 = N
      BY <1>2, <1>5
    <2> QED BY <1>2, <1>4, <1>5, <2>1
  <1> QED BY <1>1, <1>2, <1>3, <1>4, <1>5, <1>8, <1>9

\* What is visible, one token more.
LEMMA VisibleRule ==
    ASSUME NEW D, NEW ids \in Seq(D)
    PROVE  \E f : /\ Visible(ids) = f[Len(ids)] /\ f[0] = <<>>
                  /\ \A n \in 1..Len(ids) : f[n] = Seen(f[n - 1], ids[n])
  <1> DEFINE N == Len(ids)
             F == [n \in 1..N |-> [x \in Seq(D) |-> Seen(x, ids[n])]]
             Sees(g) == g = [n \in 0..N |-> IF n = 0 THEN <<>> ELSE Seen(g[n - 1], ids[n])]
             seen1 == CHOOSE g : Sees(g)
  <1>1. Visible(ids) = seen1[N]
    BY Zenon DEF Visible
  <1>2. PICK h : h = <<>>
    OBVIOUS
  <1>h. h \in Seq(D)
    BY <1>2
  <1>n. N \in Nat
    OBVIOUS
  <1>s. ASSUME NEW x \in Seq(D), NEW n \in 1..N PROVE Seen(x, ids[n]) \in Seq(D)
    BY DEF Seen
  <1>3. F \in Steps(N, Seq(D))
    BY <1>s DEF Steps
  <1>4. \E g : Sees(g)
    <2>1. PICK g : Folds(g, Seq(D), h, N, F)
      <3> HIDE DEF F, N
      <3> QED BY Zenon, <1>h, <1>n, <1>3, FoldIs
    <2>2. ASSUME NEW n \in 0..N PROVE g[n] = IF n = 0 THEN <<>> ELSE Seen(g[n - 1], ids[n])
      <3>1. CASE n = 0
        BY <1>2, <2>1, <3>1 DEF Folds
      <3>2. CASE n # 0
        <4>1. n \in 1..N /\ n - 1 \in 0..N
          BY <1>n, <3>2
        <4>2. g[n] = F[n][g[n - 1]]
          BY <2>1, <4>1 DEF Folds
        <4>3. g[n - 1] \in Seq(D)
          BY <2>1, <4>1 DEF Folds
        <4> QED BY <3>2, <4>1, <4>2, <4>3
      <3> QED BY <3>1, <3>2
    <2>3. g = [n \in 0..N |-> IF n = 0 THEN <<>> ELSE Seen(g[n - 1], ids[n])]
      <3>1. g = [n \in 0..N |-> g[n]]
        BY <2>1 DEF Folds
      <3> QED BY <2>2, <3>1
    <2> QED BY <2>3
  <1>5. Sees(seen1)
    BY Zenon, <1>4
  <1> HIDE DEF seen1
  <1>6. seen1[0] = <<>>
    BY <1>n, <1>5
  <1>7. ASSUME NEW n \in 1..N PROVE seen1[n] = Seen(seen1[n - 1], ids[n])
    <2>1. n \in 0..N /\ n # 0
      BY <1>n
    <2> QED BY <1>5, <2>1
  <1> QED BY <1>1, <1>6, <1>7

LEMMA VisibleNothing == Visible(<<>>) = <<>>
  <1>1. PICK none : none = <<>>
    OBVIOUS
  <1>2. Len(none) = 0 /\ none \in Seq({0})
    BY <1>1
  <1>3. PICK f : Visible(none) = f[Len(none)] /\ f[0] = <<>>
    BY <1>2, VisibleRule
  <1> QED BY Zenon, <1>1, <1>2, <1>3

LEMMA VisibleMore ==
    ASSUME NEW D, NEW s \in Seq(D), NEW id \in D
    PROVE  Visible(Append(s, id)) = Seen(Visible(s), id)
  <1>1. PICK more : more = Append(s, id)
    OBVIOUS
  <1>2. /\ Len(s) \in Nat /\ Len(more) = Len(s) + 1 /\ Len(more) \in Nat /\ more[Len(s) + 1] = id
        /\ more \in Seq(D) /\ \A i \in 1..Len(s) : more[i] = s[i]
    BY <1>1
  <1>3. PICK f : /\ Visible(s) = f[Len(s)] /\ f[0] = <<>>
                 /\ \A n \in 1..Len(s) : f[n] = Seen(f[n - 1], s[n])
    BY <1>2, VisibleRule
  <1>4. PICK g : /\ Visible(more) = g[Len(more)] /\ g[0] = <<>>
                 /\ \A n \in 1..Len(more) : g[n] = Seen(g[n - 1], more[n])
    BY <1>2, VisibleRule
  <1>5. PICK N \in Nat : N = Len(s)
    BY <1>2
  <1>6. g[0] = f[0]
    BY <1>3, <1>4
  <1>7. ASSUME NEW n \in 1..N, g[n - 1] = f[n - 1] PROVE g[n] = f[n]
    <2>1. n \in 1..Len(s) /\ n \in 1..Len(more) /\ more[n] = s[n]
      BY <1>2, <1>5
    <2> QED BY <1>3, <1>4, <1>7, <2>1
  <1>8. g[N] = f[N]
    BY <1>6, <1>7, FoldsAgree
  <1>9. g[N + 1] = Seen(g[N], id)
    <2>1. N + 1 \in 1..Len(more) /\ (N + 1) - 1 = N
      BY <1>2, <1>5
    <2> QED BY <1>2, <1>4, <1>5, <2>1
  <1> QED BY <1>1, <1>2, <1>3, <1>4, <1>5, <1>8, <1>9

-----------------------------------------------------------------------------
(* The text that is decoded: how it grows with the tokens, and what of it is  *)
(* settled.                                                                   *)

\* What a token adds to the text, after half a character or not.
Adds(half, id) ==
    CASE id = "H" -> IF half THEN <<"w">> ELSE <<"?">>
      [] id = "h" -> IF half THEN <<"?">> ELSE <<>>
      [] OTHER    -> (IF half THEN <<"?">> ELSE <<>>) \o Glyphs(id)

LEMMA AddsIs ==
    ASSUME NEW half \in BOOLEAN, NEW id
    PROVE  Adds(half, id) \in Texts
  <1>1. <<"w">> \in Texts /\ <<"?">> \in Texts /\ <<>> \in Texts
    BY DEF Texts, AllGlyphs
  <1>2. Glyphs(id) \in Texts
    BY GlyphsAre
  <1>3. PICK b \in Texts : b = IF half THEN <<"?">> ELSE <<>>
    BY <1>1
  <1>4. b \o Glyphs(id) \in Texts
    BY <1>2, TextFacts
  <1>5. Adds(half, id) = IF id = "H" THEN (IF half THEN <<"w">> ELSE <<"?">>) ELSE IF id = "h" THEN b ELSE b \o Glyphs(id)
    BY <1>3 DEF Adds
  <1> QED BY <1>1, <1>3, <1>4, <1>5

\* A token is decoded by what it adds.
Stepped(d, id, r) == r.text = d.text \o Adds(d.half, id) /\ (r.half <=> id = "h")
LEMMA StepAdds ==
    ASSUME NEW d \in DecodeStates, NEW id
    PROVE  Stepped(d, id, DecodeStep(d, id))
  <1>1. PICK t \in Texts, h \in BOOLEAN : t = d.text /\ h = d.half
    BY DEF DecodeStates
  <1>2. PICK none \in Texts : none = <<>>
    BY MarkersAre
  <1>3. \A a \in AllGlyphs : Append(t, a) = t \o <<a>>
    BY DEF Texts
  <1>4. "?" \in AllGlyphs /\ "w" \in AllGlyphs
    BY DEF AllGlyphs
  <1>5. PICK b \in Texts : b = IF h THEN <<"?">> ELSE <<>>
    <2>1. <<"?">> \in Texts
      BY <1>4 DEF Texts
    <2> QED BY <1>2, <2>1
  <1>6. (IF h THEN Append(t, "?") ELSE t) = t \o b
    <2>1. t \o none = t
      BY <1>2, TextFacts
    <2> QED BY <1>2, <1>3, <1>4, <1>5, <2>1
  <1>7. Glyphs(id) \in Texts
    BY GlyphsAre
  <1>8. (t \o b) \o Glyphs(id) = t \o (b \o Glyphs(id))
    BY <1>7, JoinedTwice
  <1>9. CASE id = "H"
    <2>1. DecodeStep(d, id) = [text |-> Append(t, IF h THEN "w" ELSE "?"), half |-> FALSE]
      BY <1>1, <1>9 DEF DecodeStep
    <2>2. Adds(h, id) = IF h THEN <<"w">> ELSE <<"?">>
      BY <1>9 DEF Adds
    <2>3. DecodeStep(d, id).text = Append(t, IF h THEN "w" ELSE "?") /\ DecodeStep(d, id).half = FALSE
      BY <2>1
    <2>4. Append(t, IF h THEN "w" ELSE "?") = t \o Adds(h, id)
      BY <1>3, <1>4, <2>2
    <2> QED BY Zenon, <1>1, <1>9, <2>3, <2>4 DEF Stepped
  <1>10. CASE id = "h"
    <2>1. PICK u : u = IF h THEN Append(t, "?") ELSE t
      OBVIOUS
    <2>2. DecodeStep(d, id) = [text |-> u, half |-> TRUE]
      BY <1>1, <1>10, <2>1 DEF DecodeStep
    <2>3. Adds(h, id) = b
      BY <1>5, <1>10 DEF Adds
    <2>4. DecodeStep(d, id).text = u /\ DecodeStep(d, id).half = TRUE
      BY <2>2
    <2>5. u = t \o b
      BY <1>6, <2>1
    <2> QED BY Zenon, <1>1, <1>10, <2>3, <2>4, <2>5 DEF Stepped
  <1>11. CASE id # "H" /\ id # "h"
    <2>1. PICK u : u = IF h THEN Append(t, "?") ELSE t
      OBVIOUS
    <2>2. DecodeStep(d, id) = [text |-> u \o Glyphs(id), half |-> FALSE]
      BY <1>1, <1>11, <2>1 DEF DecodeStep
    <2>3. Adds(h, id) = b \o Glyphs(id)
      BY <1>5, <1>11 DEF Adds
    <2>4. DecodeStep(d, id).text = u \o Glyphs(id) /\ DecodeStep(d, id).half = FALSE
      BY <2>2
    <2>5. u = t \o b
      BY <1>6, <2>1
    <2> QED BY Zenon, <1>1, <1>8, <1>11, <2>3, <2>4, <2>5 DEF Stepped
  <1> QED BY <1>9, <1>10, <1>11 DEF Stepped

\* The reading of tokens is a text and whether it ends in half a character.
LEMMA ReadIs ==
    ASSUME NEW ids, Len(ids) \in Nat
    PROVE  ReadOf(ids) \in DecodeStates /\ ReadOf(ids).text \in Texts /\ ReadOf(ids).half \in BOOLEAN
  <1>1. PICK f : /\ ReadOf(ids) = f[Len(ids)] /\ f[0] = [text |-> <<>>, half |-> FALSE]
                 /\ \A n \in 1..Len(ids) : f[n] = DecodeStep(f[n - 1], ids[n])
    BY ReadRule
  <1>2. PICK N \in Nat : N = Len(ids)
    OBVIOUS
  <1>3. f[0] \in DecodeStates
    BY <1>1 DEF DecodeStates, Texts
  <1>4. ASSUME NEW n \in 1..N, f[n - 1] \in DecodeStates PROVE f[n] \in DecodeStates
    <2>1. f[n] = DecodeStep(f[n - 1], ids[n])
      BY <1>1, <1>2
    <2> QED BY <1>4, <2>1, DecodeStepIs
  <1>5. PICK S : S = [n \in 0..N |-> DecodeStates]
    OBVIOUS
  <1>6. f[0] \in S[0] /\ \A n \in 1..N : f[n - 1] \in S[n - 1] => f[n] \in S[n]
    BY <1>3, <1>4, <1>5
  <1>7. f[N] \in S[N]
    BY <1>6, FoldKeeps
  <1>8. ReadOf(ids) \in DecodeStates
    BY <1>1, <1>2, <1>5, <1>7
  <1> QED BY <1>8 DEF DecodeStates

\* Two texts that grow alike.
Alike(d, e, d2, e2) ==
    \E t \in Texts : d2.text = d.text \o t /\ e2.text = e.text \o t /\ (d2.half <=> e2.half)

\* Tokens add the same to two texts that end alike.
LEMMA ReadAlike ==
    ASSUME NEW a \in Seq(TokenIds), NEW b \in Seq(TokenIds), NEW n \in Seq(TokenIds),
           ReadOf(a).half <=> ReadOf(b).half
    PROVE  Alike(ReadOf(a), ReadOf(b), ReadOf(a \o n), ReadOf(b \o n))
  <1> DEFINE Part(k) == SubSeq(n, 1, k)
             B == {k \in 0..Len(n) : Alike(ReadOf(a), ReadOf(b), ReadOf(a \o Part(k)), ReadOf(b \o Part(k)))}
  <1>1. Len(a) \in Nat /\ Len(b) \in Nat /\ Len(n) \in Nat
    OBVIOUS
  <1>2. /\ ReadOf(a).text \in Texts /\ ReadOf(b).text \in Texts
        /\ ReadOf(a).half \in BOOLEAN /\ ReadOf(b).half \in BOOLEAN
    BY <1>1, ReadIs
  <1>3. 0 \in B
    <2>1. Part(0) = <<>> /\ a \o Part(0) = a /\ b \o Part(0) = b
      <3>1. Part(0) = <<>> /\ a \o <<>> = a /\ b \o <<>> = b
        OBVIOUS
      <3> HIDE DEF Part
      <3> QED BY <3>1
    <2>2. PICK none \in Texts : none = <<>>
      BY MarkersAre
    <2>3. ReadOf(a).text \o none = ReadOf(a).text /\ ReadOf(b).text \o none = ReadOf(b).text
      BY <1>2, <2>2, TextFacts
    <2>4. Alike(ReadOf(a), ReadOf(b), ReadOf(a), ReadOf(b))
      BY <2>2, <2>3 DEF Alike
    <2>5. 0 \in 0..Len(n)
      BY <1>1
    <2> HIDE DEF Part
    <2>6. Alike(ReadOf(a), ReadOf(b), ReadOf(a \o Part(0)), ReadOf(b \o Part(0)))
      BY Zenon, <2>1, <2>4
    <2> QED BY <2>5, <2>6
  <1>4. ASSUME NEW k \in 1..Len(n), k - 1 \in B PROVE k \in B
    <2>1. PICK s : s = Part(k - 1)
      OBVIOUS
    <2>2. s \in Seq(TokenIds) /\ n[k] \in TokenIds /\ Part(k) = Append(s, n[k])
      BY <1>1, <2>1
    <2>3. PICK x, y : x = a \o s /\ y = b \o s
      OBVIOUS
    <2>4. x \in Seq(TokenIds) /\ y \in Seq(TokenIds) /\ a \o Part(k) = Append(x, n[k]) /\ b \o Part(k) = Append(y, n[k])
      <3>1. PICK id \in TokenIds, r \in Seq(TokenIds) : id = n[k] /\ r = s
        BY <2>2
      <3>2. a \o Append(r, id) = Append(a \o r, id) /\ b \o Append(r, id) = Append(b \o r, id)
            /\ a \o r \in Seq(TokenIds) /\ b \o r \in Seq(TokenIds)
        OBVIOUS
      <3> HIDE DEF Part
      <3> QED BY <2>2, <2>3, <3>1, <3>2
    <2>5. ReadOf(a \o Part(k)) = DecodeStep(ReadOf(x), n[k]) /\ ReadOf(b \o Part(k)) = DecodeStep(ReadOf(y), n[k])
      BY <2>2, <2>4, ReadMore
    <2>6. PICK d, e : d = ReadOf(x) /\ e = ReadOf(y)
      OBVIOUS
    <2>7. d \in DecodeStates /\ e \in DecodeStates /\ d.half \in BOOLEAN /\ e.half \in BOOLEAN
      <3>1. Len(x) \in Nat /\ Len(y) \in Nat
        BY <2>4
      <3> QED BY <2>6, <3>1, ReadIs
    <2>8. PICK t \in Texts : d.text = ReadOf(a).text \o t /\ e.text = ReadOf(b).text \o t /\ (d.half <=> e.half)
      BY <1>4, <2>1, <2>3, <2>6 DEF Alike
    <2>9. PICK u \in Texts : u = Adds(d.half, n[k])
      BY <2>7, AddsIs
    <2>10. d.half = e.half
      BY <2>7, <2>8
    <2>11. /\ DecodeStep(d, n[k]).text = d.text \o u /\ DecodeStep(e, n[k]).text = e.text \o u
           /\ DecodeStep(d, n[k]).half <=> DecodeStep(e, n[k]).half
      <3>1. Stepped(d, n[k], DecodeStep(d, n[k])) /\ Stepped(e, n[k], DecodeStep(e, n[k]))
        BY <2>7, StepAdds
      <3>2. Adds(e.half, n[k]) = u
        BY <2>9, <2>10
      <3> QED BY Zenon, <2>9, <3>1, <3>2 DEF Stepped
    <2>12. PICK v \in Texts : v = t \o u
      BY TextFacts
    <2>13. (ReadOf(a).text \o t) \o u = ReadOf(a).text \o v /\ (ReadOf(b).text \o t) \o u = ReadOf(b).text \o v
      <3>1. PICK ra \in Texts, rb \in Texts : ra = ReadOf(a).text /\ rb = ReadOf(b).text
        BY <1>2
      <3>2. (ra \o t) \o u = ra \o (t \o u) /\ (rb \o t) \o u = rb \o (t \o u)
        BY JoinedTwice
      <3> QED BY <2>12, <3>1, <3>2
    <2>14. Alike(ReadOf(a), ReadOf(b), DecodeStep(d, n[k]), DecodeStep(e, n[k]))
      BY <2>8, <2>11, <2>12, <2>13 DEF Alike
    <2> HIDE DEF Part
    <2> QED BY <1>1, <2>5, <2>6, <2>14
  <1> HIDE DEF B
  <1>5. Len(n) \in B
    BY <1>1, <1>3, <1>4, CountUp
  <1>6. Part(Len(n)) = n
    OBVIOUS
  <1> QED BY <1>5, <1>6 DEF B

\* Tokens that are all text.
NoStop(s) == \A i \in 1..Len(s) : s[i] # Stop

LEMMA VisibleAll ==
    ASSUME NEW s \in Seq(TokenIds), NoStop(s)
    PROVE  Visible(s) = s
  <1> DEFINE Part(k) == SubSeq(s, 1, k)
             B == {k \in 0..Len(s) : Visible(Part(k)) = Part(k)}
  <1>1. Len(s) \in Nat
    OBVIOUS
  <1>2. 0 \in B
    <2>1. Part(0) = <<>>
      OBVIOUS
    <2>2. Visible(Part(0)) = Part(0)
      <3> HIDE DEF Part
      <3> QED BY Zenon, <2>1, VisibleNothing
    <2>3. 0 \in 0..Len(s)
      BY <1>1
    <2> HIDE DEF Part
    <2> QED BY <2>2, <2>3
  <1>3. ASSUME NEW k \in 1..Len(s), k - 1 \in B PROVE k \in B
    <2>1. PICK r \in Seq(TokenIds) : r = Part(k - 1)
      <3>1. Part(k - 1) \in Seq(TokenIds)
        OBVIOUS
      <3> HIDE DEF Part
      <3> QED BY <3>1
    <2>2. s[k] \in TokenIds /\ Part(k) = Append(r, s[k]) /\ s[k] # Stop /\ k \in 0..Len(s)
      BY <1>1, <2>1 DEF NoStop
    <2>3. Visible(r) = r
      BY <1>3, <2>1
    <2>4. Visible(Append(r, s[k])) = Append(r, s[k])
      BY <2>2, <2>3, VisibleMore DEF Seen
    <2> HIDE DEF Part
    <2> QED BY <2>2, <2>4
  <1> HIDE DEF B
  <1>4. Len(s) \in B
    BY <1>1, <1>2, <1>3, CountUp
  <1>5. Part(Len(s)) = s
    OBVIOUS
  <1> HIDE DEF Part
  <1> QED BY <1>4, <1>5 DEF B

\* Tokens that are text and may end in the end token.
LEMMA EndsInStop ==
    ASSUME NEW x \in Seq(TokenIds), x # <<>>, \A i \in 1..Len(x) : i < Len(x) => x[i] # Stop
    PROVE  /\ Visible(x) \in Seq(TokenIds) /\ Visible(x) = IF Last(x) = Stop THEN SubSeq(x, 1, Len(x) - 1) ELSE x
           /\ NoStop(Visible(x)) /\ ApplyInject(x) = Append(Visible(x), Shut)
  <1>1. PICK n \in Nat : n + 1 = Len(x)
    <2>1. Len(x) \in Nat \ {0}
      OBVIOUS
    <2>2. Len(x) - 1 \in Nat /\ (Len(x) - 1) + 1 = Len(x)
      BY <2>1
    <2> QED BY <2>2
  <1>2. PICK f : f = SubSeq(x, 1, n)
    OBVIOUS
  <1>3. f \in Seq(TokenIds) /\ Len(f) = n /\ x[n + 1] \in TokenIds /\ x = Append(f, x[n + 1])
    BY <1>1, <1>2
  <1>4. NoStop(f)
    BY <1>1, <1>2, <1>3 DEF NoStop
  <1>5. Visible(f) = f
    BY <1>3, <1>4, VisibleAll
  <1>6. Last(x) = x[n + 1] /\ Len(x) - 1 = n /\ Front(x) = f
    BY <1>1, <1>2 DEF Last, Front
  <1>7. Visible(x) = Seen(f, x[n + 1])
    <2>1. Visible(Append(f, x[n + 1])) = Seen(Visible(f), x[n + 1])
      BY <1>3, VisibleMore
    <2> QED BY <1>3, <1>5, <2>1
  <1>8. Visible(x) = IF Last(x) = Stop THEN f ELSE x
    BY <1>3, <1>6, <1>7 DEF Seen
  <1>9. NoStop(Visible(x))
    <2>1. Last(x) # Stop => NoStop(x)
      BY <1>1, <1>6 DEF NoStop
    <2> QED BY <1>4, <1>8, <2>1
  <1>10. ApplyInject(x) = Append(Visible(x), Shut)
    BY <1>6, <1>8 DEF ApplyInject
  <1> QED BY <1>2, <1>3, <1>6, <1>8, <1>9, <1>10

\* Plain tokens and the tokens of a piece after them.
LEMMA JoinNoStop ==
    ASSUME NEW s \in Seq(TokenIds), NoStop(s), NEW e \in Seq(TokenIds), e # <<>>,
           \A i \in 1..Len(e) : i < Len(e) => e[i] # Stop
    PROVE  /\ s \o e \in Seq(TokenIds) /\ s \o e # <<>> /\ Last(s \o e) = Last(e)
           /\ \A i \in 1..Len(s \o e) : i < Len(s \o e) => (s \o e)[i] # Stop
           /\ Visible(s \o e) = s \o Visible(e)
  <1>1. PICK x : x = s \o e
    OBVIOUS
  <1>2. Len(s) \in Nat /\ Len(e) \in Nat \ {0}
    OBVIOUS
  <1>3. /\ x \in Seq(TokenIds) /\ Len(x) = Len(s) + Len(e)
        /\ \A i \in 1..Len(s) : x[i] = s[i]
        /\ \A i \in 1..Len(e) : x[Len(s) + i] = e[i]
    BY <1>1
  <1>4. x # <<>> /\ Last(x) = Last(e)
    BY <1>2, <1>3 DEF Last
  <1>5. ASSUME NEW i \in 1..Len(x), i < Len(x) PROVE x[i] # Stop
    <2>1. CASE i <= Len(s)
      <3>1. i \in 1..Len(s)
        BY <1>2, <1>3, <2>1
      <3> QED BY <1>3, <3>1 DEF NoStop
    <2>2. CASE i > Len(s)
      <3>1. i - Len(s) \in 1..Len(e) /\ Len(s) + (i - Len(s)) = i /\ i - Len(s) < Len(e)
        BY <1>2, <1>3, <1>5, <2>2
      <3>2. x[i] = e[i - Len(s)]
        BY <1>3, <3>1
      <3> QED BY <3>1, <3>2
    <2> QED BY <1>2, <1>3, <2>1, <2>2
  <1>6. Visible(x) = IF Last(x) = Stop THEN SubSeq(x, 1, Len(x) - 1) ELSE x
    BY <1>3, <1>4, <1>5, EndsInStop
  <1>7. Visible(e) = IF Last(e) = Stop THEN SubSeq(e, 1, Len(e) - 1) ELSE e
    BY EndsInStop
  <1>8. SubSeq(x, 1, Len(x) - 1) = s \o SubSeq(e, 1, Len(e) - 1)
    <2>1. PICK n \in Nat : n + 1 = Len(e)
      <3>1. Len(e) - 1 \in Nat /\ (Len(e) - 1) + 1 = Len(e)
        BY <1>2
      <3> QED BY <3>1
    <2>2. Len(e) - 1 = n /\ Len(x) - 1 = Len(s) + n
      <3>1. Len(x) = Len(s) + Len(e)
        BY <1>3
      <3> QED BY <1>2, <2>1, <3>1
    <2>3. PICK f, g : f = SubSeq(x, 1, Len(s) + n) /\ g = SubSeq(e, 1, n)
      OBVIOUS
    <2>4. /\ f \in Seq(TokenIds) /\ Len(f) = Len(s) + n /\ g \in Seq(TokenIds) /\ Len(g) = n
          /\ \A i \in 1..Len(s) + n : f[i] = x[i]
          /\ \A i \in 1..n : g[i] = e[i]
      BY <1>2, <1>3, <2>1, <2>3
    <2>5. PICK h : h = s \o g
      OBVIOUS
    <2>6. /\ h \in Seq(TokenIds) /\ Len(h) = Len(s) + n
          /\ \A i \in 1..Len(s) : h[i] = s[i]
          /\ \A i \in 1..n : h[Len(s) + i] = g[i]
      BY <2>4, <2>5
    <2>7. ASSUME NEW i \in 1..Len(s) + n PROVE f[i] = h[i]
      <3>1. CASE i <= Len(s)
        <4>1. i \in 1..Len(s)
          BY <1>2, <3>1
        <4> QED BY <1>3, <2>4, <2>6, <4>1
      <3>2. CASE i > Len(s)
        <4>1. i - Len(s) \in 1..n /\ Len(s) + (i - Len(s)) = i /\ i - Len(s) \in 1..Len(e)
          BY <1>2, <2>1, <3>2
        <4>2. x[i] = e[i - Len(s)] /\ h[i] = g[i - Len(s)] /\ g[i - Len(s)] = e[i - Len(s)]
          BY <1>3, <2>4, <2>6, <4>1
        <4> QED BY <2>4, <4>2
      <3> QED BY <1>2, <3>1, <3>2
    <2>8. f = h
      BY <2>4, <2>6, <2>7, SameSequence
    <2> QED BY <2>2, <2>3, <2>5, <2>8
  <1>9. Visible(x) = s \o Visible(e)
    BY Zenon, <1>1, <1>4, <1>6, <1>7, <1>8
  <1> QED BY <1>1, <1>3, <1>4, <1>5, <1>9

\* Where the settled part of a text ends.
EndsAt(t, k) == k \in 0..Len(t) /\ (k = 0 \/ t[k] # "?") /\ \A n \in k + 1..Len(t) : t[n] = "?"

LEMMA StableEnds ==
    ASSUME NEW t \in Texts
    PROVE  \E k \in Nat : EndsAt(t, k) /\ Stable(t) = SubSeq(t, 1, k)
  <1> DEFINE W == {n \in 0..Len(t) : n = 0 \/ t[n] # "?"}
  <1>1. Stable(t) = SubSeq(t, 1, Max(W))
    BY Zenon DEF Stable
  <1>2. Len(t) \in Nat
    BY DEF Texts
  <1>3. W \subseteq Nat /\ W # {} /\ \A n \in W : n <= Len(t)
    BY <1>2
  <1>4. Max(W) \in W /\ \A n \in W : n <= Max(W)
    <2> HIDE DEF W
    <2> QED BY <1>2, <1>3, MaxIsGreatest
  <1>5. PICK k : k = Max(W)
    OBVIOUS
  <1>6. k \in W /\ \A n \in W : n <= k
    BY <1>4, <1>5
  <1>7. k \in 0..Len(t) /\ (k = 0 \/ t[k] # "?") /\ k \in Nat
    BY <1>2, <1>6
  <1>8. ASSUME NEW n \in k + 1..Len(t) PROVE t[n] = "?"
    <2>1. n \in 0..Len(t) /\ ~ (n <= k)
      BY <1>2, <1>7
    <2> QED BY <1>6, <2>1
  <1> HIDE DEF W
  <1> QED BY <1>1, <1>5, <1>7, <1>8 DEF EndsAt

\* It ends at one place.
LEMMA EndsOnce ==
    ASSUME NEW t \in Texts, NEW j \in Nat, NEW k \in Nat, EndsAt(t, j), EndsAt(t, k)
    PROVE  j = k
  <1>1. Len(t) \in Nat
    BY DEF Texts
  <1>2. ~ (j < k)
    <2>1. SUFFICES ASSUME j < k PROVE FALSE
      OBVIOUS
    <2>2. k \in j + 1..Len(t) /\ k # 0
      BY <1>1, <2>1 DEF EndsAt
    <2> QED BY <2>2 DEF EndsAt
  <1>3. ~ (k < j)
    <2>1. SUFFICES ASSUME k < j PROVE FALSE
      OBVIOUS
    <2>2. j \in k + 1..Len(t) /\ j # 0
      BY <1>1, <2>1 DEF EndsAt
    <2> QED BY <2>2 DEF EndsAt
  <1> QED BY <1>2, <1>3

LEMMA StableAt ==
    ASSUME NEW t \in Texts, NEW k \in Nat, EndsAt(t, k)
    PROVE  Stable(t) = SubSeq(t, 1, k)
  <1>1. PICK j \in Nat : EndsAt(t, j) /\ Stable(t) = SubSeq(t, 1, j)
    BY StableEnds
  <1> QED BY <1>1, EndsOnce

\* A replacement at the end is not settled.
LEMMA StableAppend ==
    ASSUME NEW t \in Texts
    PROVE  Append(t, "?") \in Texts /\ Stable(Append(t, "?")) = Stable(t) /\ Last(Append(t, "?")) = "?"
  <1>1. PICK k \in Nat : EndsAt(t, k) /\ Stable(t) = SubSeq(t, 1, k)
    BY StableEnds
  <1>2. PICK x : x = Append(t, "?")
    OBVIOUS
  <1>3. /\ x \in Texts /\ Len(t) \in Nat /\ Len(x) = Len(t) + 1 /\ x[Len(t) + 1] = "?"
        /\ \A i \in 1..Len(t) : x[i] = t[i]
    BY <1>2 DEF Texts, AllGlyphs
  <1>4. EndsAt(x, k)
    <2>1. k \in 0..Len(x) /\ k <= Len(t)
      BY <1>1, <1>3 DEF EndsAt
    <2>2. k = 0 \/ x[k] # "?"
      BY <1>1, <1>3, <2>1 DEF EndsAt
    <2>3. ASSUME NEW n \in k + 1..Len(x) PROVE x[n] = "?"
      <3>1. CASE n = Len(t) + 1
        BY <1>3, <3>1
      <3>2. CASE n # Len(t) + 1
        <4>1. n \in k + 1..Len(t) /\ n \in 1..Len(t)
          BY <1>3, <3>2
        <4> QED BY <1>1, <1>3, <4>1 DEF EndsAt
      <3> QED BY <3>1, <3>2
    <2> QED BY <2>1, <2>2, <2>3 DEF EndsAt
  <1>5. Stable(x) = SubSeq(x, 1, k)
    BY <1>3, <1>4, StableAt
  <1>6. SubSeq(x, 1, k) = SubSeq(t, 1, k)
    <2>1. k <= Len(t) /\ t \in Seq(AllGlyphs) /\ x \in Seq(AllGlyphs)
      BY <1>1, <1>3 DEF EndsAt, Texts
    <2>2. PICK a, b : a = SubSeq(x, 1, k) /\ b = SubSeq(t, 1, k)
      OBVIOUS
    <2>3. /\ a \in Seq(AllGlyphs) /\ b \in Seq(AllGlyphs) /\ Len(a) = k /\ Len(b) = k
          /\ \A i \in 1..k : a[i] = x[i] /\ b[i] = t[i]
      BY <1>3, <2>1, <2>2
    <2>4. \A i \in 1..k : a[i] = b[i]
      BY <1>3, <2>1, <2>3
    <2> QED BY <2>2, <2>3, <2>4, SameSequence
  <1>7. Last(x) = "?"
    BY <1>3 DEF Last
  <1> QED BY <1>1, <1>2, <1>3, <1>5, <1>6, <1>7

\* The text that is decoded, and what of it is settled.
LEMMA DecodeReads ==
    ASSUME NEW ids, Len(ids) \in Nat
    PROVE  /\ Decode(ids) = IF ReadOf(ids).half THEN Append(ReadOf(ids).text, "?") ELSE ReadOf(ids).text
           /\ Decode(ids) \in Texts /\ Stable(Decode(ids)) = Stable(ReadOf(ids).text)
           /\ ReadOf(ids).half => Last(Decode(ids)) = "?" /\ Len(Decode(ids)) > Len(ReadOf(ids).text)
  <1>1. Decode(ids) = IF ReadOf(ids).half THEN Append(ReadOf(ids).text, "?") ELSE ReadOf(ids).text
    BY Zenon DEF Decode, ReadOf
  <1>2. PICK t \in Texts : t = ReadOf(ids).text
    BY ReadIs
  <1>3. Append(t, "?") \in Texts /\ Stable(Append(t, "?")) = Stable(t) /\ Last(Append(t, "?")) = "?"
    BY StableAppend
  <1>4. Len(Append(t, "?")) > Len(t)
    BY DEF Texts
  <1> QED BY <1>1, <1>2, <1>3, <1>4

\* What comes after a settled text that was fed is settled in part.
Grown(f, x, s, p, r) == s = f \o p /\ x = p \o r /\ (r # <<>> => Last(f \o x) = "?")
FedWell(f) == f = <<>> \/ Last(f) # "?"

LEMMA StableGrows ==
    ASSUME NEW f \in Texts, NEW x \in Texts, FedWell(f)
    PROVE  \E p \in Texts, r \in Texts : Grown(f, x, Stable(f \o x), p, r)
  <1>1. PICK t \in Texts : t = f \o x
    BY TextFacts
  <1>2. PICK k \in Nat : EndsAt(t, k) /\ Stable(t) = SubSeq(t, 1, k)
    BY StableEnds
  <1>3. /\ Len(f) \in Nat /\ Len(x) \in Nat /\ Len(t) = Len(f) + Len(x)
        /\ \A i \in 1..Len(f) : t[i] = f[i]
        /\ \A i \in 1..Len(x) : t[Len(f) + i] = x[i]
    BY <1>1, JoinIs
  <1>4. ~ (k < Len(f))
    <2>1. SUFFICES ASSUME k < Len(f) PROVE FALSE
      OBVIOUS
    <2>2. Len(f) \in k + 1..Len(t) /\ Len(f) \in 1..Len(f)
      BY <1>2, <1>3, <2>1
    <2>3. t[Len(f)] = "?" /\ t[Len(f)] = f[Len(f)]
      BY <1>2, <1>3, <2>2 DEF EndsAt
    <2>4. f # <<>>
      BY <2>2
    <2> QED BY <2>3, <2>4 DEF FedWell, Last
  <1>5. PICK n \in 0..Len(x) : k = Len(f) + n
    <2>1. k - Len(f) \in 0..Len(x) /\ k = Len(f) + (k - Len(f))
      BY <1>2, <1>3, <1>4 DEF EndsAt
    <2> QED BY <2>1
  <1>6. PICK p, r : p = SubSeq(x, 1, n) /\ r = SubSeq(x, n + 1, Len(x))
    OBVIOUS
  <1>7. p \in Texts /\ r \in Texts /\ p \o r = x /\ Len(p) = n
    BY <1>6, CutInTwo
  <1>8. SubSeq(t, 1, k) = f \o p
    <2>1. PICK a, b : a = SubSeq(t, 1, k) /\ b = f \o p
      OBVIOUS
    <2>2. /\ a \in Seq(AllGlyphs) /\ Len(a) = k
          /\ \A i \in 1..k : a[i] = t[i]
      <3>1. t \in Seq(AllGlyphs) /\ k \in 0..Len(t)
        BY <1>2 DEF Texts, EndsAt
      <3> QED BY <1>3, <2>1, <3>1
    <2>3. /\ b \in Seq(AllGlyphs) /\ Len(b) = k
          /\ \A i \in 1..Len(f) : b[i] = f[i]
          /\ \A i \in 1..n : b[Len(f) + i] = p[i]
      <3>1. PICK y \in Texts : y = p
        BY <1>7
      <3>2. f \o y \in Texts /\ Len(f \o y) = Len(f) + Len(y)
            /\ (\A i \in 1..Len(f) : (f \o y)[i] = f[i])
            /\ (\A i \in 1..Len(y) : (f \o y)[Len(f) + i] = y[i])
        BY JoinIs
      <3>3. b = f \o y /\ Len(y) = n
        BY <1>7, <2>1, <3>1
      <3> QED BY <1>5, <3>1, <3>2, <3>3 DEF Texts
    <2>4. \A i \in 1..n : p[i] = x[i]
      <3>1. x \in Seq(AllGlyphs) /\ n \in 0..Len(x)
        BY DEF Texts
      <3> QED BY <1>3, <1>6, <3>1
    <2>5. ASSUME NEW i \in 1..k PROVE a[i] = b[i]
      <3>1. CASE i <= Len(f)
        <4>1. i \in 1..Len(f)
          BY <1>3, <3>1
        <4> QED BY <1>3, <2>2, <2>3, <4>1
      <3>2. CASE i > Len(f)
        <4>1. i - Len(f) \in 1..n /\ Len(f) + (i - Len(f)) = i /\ i - Len(f) \in 1..Len(x)
          BY <1>3, <1>5, <3>2
        <4>2. t[i] = x[i - Len(f)] /\ b[i] = p[i - Len(f)] /\ p[i - Len(f)] = x[i - Len(f)]
          BY <1>3, <2>3, <2>4, <4>1
        <4> QED BY <2>2, <4>2
      <3> QED BY <1>3, <3>1, <3>2
    <2>6. a = b
      BY <2>2, <2>3, <2>5, SameSequence
    <2> QED BY <2>1, <2>6
  <1>9. ASSUME r # <<>> PROVE Last(t) = "?"
    <2>1. n # Len(x)
      <3>1. SUFFICES ASSUME n = Len(x) PROVE r = <<>>
        BY <1>9
      <3>2. x \in Seq(AllGlyphs)
        BY DEF Texts
      <3> QED BY <1>3, <1>6, <3>1, <3>2
    <2>2. Len(t) \in k + 1..Len(t)
      BY <1>3, <1>5, <2>1
    <2> QED BY <1>2, <2>2 DEF EndsAt, Last
  <1> QED BY <1>1, <1>2, <1>7, <1>8, <1>9 DEF Grown

\* What of a text that begins with what was fed is new.
LEMMA UnseenGrown ==
    ASSUME NEW f \in Texts, NEW p \in Texts
    PROVE  Unseen(f, f \o p) = p
  <1>1. PICK t \in Texts : t = f \o p
    BY TextFacts
  <1> DEFINE k == Min({Len(f), Len(t)})
             W == {n \in 0..k : SubSeq(f, 1, n) = SubSeq(t, 1, n)}
  <1>2. Unseen(f, t) = SubSeq(t, Max(W) + 1, Len(t))
    BY Zenon DEF Unseen
  <1>3. /\ Len(f) \in Nat /\ Len(p) \in Nat /\ Len(t) = Len(f) + Len(p) /\ Len(t) \in Nat
        /\ \A i \in 1..Len(f) : t[i] = f[i]
    BY <1>1, JoinIs
  <1>4. k = Len(f)
    BY <1>3, MinOfTwo
  <1> HIDE DEF k
  <1>5. SubSeq(f, 1, Len(f)) = SubSeq(t, 1, Len(f))
    <2>1. PICK a, b : a = SubSeq(f, 1, Len(f)) /\ b = SubSeq(t, 1, Len(f))
      OBVIOUS
    <2>2. PICK n \in Nat : n = Len(f)
      BY <1>3
    <2>3. /\ a \in Seq(AllGlyphs) /\ b \in Seq(AllGlyphs) /\ Len(a) = n /\ Len(b) = n
          /\ \A i \in 1..n : a[i] = f[i] /\ b[i] = t[i]
      <3>1. f \in Seq(AllGlyphs) /\ t \in Seq(AllGlyphs) /\ n <= Len(t)
        BY <1>3, <2>2 DEF Texts
      <3> QED BY <2>1, <2>2, <3>1
    <2>4. \A i \in 1..n : a[i] = b[i]
      BY <1>3, <2>2, <2>3
    <2> QED BY <2>1, <2>3, <2>4, SameSequence
  <1>6. Len(f) \in W /\ W \subseteq Nat /\ \A n \in W : n <= Len(f)
    BY <1>3, <1>4, <1>5
  <1>7. Max(W) = Len(f)
    <2> HIDE DEF W
    <2>1. Max(W) \in W /\ \A n \in W : n <= Max(W)
      BY <1>3, <1>6, MaxIsGreatest
    <2>2. Max(W) \in Nat /\ Max(W) <= Len(f) /\ Len(f) <= Max(W)
      BY <1>6, <2>1
    <2> QED BY <1>3, <2>2
  <1> HIDE DEF W
  <1>8. SubSeq(t, Len(f) + 1, Len(t)) = p
    BY <1>1, RestIs
  <1> QED BY <1>1, <1>2, <1>7, <1>8

\* Three texts after each other, in either order.
Joins(a, b, c) == (a \o b) \o c = a \o (b \o c)
LEMMA Rejoined ==
    ASSUME NEW a \in Texts, NEW b \in Texts, NEW c \in Texts
    PROVE  Joins(a, b, c)
  BY JoinedTwice DEF Joins

-----------------------------------------------------------------------------
(* The text that was fed, against the text of all tokens.                     *)

\* Of the text of the tokens V, X was fed. Since the last anchor these were the
\* tokens ids, with fed of their text; the rest may still change.
Ahead(V, ids, fed, X) ==
    \E rest \in Texts :
        /\ ReadOf(ids).text = fed \o rest /\ ReadOf(V).text = X \o rest /\ (ReadOf(V).half <=> ReadOf(ids).half)
        /\ rest # <<>> => Last(fed \o rest) = "?"
        /\ FedWell(fed)

\* The settled part of a text is settled.
LEMMA FedIs ==
    ASSUME NEW t \in Texts
    PROVE  FedWell(Stable(t)) /\ FedWell(<<>>)
  <1>1. PICK k \in Nat : EndsAt(t, k) /\ Stable(t) = SubSeq(t, 1, k)
    BY StableEnds
  <1>2. PICK s : s = SubSeq(t, 1, k)
    OBVIOUS
  <1>3. t \in Seq(AllGlyphs) /\ k \in 0..Len(t)
    BY <1>1 DEF Texts, EndsAt
  <1>4. s \in Seq(AllGlyphs) /\ Len(s) = k /\ (k # 0 => s[k] = t[k])
    BY <1>2, <1>3
  <1>5. FedWell(s)
    <2>1. CASE k = 0
      BY <1>4, <2>1 DEF FedWell
    <2>2. CASE k # 0
      BY <1>1, <1>4, <2>2 DEF FedWell, EndsAt, Last
    <2> QED BY <2>1, <2>2
  <1> QED BY <1>1, <1>2, <1>5 DEF FedWell

LEMMA AheadNew == Ahead(<<>>, <<>>, <<>>, <<>>)
  <1>1. PICK none \in Texts : none = <<>>
    BY MarkersAre
  <1>2. PICK d : d = ReadOf(none)
    OBVIOUS
  <1>3. d.text = none
    <2>1. d = [text |-> none, half |-> FALSE]
      BY Zenon, <1>1, <1>2, ReadNothing
    <2> QED BY <2>1
  <1>4. none \o none = none /\ FedWell(none)
    BY <1>1, TextFacts, FedIs
  <1>5. Ahead(none, none, none, none)
    BY Zenon, <1>1, <1>2, <1>3, <1>4 DEF Ahead
  <1> QED BY Zenon, <1>1, <1>5

\* More tokens: the piece that is fed is of the text of all of them.
Further(V, ids, fed, X, n, p) ==
    /\ Stable(Decode(ids \o n)) = fed \o p /\ Unseen(fed, Stable(Decode(ids \o n))) = p
    /\ Ahead(V \o n, ids \o n, fed \o p, X \o p)

LEMMA AheadMore ==
    ASSUME NEW V \in Seq(TokenIds), NEW ids \in Seq(TokenIds), NEW n \in Seq(TokenIds),
           NEW fed \in Texts, NEW X \in Texts, Ahead(V, ids, fed, X)
    PROVE  \E p \in Texts : Further(V, ids, fed, X, n, p)
  <1>1. PICK rest \in Texts :
          /\ ReadOf(ids).text = fed \o rest /\ ReadOf(V).text = X \o rest /\ (ReadOf(V).half <=> ReadOf(ids).half)
          /\ rest # <<>> => Last(fed \o rest) = "?"
          /\ FedWell(fed)
    BY DEF Ahead
  <1>2. PICK all, W : all = ids \o n /\ W = V \o n
    OBVIOUS
  <1>3. all \in Seq(TokenIds) /\ W \in Seq(TokenIds) /\ Len(all) \in Nat
    BY <1>2
  <1>4. Alike(ReadOf(ids), ReadOf(V), ReadOf(all), ReadOf(W))
    <2>1. ReadOf(ids).half <=> ReadOf(V).half
      BY <1>1
    <2> QED BY <1>2, <2>1, ReadAlike
  <1>5. PICK d \in Texts : /\ ReadOf(all).text = ReadOf(ids).text \o d /\ ReadOf(W).text = ReadOf(V).text \o d
                           /\ ReadOf(all).half <=> ReadOf(W).half
    BY <1>4 DEF Alike
  <1>6. PICK x \in Texts : x = rest \o d
    BY TextFacts
  <1>7. (fed \o rest) \o d = fed \o x /\ (X \o rest) \o d = X \o x
    <2>1. Joins(fed, rest, d) /\ Joins(X, rest, d)
      BY Rejoined
    <2> QED BY Zenon, <1>6, <2>1 DEF Joins
  <1>8. PICK p \in Texts, r \in Texts : Grown(fed, x, Stable(fed \o x), p, r)
    BY <1>1, StableGrows
  <1>9. PICK t \in Texts : t = fed \o x
    BY TextFacts
  <1>10. Stable(t) = fed \o p /\ x = p \o r /\ (r # <<>> => Last(t) = "?")
    BY <1>8, <1>9 DEF Grown
  <1>11. PICK f \in Texts : f = fed \o p
    BY TextFacts
  <1>12. PICK Y \in Texts : Y = X \o p
    BY TextFacts
  <1>13. f \o r = t /\ Y \o r = X \o x
    <2>1. Joins(fed, p, r) /\ Joins(X, p, r)
      BY Rejoined
    <2> QED BY Zenon, <1>9, <1>10, <1>11, <1>12, <2>1 DEF Joins
  <1>14. ReadOf(all).text = t /\ ReadOf(W).text = X \o x
    BY <1>1, <1>5, <1>7, <1>9
  <1>15. FedWell(f)
    BY <1>10, <1>11, FedIs
  <1>16. Ahead(W, all, f, Y)
    BY Zenon, <1>5, <1>10, <1>13, <1>14, <1>15 DEF Ahead
  <1>17. Stable(Decode(all)) = f
    <2>1. Stable(Decode(all)) = Stable(ReadOf(all).text)
      BY <1>3, DecodeReads
    <2> QED BY <1>10, <1>11, <1>14, <2>1
  <1>18. Unseen(fed, f) = p
    BY <1>11, UnseenGrown
  <1>19. Further(V, ids, fed, X, n, p)
    BY Zenon, <1>2, <1>11, <1>12, <1>16, <1>17, <1>18 DEF Further
  <1> QED BY <1>19

\* The same rest is left of both texts, settled or not.
SameRest(V, ids, fed, X) ==
    \E rest \in Texts :
        ReadOf(ids).text = fed \o rest /\ ReadOf(V).text = X \o rest /\ (ReadOf(V).half <=> ReadOf(ids).half)

LEMMA SameRestMore ==
    ASSUME NEW V \in Seq(TokenIds), NEW ids \in Seq(TokenIds), NEW n \in Seq(TokenIds),
           NEW fed \in Texts, NEW X \in Texts, Ahead(V, ids, fed, X)
    PROVE  SameRest(V \o n, ids \o n, fed, X)
  <1>1. PICK rest \in Texts :
          ReadOf(ids).text = fed \o rest /\ ReadOf(V).text = X \o rest /\ (ReadOf(V).half <=> ReadOf(ids).half)
    BY DEF Ahead
  <1>2. PICK all, W : all = ids \o n /\ W = V \o n
    OBVIOUS
  <1>3. Alike(ReadOf(ids), ReadOf(V), ReadOf(all), ReadOf(W))
    <2>1. ReadOf(ids).half <=> ReadOf(V).half
      BY <1>1
    <2> QED BY <1>2, <2>1, ReadAlike
  <1>4. PICK d \in Texts : /\ ReadOf(all).text = ReadOf(ids).text \o d /\ ReadOf(W).text = ReadOf(V).text \o d
                           /\ ReadOf(all).half <=> ReadOf(W).half
    BY <1>3 DEF Alike
  <1>5. PICK x \in Texts : x = rest \o d
    BY TextFacts
  <1>6. (fed \o rest) \o d = fed \o x /\ (X \o rest) \o d = X \o x
    <2>1. Joins(fed, rest, d) /\ Joins(X, rest, d)
      BY Rejoined
    <2> QED BY Zenon, <1>5, <2>1 DEF Joins
  <1>7. SameRest(W, all, fed, X)
    BY Zenon, <1>1, <1>4, <1>6 DEF SameRest
  <1> QED BY Zenon, <1>2, <1>7

\* All of the text is fed at the end.
LEMMA AheadEnd ==
    ASSUME NEW V \in Seq(TokenIds), NEW ids \in Seq(TokenIds), NEW fed \in Texts, NEW X \in Texts, SameRest(V, ids, fed, X)
    PROVE  Unseen(fed, Decode(ids)) \in Texts /\ X \o Unseen(fed, Decode(ids)) = Decode(V)
  <1>1. PICK rest \in Texts :
          /\ ReadOf(ids).text = fed \o rest /\ ReadOf(V).text = X \o rest /\ (ReadOf(V).half <=> ReadOf(ids).half)
    BY DEF SameRest
  <1>2. Len(ids) \in Nat /\ Len(V) \in Nat
    OBVIOUS
  <1>3. PICK h \in BOOLEAN : h = ReadOf(ids).half
    BY <1>2, ReadIs
  <1>4. ReadOf(V).half = h
    BY <1>1, <1>2, <1>3, ReadIs
  <1>5. PICK none \in Texts : none = <<>>
    BY MarkersAre
  <1>6. PICK one \in Texts : one = <<"?">>
    <2>1. "?" \in AllGlyphs
      BY DEF AllGlyphs
    <2>2. <<"?">> \in Texts
      BY <2>1 DEF Texts
    <2> QED BY <2>2
  <1>7. PICK q \in Texts : q = IF h THEN one ELSE none
    OBVIOUS
  <1>8. \A t \in Texts : (IF h THEN Append(t, "?") ELSE t) = t \o q
    <2> TAKE t \in Texts
    <2>1. Append(t, "?") = t \o one
      BY <1>6 DEF Texts
    <2>2. t \o none = t
      BY <1>5, TextFacts
    <2> QED BY <1>7, <2>1, <2>2
  <1>9. /\ Decode(ids) = IF h THEN Append(ReadOf(ids).text, "?") ELSE ReadOf(ids).text
        /\ Decode(V) = IF h THEN Append(ReadOf(V).text, "?") ELSE ReadOf(V).text
    <2>1. Decode(ids) = IF ReadOf(ids).half THEN Append(ReadOf(ids).text, "?") ELSE ReadOf(ids).text
      BY <1>2, DecodeReads
    <2>2. Decode(V) = IF ReadOf(V).half THEN Append(ReadOf(V).text, "?") ELSE ReadOf(V).text
      BY <1>2, DecodeReads
    <2> QED BY Zenon, <1>3, <1>4, <2>1, <2>2
  <1>10. PICK p \in Texts : p = rest \o q
    BY TextFacts
  <1>11. PICK a \in Texts, b \in Texts : a = fed \o rest /\ b = X \o rest
    BY TextFacts
  <1>12. Decode(ids) = a \o q /\ Decode(V) = b \o q
    <2>1. Decode(ids) = (IF h THEN Append(a, "?") ELSE a) /\ Decode(V) = (IF h THEN Append(b, "?") ELSE b)
      BY Zenon, <1>1, <1>9, <1>11
    <2> QED BY <1>8, <2>1
  <1>13. a \o q = fed \o p /\ b \o q = X \o p
    <2>1. Joins(fed, rest, q) /\ Joins(X, rest, q)
      BY Rejoined
    <2> QED BY Zenon, <1>10, <1>11, <2>1 DEF Joins
  <1>14. Unseen(fed, Decode(ids)) = p
    BY <1>12, <1>13, UnseenGrown
  <1> QED BY <1>12, <1>13, <1>14

\* The anchor moves when all of the text was fed.
LEMMA AheadAnchor ==
    ASSUME NEW V \in Seq(TokenIds), NEW ids \in Seq(TokenIds), NEW fed \in Texts, NEW X \in Texts,
           Ahead(V, ids, fed, X), fed = Decode(ids)
    PROVE  Ahead(V, <<>>, <<>>, X)
  <1>1. PICK rest \in Texts :
          /\ ReadOf(ids).text = fed \o rest /\ ReadOf(V).text = X \o rest /\ (ReadOf(V).half <=> ReadOf(ids).half)
    BY DEF Ahead
  <1>2. Len(ids) \in Nat /\ ReadOf(ids).text \in Texts
    BY ReadIs
  <1>3. Len(fed) \in Nat /\ Len(rest) \in Nat /\ Len(fed \o rest) = Len(fed) + Len(rest)
    BY JoinIs
  <1>4. ~ ReadOf(ids).half
    <2>1. SUFFICES ASSUME ReadOf(ids).half PROVE FALSE
      OBVIOUS
    <2>2. Len(Decode(ids)) > Len(ReadOf(ids).text)
      BY <1>2, <2>1, DecodeReads
    <2> QED BY <1>1, <1>3, <2>2
  <1>5. PICK none \in Texts : none = <<>>
    BY MarkersAre
  <1>6. rest = none
    <2>1. Decode(ids) = ReadOf(ids).text
      BY <1>2, <1>4, DecodeReads
    <2>2. Len(rest) = 0
      BY <1>1, <1>3, <2>1
    <2> QED BY <1>5, <2>2 DEF Texts
  <1>7. none \o none = none /\ X \o none = X /\ FedWell(none)
    BY <1>5, TextFacts, FedIs
  <1>8. PICK d : d = ReadOf(none)
    OBVIOUS
  <1>9. d.text = none /\ ~ d.half
    <2>1. d = [text |-> none, half |-> FALSE]
      BY Zenon, <1>5, <1>8, ReadNothing
    <2> QED BY <2>1
  <1>10. ~ ReadOf(V).half
    BY <1>1, <1>4
  <1>11. Ahead(V, none, none, X)
    BY Zenon, <1>1, <1>5, <1>6, <1>7, <1>8, <1>9, <1>10 DEF Ahead
  <1> QED BY Zenon, <1>5, <1>11

\* A tail without tokens has nothing left.
LEMMA AheadNothing ==
    ASSUME NEW V \in Seq(TokenIds), NEW fed \in Texts, NEW X \in Texts, Ahead(V, <<>>, fed, X)
    PROVE  Decode(V) = X
  <1>1. PICK none \in Texts : none = <<>>
    BY MarkersAre
  <1>2. PICK d : d = ReadOf(none)
    OBVIOUS
  <1>3. d.text = none /\ ~ d.half
    <2>1. d = [text |-> none, half |-> FALSE]
      BY Zenon, <1>1, <1>2, ReadNothing
    <2> QED BY <2>1
  <1>4. PICK rest \in Texts : d.text = fed \o rest /\ ReadOf(V).text = X \o rest /\ (ReadOf(V).half <=> d.half)
    BY Zenon, <1>1, <1>2 DEF Ahead
  <1>5. rest = none
    <2>1. Len(fed) \in Nat /\ Len(rest) \in Nat /\ Len(fed \o rest) = Len(fed) + Len(rest)
      BY JoinIs
    <2>2. Len(rest) = 0
      BY <1>1, <1>3, <1>4, <2>1
    <2> QED BY <1>1, <2>2 DEF Texts
  <1>6. X \o none = X
    BY <1>1, TextFacts
  <1>7. Len(V) \in Nat
    OBVIOUS
  <1>8. Decode(V) = ReadOf(V).text
    BY <1>3, <1>4, <1>7, DecodeReads
  <1> QED BY <1>4, <1>5, <1>6, <1>8

\* The close is a text of its own: half a character before it is replaced.
LEMMA ReadShut ==
    ASSUME NEW V \in Seq(TokenIds)
    PROVE  /\ Append(V, Shut) \in Seq(TokenIds) /\ ~ ReadOf(Append(V, Shut)).half
           /\ ReadOf(Append(V, Shut)).text = Decode(V) \o ClosingText
  <1>1. Shut \in TokenIds
    BY NamedIds
  <1>2. PICK W \in Seq(TokenIds) : W = Append(V, Shut)
    <2>1. PICK c \in TokenIds : c = Shut
      BY <1>1
    <2>2. Append(V, c) \in Seq(TokenIds)
      OBVIOUS
    <2> QED BY Zenon, <2>1, <2>2
  <1>3. Len(V) \in Nat
    OBVIOUS
  <1>4. PICK d : d = ReadOf(V)
    OBVIOUS
  <1>5. d \in DecodeStates /\ d.text \in Texts /\ d.half \in BOOLEAN
    BY <1>3, <1>4, ReadIs
  <1>6. ReadOf(W) = DecodeStep(d, Shut)
    BY <1>1, <1>2, <1>4, ReadMore
  <1>7. Stepped(d, Shut, ReadOf(W))
    BY <1>5, <1>6, StepAdds
  <1>8. PICK t \in Texts, h \in BOOLEAN : t = d.text /\ h = d.half
    BY <1>5
  <1>9. PICK one \in Texts, none \in Texts : one = <<"?">> /\ none = <<>>
    <2>1. "?" \in AllGlyphs
      BY DEF AllGlyphs
    <2>2. <<"?">> \in Texts /\ <<>> \in Texts
      BY <2>1 DEF Texts
    <2> QED BY <2>2
  <1>10. PICK c \in Texts : c = ClosingText
    BY MarkersAre
  <1>11. Shut # "H" /\ Shut # "h" /\ Glyphs(Shut) = c
    BY <1>10 DEF Shut, Glyphs
  <1>12. Adds(h, Shut) = (IF h THEN one ELSE none) \o c
    BY <1>9, <1>11 DEF Adds
  <1>13. Decode(V) = IF h THEN Append(t, "?") ELSE t
    BY <1>3, <1>4, <1>8, DecodeReads
  <1>14. t \o Adds(h, Shut) = Decode(V) \o c
    <2>1. CASE h
      <3>1. Append(t, "?") = t \o one
        BY <1>9 DEF Texts
      <3>2. (t \o one) \o c = t \o (one \o c)
        BY JoinedTwice
      <3> QED BY <1>12, <1>13, <2>1, <3>1, <3>2
    <2>2. CASE ~ h
      <3>1. none \o c = c
        BY <1>9, TextFacts
      <3> QED BY <1>12, <1>13, <2>2, <3>1
    <2> QED BY <2>1, <2>2
  <1>15. ReadOf(W).text = Decode(V) \o c /\ ~ ReadOf(W).half
    BY Zenon, <1>7, <1>8, <1>11, <1>14 DEF Stepped
  <1> QED BY <1>2, <1>10, <1>15

\* The close after all of the text was fed, with nothing left.
LEMMA AheadShutEnd ==
    ASSUME NEW V \in Seq(TokenIds)
    PROVE  Ahead(Append(V, Shut), <<>>, <<>>, Decode(V) \o ClosingText)
           /\ Decode(Append(V, Shut)) = Decode(V) \o ClosingText /\ Decode(V) \in Texts
  <1>1. PICK none \in Texts : none = <<>>
    BY MarkersAre
  <1>2. PICK d : d = ReadOf(none)
    OBVIOUS
  <1>3. d.text = none /\ ~ d.half
    <2>1. d = [text |-> none, half |-> FALSE]
      BY Zenon, <1>1, <1>2, ReadNothing
    <2> QED BY <2>1
  <1>4. PICK W \in Seq(TokenIds) : W = Append(V, Shut)
    BY ReadShut
  <1>5. Len(V) \in Nat /\ Len(W) \in Nat
    OBVIOUS
  <1>6. Decode(V) \in Texts
    BY <1>5, DecodeIs
  <1>7. PICK Y \in Texts : Y = Decode(V) \o ClosingText
    BY <1>6, MarkersAre, TextFacts
  <1>8. ReadOf(W).text = Y /\ ~ ReadOf(W).half
    BY <1>4, <1>7, ReadShut
  <1>9. Y \o none = Y /\ none \o none = none /\ FedWell(none)
    BY <1>1, TextFacts, FedIs
  <1>10. Ahead(W, none, none, Y)
    BY Zenon, <1>1, <1>2, <1>3, <1>8, <1>9 DEF Ahead
  <1>11. Decode(W) = Y
    BY <1>5, <1>8, DecodeReads
  <1> QED BY Zenon, <1>1, <1>4, <1>6, <1>7, <1>10, <1>11

\* The text of V does not end in a replacement.
Sound(V) == Last(<<Blank>> \o Decode(V)) # "?"

\* Then all of it was fed, and the close is fed after it.
LEMMA AheadShut ==
    ASSUME NEW V \in Seq(TokenIds), NEW ids \in Seq(TokenIds), NEW fed \in Texts, NEW X \in Texts,
           Ahead(V, ids, fed, X), Sound(V)
    PROVE  /\ Ahead(Append(V, Shut), ids, fed, X \o ClosingText)
           /\ Ahead(Append(V, Shut), <<>>, <<>>, X \o ClosingText)
  <1>1. PICK rest \in Texts :
          /\ ReadOf(ids).text = fed \o rest /\ ReadOf(V).text = X \o rest /\ (ReadOf(V).half <=> ReadOf(ids).half)
          /\ rest # <<>> => Last(fed \o rest) = "?"
          /\ FedWell(fed)
    BY DEF Ahead
  <1>2. Len(V) \in Nat /\ Len(ids) \in Nat
    OBVIOUS
  <1>3. PICK D \in Texts : D = Decode(V)
    BY <1>2, DecodeIs
  <1>4. ASSUME D # <<>> PROVE Last(D) # "?"
    <2>1. PICK one \in Texts : one = <<Blank>>
      <3>1. Blank \in AllGlyphs
        BY DEF AllGlyphs, Blank
      <3>2. <<Blank>> \in Texts
        BY <3>1 DEF Texts
      <3> QED BY <3>2
    <2>2. /\ Len(one) = 1 /\ Len(one \o D) = 1 + Len(D) /\ Len(D) \in Nat
          /\ \A i \in 1..Len(D) : (one \o D)[1 + i] = D[i]
      <3>1. Len(one) = 1
        BY <2>1
      <3>2. Len(one \o D) = Len(one) + Len(D) /\ Len(D) \in Nat /\ \A i \in 1..Len(D) : (one \o D)[Len(one) + i] = D[i]
        BY JoinIs
      <3> QED BY <3>1, <3>2
    <2>3. Len(D) # 0
      BY <1>4 DEF Texts
    <2>4. Last(one \o D) = Last(D)
      BY <2>2, <2>3 DEF Last
    <2> QED BY <1>3, <2>1, <2>4 DEF Sound
  <1>5. ~ ReadOf(V).half
    <2>1. SUFFICES ASSUME ReadOf(V).half PROVE FALSE
      OBVIOUS
    <2>2. Last(D) = "?" /\ Len(D) > Len(ReadOf(V).text)
      BY <1>2, <1>3, <2>1, DecodeReads
    <2>3. Len(ReadOf(V).text) \in Nat
      BY <1>2, ReadIs DEF Texts
    <2>4. D # <<>>
      BY <2>2, <2>3
    <2> QED BY <1>4, <2>2, <2>4
  <1>6. D = X \o rest
    BY <1>1, <1>2, <1>3, <1>5, DecodeReads
  <1>7. PICK none \in Texts : none = <<>>
    BY MarkersAre
  <1>8. rest = none
    <2>1. SUFFICES ASSUME rest # <<>> PROVE FALSE
      BY <1>7
    <2>2. /\ Len(rest) \in Nat /\ Len(fed) \in Nat /\ Len(X) \in Nat
          /\ Len(X \o rest) = Len(X) + Len(rest) /\ Len(fed \o rest) = Len(fed) + Len(rest)
          /\ \A i \in 1..Len(rest) : (X \o rest)[Len(X) + i] = rest[i] /\ (fed \o rest)[Len(fed) + i] = rest[i]
      BY JoinIs
    <2>3. Len(rest) # 0
      BY <2>1 DEF Texts
    <2>4. Last(X \o rest) = Last(rest) /\ Last(fed \o rest) = Last(rest)
      BY <2>2, <2>3 DEF Last
    <2>5. D # <<>>
      BY <1>6, <2>2, <2>3
    <2> QED BY <1>1, <1>4, <1>6, <2>1, <2>4, <2>5
  <1>9. D = X
    BY <1>6, <1>7, <1>8, TextFacts
  <1>10. PICK W \in Seq(TokenIds) : W = Append(V, Shut)
    BY ReadShut
  <1>11. Ahead(W, <<>>, <<>>, X \o ClosingText)
    BY Zenon, <1>3, <1>9, <1>10, AheadShutEnd
  <1>12. PICK Y \in Texts : Y = X \o ClosingText
    BY MarkersAre, TextFacts
  <1>13. ReadOf(W).text = Y /\ ~ ReadOf(W).half
    BY <1>3, <1>9, <1>10, <1>12, ReadShut
  <1>14. Y \o none = Y
    BY <1>7, TextFacts
  <1>15. ReadOf(ids).text = fed \o none /\ ~ ReadOf(ids).half
    BY <1>1, <1>5, <1>8
  <1>16. Ahead(W, ids, fed, Y)
    BY Zenon, <1>1, <1>7, <1>13, <1>14, <1>15 DEF Ahead
  <1> QED BY <1>10, <1>11, <1>12, <1>16

-----------------------------------------------------------------------------
(* A close that cuts a character, and the parser that follows the tokens.     *)

\* CutCharacter, of any tokens.
CutIn(p) == \E i \in 2..Len(p) : p[i] = Shut /\ Last(<<Blank>> \o Decode(SubSeq(p, 1, i - 1))) = "?"

LEMMA CutStays ==
    ASSUME NEW p \in Seq(TokenIds), NEW q \in Seq(TokenIds), CutIn(p)
    PROVE  CutIn(p \o q)
  <1>1. PICK i \in 2..Len(p) : p[i] = Shut /\ Last(<<Blank>> \o Decode(SubSeq(p, 1, i - 1))) = "?"
    BY DEF CutIn
  <1>2. PICK x : x = p \o q
    OBVIOUS
  <1>3. /\ x \in Seq(TokenIds) /\ Len(p) \in Nat /\ Len(x) \in Nat /\ Len(x) >= Len(p)
        /\ \A k \in 1..Len(p) : x[k] = p[k]
    BY <1>2
  <1>4. PICK n \in Nat : n = i - 1 /\ n <= Len(p) /\ n <= Len(x)
    <2>1. i - 1 \in Nat /\ i - 1 <= Len(p)
      BY <1>3
    <2> QED BY <1>3, <2>1
  <1>5. SubSeq(x, 1, n) = SubSeq(p, 1, n)
    <2>1. PICK a, b : a = SubSeq(x, 1, n) /\ b = SubSeq(p, 1, n)
      OBVIOUS
    <2>2. /\ a \in Seq(TokenIds) /\ b \in Seq(TokenIds) /\ Len(a) = n /\ Len(b) = n
          /\ \A k \in 1..n : a[k] = x[k] /\ b[k] = p[k]
      BY <1>3, <1>4, <2>1
    <2>3. \A k \in 1..n : a[k] = b[k]
      BY <1>3, <1>4, <2>2
    <2> QED BY <2>1, <2>2, <2>3, SameSequence
  <1>6. i \in 2..Len(x) /\ x[i] = Shut
    BY <1>1, <1>3
  <1>7. CutIn(x)
    BY <1>1, <1>4, <1>5, <1>6 DEF CutIn
  <1> QED BY <1>2, <1>7

\* A close after tokens whose text does not end in a replacement cuts nothing.
LEMMA CutOrSound ==
    ASSUME NEW V \in Seq(TokenIds)
    PROVE  CutIn(Append(V, Shut)) \/ Sound(V)
  <1>1. PICK x : x = Append(V, Shut)
    OBVIOUS
  <1>2. PICK n \in Nat : n = Len(V)
    OBVIOUS
  <1>3. Len(x) = n + 1 /\ x[n + 1] = Shut /\ SubSeq(x, 1, n) = V
    <2>1. PICK c \in TokenIds : c = Shut
      BY NamedIds
    <2>2. x = Append(V, c)
      BY <1>1, <2>1
    <2>3. Len(x) = n + 1 /\ x[n + 1] = c /\ SubSeq(x, 1, n) = V
      BY <1>2, <2>2
    <2> QED BY <2>1, <2>3
  <1>4. CASE n = 0
    <2>1. V = <<>>
      <3>1. PICK W \in Seq(TokenIds) : W = V
        OBVIOUS
      <3>2. Len(W) = 0
        BY <1>2, <1>4, <3>1
      <3>3. W = <<>>
        BY <3>2
      <3> QED BY <3>1, <3>3
    <2>2. PICK none \in Texts : none = <<>>
      BY MarkersAre
    <2>3. PICK d : d = ReadOf(none)
      OBVIOUS
    <2>4. d.text = none /\ ~ d.half
      <3>1. d = [text |-> none, half |-> FALSE]
        BY Zenon, <2>2, <2>3, ReadNothing
      <3> QED BY <3>1
    <2>5. Len(none) \in Nat
      BY <2>2
    <2>6. Decode(none) = none
      BY <2>3, <2>4, <2>5, DecodeReads
    <2>7. PICK one \in Texts : one = <<Blank>>
      <3>1. Blank \in AllGlyphs
        BY DEF AllGlyphs, Blank
      <3>2. <<Blank>> \in Texts
        BY <3>1 DEF Texts
      <3> QED BY <3>2
    <2>8. one \o none = one
      BY <2>2, TextFacts
    <2>9. Last(one) # "?"
      BY <2>7 DEF Last, Blank
    <2>10. Last(<<Blank>> \o Decode(V)) = Last(one)
      BY Zenon, <2>1, <2>2, <2>6, <2>7, <2>8
    <2> QED BY <2>9, <2>10 DEF Sound
  <1>5. CASE n # 0
    <2>1. n + 1 \in 2..Len(x) /\ (n + 1) - 1 = n
      BY <1>3, <1>5
    <2>2. ASSUME ~ Sound(V) PROVE CutIn(x)
      <3>1. Last(<<Blank>> \o Decode(SubSeq(x, 1, (n + 1) - 1))) = "?"
        BY <1>3, <2>1, <2>2 DEF Sound
      <3> QED BY <1>3, <2>1, <3>1 DEF CutIn
    <2> QED BY <1>1, <2>2
  <1> QED BY <1>4, <1>5

\* The parser has split what was fed of the text of V; or all of it.
Follows(p, V, ids, fed, thinking, functions) ==
    \E X \in Texts : Split(p, X, thinking) /\ (p.functions <=> functions) /\ Ahead(V, ids, fed, X)
HasAll(p, V, thinking, functions) == Split(p, Decode(V), thinking) /\ (p.functions <=> functions)

LEMMA FollowsNew ==
    ASSUME NEW thinking \in BOOLEAN, NEW functions \in BOOLEAN
    PROVE  Follows(NewParser(thinking, functions), <<>>, <<>>, <<>>, thinking, functions)
  <1>1. PICK none \in Texts : none = <<>>
    BY MarkersAre
  <1>2. PICK p : p = NewParser(thinking, functions)
    OBVIOUS
  <1>3. Split(p, none, thinking) /\ (p.functions <=> functions)
    BY Zenon, <1>1, <1>2, NewSplits
  <1>4. Ahead(none, none, none, none)
    BY Zenon, <1>1, AheadNew
  <1>5. Follows(p, none, none, none, thinking, functions)
    BY Zenon, <1>3, <1>4 DEF Follows
  <1> QED BY Zenon, <1>1, <1>2, <1>5

LEMMA FollowsQuiet ==
    ASSUME NEW p, NEW V, NEW ids, NEW fed, NEW thinking, NEW functions, Follows(p, V, ids, fed, thinking, functions)
    PROVE  Follows([p EXCEPT !.out = <<>>], V, ids, fed, thinking, functions)
  <1>1. PICK X \in Texts : Split(p, X, thinking) /\ (p.functions <=> functions) /\ Ahead(V, ids, fed, X)
    BY DEF Follows
  <1>2. Split([p EXCEPT !.out = <<>>], X, thinking) /\ ([p EXCEPT !.out = <<>>].functions <=> p.functions)
    BY Zenon, <1>1, QuietSplits
  <1>3. PICK q : q = [p EXCEPT !.out = <<>>]
    OBVIOUS
  <1>4. Split(q, X, thinking) /\ (q.functions <=> functions)
    BY Zenon, <1>1, <1>2, <1>3
  <1>5. Follows(q, V, ids, fed, thinking, functions)
    BY Zenon, <1>1, <1>4 DEF Follows
  <1> QED BY Zenon, <1>3, <1>5

\* It goes on to follow them.
FollowsOn(p, V, ids, fed, n, thinking, functions, s) ==
    /\ s \in Texts /\ Unseen(fed, s) \in Texts
    /\ Follows(Feed(p, Unseen(fed, s)), V \o n, ids \o n, s, thinking, functions)

LEMMA FollowsMore ==
    ASSUME NEW p, NEW V \in Seq(TokenIds), NEW ids \in Seq(TokenIds), NEW fed \in Texts, NEW n \in Seq(TokenIds),
           NEW thinking \in BOOLEAN, NEW functions, Follows(p, V, ids, fed, thinking, functions)
    PROVE  FollowsOn(p, V, ids, fed, n, thinking, functions, Stable(Decode(ids \o n)))
  <1>1. PICK X \in Texts : Split(p, X, thinking) /\ (p.functions <=> functions) /\ Ahead(V, ids, fed, X)
    BY DEF Follows
  <1>2. PICK t \in Texts : Further(V, ids, fed, X, n, t)
    BY <1>1, AheadMore
  <1>3. PICK s : s = Stable(Decode(ids \o n))
    OBVIOUS
  <1>4. s = fed \o t /\ Unseen(fed, s) = t /\ Ahead(V \o n, ids \o n, s, X \o t)
    BY Zenon, <1>2, <1>3 DEF Further
  <1>5. s \in Texts /\ X \o t \in Texts
    BY <1>4, TextFacts
  <1>6. Split(Feed(p, t), X \o t, thinking) /\ (Feed(p, t).functions <=> p.functions)
    BY <1>1, FeedSplits
  <1>7. PICK q : q = Feed(p, t)
    OBVIOUS
  <1>8. PICK Y \in Texts : Y = X \o t
    BY <1>5
  <1>9. Split(q, Y, thinking) /\ (q.functions <=> functions)
    BY Zenon, <1>1, <1>6, <1>7, <1>8
  <1>10. Follows(q, V \o n, ids \o n, s, thinking, functions)
    BY Zenon, <1>4, <1>8, <1>9 DEF Follows
  <1> QED BY Zenon, <1>3, <1>4, <1>5, <1>7, <1>10 DEF FollowsOn

LEMMA FedToEnd ==
    ASSUME NEW p, NEW X \in Texts, NEW t \in Texts, NEW thinking \in BOOLEAN, NEW functions, Split(p, X, thinking)
    PROVE  \A W : (p.functions <=> functions) /\ X \o t = Decode(W) => HasAll(Feed(p, t), W, thinking, functions)
  <1>1. Split(Feed(p, t), X \o t, thinking) /\ (Feed(p, t).functions <=> p.functions)
    BY FeedSplits
  <1>2. PICK q : q = Feed(p, t)
    OBVIOUS
  <1>3. ASSUME NEW W, p.functions <=> functions, X \o t = Decode(W) PROVE HasAll(q, W, thinking, functions)
    <2>1. Split(q, Decode(W), thinking) /\ (q.functions <=> functions)
      BY Zenon, <1>1, <1>2, <1>3
    <2> QED BY Zenon, <2>1 DEF HasAll
  <1> QED BY Zenon, <1>2, <1>3

LEMMA FollowsToEnd ==
    ASSUME NEW p, NEW V \in Seq(TokenIds), NEW ids \in Seq(TokenIds), NEW fed \in Texts, NEW n \in Seq(TokenIds),
           NEW thinking \in BOOLEAN, NEW functions, Follows(p, V, ids, fed, thinking, functions)
    PROVE  HasAll(Feed(p, Unseen(fed, Decode(ids \o n))), V \o n, thinking, functions)
  <1>1. PICK X \in Texts : Split(p, X, thinking) /\ (p.functions <=> functions) /\ Ahead(V, ids, fed, X)
    BY DEF Follows
  <1>2. PICK all \in Seq(TokenIds), W \in Seq(TokenIds) : all = ids \o n /\ W = V \o n
    <2>1. ids \o n \in Seq(TokenIds) /\ V \o n \in Seq(TokenIds)
      OBVIOUS
    <2> QED BY Zenon, <2>1
  <1>3. SameRest(W, all, fed, X)
    BY <1>1, <1>2, SameRestMore
  <1>4. PICK t \in Texts : t = Unseen(fed, Decode(all)) /\ X \o t = Decode(W)
    BY <1>3, AheadEnd
  <1>5. HasAll(Feed(p, t), W, thinking, functions)
    BY Zenon, <1>1, <1>4, FedToEnd
  <1> QED BY Zenon, <1>2, <1>4, <1>5

LEMMA FollowsEnd ==
    ASSUME NEW p, NEW V \in Seq(TokenIds), NEW ids \in Seq(TokenIds), NEW fed \in Texts,
           NEW thinking \in BOOLEAN, NEW functions, Follows(p, V, ids, fed, thinking, functions)
    PROVE  HasAll(Feed(p, Unseen(fed, Decode(ids))), V, thinking, functions)
  <1>1. PICK none \in Seq(TokenIds) : none = <<>>
    <2>1. <<>> \in Seq(TokenIds)
      OBVIOUS
    <2> QED BY Zenon, <2>1
  <1>2. ids \o none = ids /\ V \o none = V
    BY <1>1
  <1>3. HasAll(Feed(p, Unseen(fed, Decode(ids \o none))), V \o none, thinking, functions)
    BY FollowsToEnd
  <1> QED BY Zenon, <1>2, <1>3

\* The close is fed to it: it follows the close too, on the same tail or on none.
LEMMA FollowsShut ==
    ASSUME NEW p, NEW V \in Seq(TokenIds), NEW ids \in Seq(TokenIds), NEW fed \in Texts,
           NEW thinking \in BOOLEAN, NEW functions, Follows(p, V, ids, fed, thinking, functions), Sound(V)
    PROVE  /\ Follows(Feed(p, ClosingText), Append(V, Shut), ids, fed, thinking, functions)
           /\ Follows(Feed(p, ClosingText), Append(V, Shut), <<>>, <<>>, thinking, functions)
  <1>1. PICK X \in Texts : Split(p, X, thinking) /\ (p.functions <=> functions) /\ Ahead(V, ids, fed, X)
    BY DEF Follows
  <1>2. PICK c \in Texts : c = ClosingText
    BY MarkersAre
  <1>3. Split(Feed(p, c), X \o c, thinking) /\ (Feed(p, c).functions <=> p.functions)
    BY <1>1, FeedSplits
  <1>4. PICK q : q = Feed(p, c)
    OBVIOUS
  <1>5. PICK Y \in Texts : Y = X \o c
    BY TextFacts
  <1>6. Split(q, Y, thinking) /\ (q.functions <=> functions)
    BY Zenon, <1>1, <1>3, <1>4, <1>5
  <1>7. Ahead(Append(V, Shut), ids, fed, X \o ClosingText) /\ Ahead(Append(V, Shut), <<>>, <<>>, X \o ClosingText)
    BY <1>1, AheadShut
  <1>8. Ahead(Append(V, Shut), ids, fed, Y) /\ Ahead(Append(V, Shut), <<>>, <<>>, Y)
    BY Zenon, <1>2, <1>5, <1>7
  <1>9. /\ Follows(q, Append(V, Shut), ids, fed, thinking, functions)
        /\ Follows(q, Append(V, Shut), <<>>, <<>>, thinking, functions)
    BY Zenon, <1>6, <1>8 DEF Follows
  <1> QED BY Zenon, <1>2, <1>4, <1>9

LEMMA AllShut ==
    ASSUME NEW p, NEW V \in Seq(TokenIds), NEW thinking \in BOOLEAN, NEW functions, HasAll(p, V, thinking, functions)
    PROVE  /\ Follows(Feed(p, ClosingText), Append(V, Shut), <<>>, <<>>, thinking, functions)
           /\ HasAll(Feed(p, ClosingText), Append(V, Shut), thinking, functions)
  <1>1. PICK X \in Texts : X = Decode(V)
    BY AheadShutEnd
  <1>2. Split(p, X, thinking) /\ (p.functions <=> functions)
    BY Zenon, <1>1 DEF HasAll
  <1>3. PICK c \in Texts : c = ClosingText
    BY MarkersAre
  <1>4. Split(Feed(p, c), X \o c, thinking) /\ (Feed(p, c).functions <=> p.functions)
    BY <1>2, FeedSplits
  <1>5. PICK q : q = Feed(p, c)
    OBVIOUS
  <1>6. PICK Y \in Texts : Y = X \o c
    BY TextFacts
  <1>7. Split(q, Y, thinking) /\ (q.functions <=> functions)
    BY Zenon, <1>2, <1>4, <1>5, <1>6
  <1>8. Ahead(Append(V, Shut), <<>>, <<>>, Y) /\ Decode(Append(V, Shut)) = Y
    BY Zenon, <1>1, <1>3, <1>6, AheadShutEnd
  <1>9. Follows(q, Append(V, Shut), <<>>, <<>>, thinking, functions) /\ HasAll(q, Append(V, Shut), thinking, functions)
    BY Zenon, <1>7, <1>8 DEF Follows, HasAll
  <1> QED BY Zenon, <1>3, <1>5, <1>9

LEMMA FollowsAll ==
    ASSUME NEW p, NEW V \in Seq(TokenIds), NEW fed \in Texts, NEW thinking, NEW functions,
           Follows(p, V, <<>>, fed, thinking, functions)
    PROVE  HasAll(p, V, thinking, functions)
  <1>1. PICK X \in Texts : Split(p, X, thinking) /\ (p.functions <=> functions) /\ Ahead(V, <<>>, fed, X)
    BY DEF Follows
  <1>2. Decode(V) = X
    BY <1>1, AheadNothing
  <1> QED BY Zenon, <1>1, <1>2 DEF HasAll

\* The message of a parser that has all.
WholeAnswer(m, V, thinking, functions) ==
    /\ m.content = WholeMessage(Decode(V), thinking, functions).content
    /\ m.reasoning = WholeMessage(Decode(V), thinking, functions).reasoning

LEMMA AllAnswered ==
    ASSUME NEW p, NEW V, NEW thinking \in BOOLEAN, NEW functions \in BOOLEAN, NEW complete,
           HasAll(p, V, thinking, functions)
    PROVE  WholeAnswer(Message(p, complete), V, thinking, functions)
  <1>1. PICK X : X = Decode(V)
    OBVIOUS
  <1>2. Split(p, X, thinking) /\ (p.functions <=> functions)
    BY Zenon, <1>1 DEF HasAll
  <1>3. /\ Message(p, complete).content = WholeMessage(X, thinking, functions).content
        /\ Message(p, complete).reasoning = WholeMessage(X, thinking, functions).reasoning
    BY <1>2, MessageSplits
  <1> QED BY Zenon, <1>1, <1>3 DEF WholeAnswer

-----------------------------------------------------------------------------
(* The message of a turn of the resident engine is exact.                     *)

LEMMA FollowsAnchor ==
    ASSUME NEW p, NEW V \in Seq(TokenIds), NEW ids \in Seq(TokenIds), NEW fed \in Texts, NEW thinking, NEW functions,
           Follows(p, V, ids, fed, thinking, functions), fed = Decode(ids)
    PROVE  Follows(p, V, <<>>, <<>>, thinking, functions)
  <1>1. PICK X \in Texts : Split(p, X, thinking) /\ (p.functions <=> functions) /\ Ahead(V, ids, fed, X)
    BY DEF Follows
  <1>2. Ahead(V, <<>>, <<>>, X)
    BY <1>1, AheadAnchor
  <1> QED BY Zenon, <1>1, <1>2 DEF Follows

LEMMA TokensJoin ==
    ASSUME NEW a \in Seq(TokenIds), NEW b \in Seq(TokenIds)
    PROVE  a \o b \in Seq(TokenIds)
  OBVIOUS

LEMMA AppendJoin ==
    ASSUME NEW a \in Seq(TokenIds), NEW b \in Seq(TokenIds), NEW c \in TokenIds
    PROVE  Append(a \o b, c) = a \o Append(b, c) /\ Append(b, c) \in Seq(TokenIds)
  OBVIOUS

\* The tokens of a window are pushed.
Pushed(p, V, t, n, thinking, functions) ==
    /\ Follows(Feed(p, TextPush(t, n).piece), V \o n, TextPush(t, n).next.ids, TextPush(t, n).next.fed, thinking, functions)
    /\ TextPush(t, n).next.any

LEMMA PushFollows ==
    ASSUME NEW p, NEW V \in Seq(TokenIds), NEW t \in TailTypes, NEW n \in Seq(TokenIds),
           NEW thinking \in BOOLEAN, NEW functions, Follows(p, V, t.ids, t.fed, thinking, functions)
    PROVE  Pushed(p, V, t, n, thinking, functions)
  <1>1. PICK ids \in Seq(TokenIds), fed \in Texts : ids = t.ids /\ fed = t.fed
    BY DEF TailTypes
  <1>2. PICK all \in Seq(TokenIds) : all = ids \o n
    BY Zenon, <1>1, TokensJoin
  <1>3. PICK W \in Seq(TokenIds) : W = V \o n
    BY Zenon, TokensJoin
  <1>4. PICK tail : tail = Decode(all)
    OBVIOUS
  <1>5. PICK s : s = Stable(tail)
    OBVIOUS
  <1>6. FollowsOn(p, V, ids, fed, n, thinking, functions, s)
    <2>1. FollowsOn(p, V, ids, fed, n, thinking, functions, Stable(Decode(ids \o n)))
      BY <1>1, FollowsMore
    <2> QED BY Zenon, <1>2, <1>4, <1>5, <2>1
  <1>7. PICK q : q = Feed(p, Unseen(fed, s))
    OBVIOUS
  <1>8. s \in Texts /\ Follows(q, W, all, s, thinking, functions)
    BY Zenon, <1>2, <1>3, <1>6, <1>7 DEF FollowsOn
  <1>9. PICK none : none = <<>>
    OBVIOUS
  <1>10. PICK x : x = IF Len(all) >= Span /\ s = tail THEN [ids |-> none, fed |-> none, any |-> TRUE]
                      ELSE [ids |-> all, fed |-> s, any |-> TRUE]
    OBVIOUS
  <1>11. TextPush(t, n) = [piece |-> Unseen(fed, s), next |-> x]
    BY Zenon, <1>1, <1>2, <1>4, <1>5, <1>9, <1>10 DEF TextPush
  <1>12. TextPush(t, n).piece = Unseen(fed, s) /\ TextPush(t, n).next = x
    BY <1>11
  <1>13. Follows(q, W, x.ids, x.fed, thinking, functions) /\ x.any
    <2>1. CASE Len(all) >= Span /\ s = tail
      <3>1. x.ids = none /\ x.fed = none /\ x.any
        BY <1>10, <2>1
      <3>2. Follows(q, W, <<>>, <<>>, thinking, functions)
        BY <1>4, <1>8, <2>1, FollowsAnchor
      <3> QED BY Zenon, <1>9, <3>1, <3>2
    <2>2. CASE ~ (Len(all) >= Span /\ s = tail)
      <3>1. x.ids = all /\ x.fed = s /\ x.any
        BY <1>10, <2>2
      <3> QED BY Zenon, <1>8, <3>1
    <2> QED BY <2>1, <2>2
  <1> QED BY Zenon, <1>3, <1>7, <1>12, <1>13 DEF Pushed

\* What was left is flushed.
LEMMA FlushFollows ==
    ASSUME NEW p, NEW V \in Seq(TokenIds), NEW t \in TailTypes, NEW thinking \in BOOLEAN, NEW functions,
           Follows(p, V, t.ids, t.fed, thinking, functions), t.any \/ t.ids = <<>>
    PROVE  HasAll(IF t.any THEN Feed(p, Flush(t)) ELSE [p EXCEPT !.out = <<>>], V, thinking, functions)
  <1>1. PICK ids \in Seq(TokenIds), fed \in Texts : ids = t.ids /\ fed = t.fed
    BY DEF TailTypes
  <1>2. CASE ids = <<>>
    <2>1. HasAll(p, V, thinking, functions)
      BY <1>1, <1>2, FollowsAll
    <2>2. HasAll([p EXCEPT !.out = <<>>], V, thinking, functions)
      <3>1. Split([p EXCEPT !.out = <<>>], Decode(V), thinking) /\ ([p EXCEPT !.out = <<>>].functions <=> p.functions)
        BY Zenon, <2>1, QuietSplits DEF HasAll
      <3> QED BY Zenon, <2>1, <3>1 DEF HasAll
    <2>3. HasAll(Feed(p, Flush(t)), V, thinking, functions)
      <3>1. PICK none \in Texts : none = <<>>
        BY MarkersAre
      <3>2. Flush(t) = none
        BY <1>1, <1>2, <3>1 DEF Flush
      <3>3. PICK X \in Texts : X = Decode(V)
        BY AheadShutEnd
      <3>4. Split(p, X, thinking) /\ (p.functions <=> functions)
        BY Zenon, <2>1, <3>3 DEF HasAll
      <3>5. Split(Feed(p, none), X \o none, thinking) /\ (Feed(p, none).functions <=> p.functions)
        BY <3>4, FeedSplits
      <3>6. X \o none = X
        BY <3>1, TextFacts
      <3>7. PICK q : q = Feed(p, none)
        OBVIOUS
      <3>8. HasAll(q, V, thinking, functions)
        BY Zenon, <3>3, <3>4, <3>5, <3>6, <3>7 DEF HasAll
      <3> QED BY Zenon, <3>2, <3>7, <3>8
    <2> QED BY Zenon, <2>2, <2>3
  <1>3. CASE ids # <<>>
    <2>1. t.any
      BY <1>1, <1>3
    <2>2. HasAll(Feed(p, Unseen(fed, Decode(ids))), V, thinking, functions)
      BY <1>1, FollowsEnd
    <2>3. Flush(t) = Unseen(fed, Decode(ids))
      BY <1>1, <1>3 DEF Flush
    <2> QED BY Zenon, <2>1, <2>2, <2>3
  <1> QED BY <1>2, <1>3

\* The end of tokens after others.
LEMMA RestOfTokens ==
    ASSUME NEW s \in Seq(TokenIds), NEW e \in Seq(TokenIds)
    PROVE  SubSeq(s \o e, Len(s) + 1, Len(s \o e)) = e
  <1>1. PICK x : x = s \o e
    OBVIOUS
  <1>2. /\ x \in Seq(TokenIds) /\ Len(s) \in Nat /\ Len(e) \in Nat /\ Len(x) = Len(s) + Len(e)
        /\ \A i \in 1..Len(e) : x[Len(s) + i] = e[i]
    BY <1>1
  <1>3. PICK y : y = SubSeq(x, Len(s) + 1, Len(x))
    OBVIOUS
  <1>4. y \in Seq(TokenIds) /\ Len(y) = Len(e) /\ \A i \in 1..Len(e) : y[i] = x[Len(s) + i]
    BY <1>2, <1>3
  <1>5. PICK n : n = Len(e)
    OBVIOUS
  <1>6. Len(y) = n /\ \A i \in 1..n : y[i] = e[i]
    BY <1>2, <1>4, <1>5
  <1>7. y = e
    BY <1>4, <1>5, <1>6, SameSequence
  <1> QED BY <1>1, <1>3, <1>7

\* An answer that is told is the split of the whole text.
Exact ==
    verdict.status \in {"completed", "incomplete"} =>
        CutIn(produced) \/ WholeAnswer(answer, Visible(produced), setup.thinking, setup.functions)

\* The parser follows the tokens V of a window; the close counts once it is fed.
FollowsTail(V) == Follows(parser, V, text.ids, text.fed, setup.thinking, setup.functions)
ResidentExact ==
    /\ setup.thinking \in BOOLEAN /\ setup.functions \in BOOLEAN
    /\ turnpc = "idle" => produced = <<>> /\ seen = 0 /\ text.ids = <<>> /\ text.fed = <<>>
    /\ text.any \/ text.ids = <<>>
    /\ turnpc = "window" => /\ seen = Len(produced) /\ NoStop(produced)
                            /\ CutIn(produced) \/ FollowsTail(produced)
    /\ turnpc = "inject" => /\ NoStop(ApplyInject(produced))
                            /\ CutIn(ApplyInject(produced)) \/ FollowsTail(ApplyInject(produced))
    /\ turnpc = "over" /\ ~cancelled => CutIn(produced) \/ FollowsTail(Visible(produced))
    /\ turnpc \in {"told", "done"} => Exact

\* A window is followed.
LEMMA AcceptExact ==
    ASSUME ResidentTurnInv, ResidentExact, Accept
    PROVE  ResidentExact'
  <1>1. PICK e \in Pieces(setup.words, Min({2, MaxNew - Len(produced)})), late \in BOOLEAN : TakeWindow(e, late)
    BY DEF Accept
  <1>2. turnpc = "window" /\ ~cancelled /\ UNCHANGED <<setup, verdict, answer>>
    BY DEF Accept
  <1>3. /\ setup.words \in SUBSET TokenIds /\ produced \in Seq(TokenIds) /\ parser \in ParserTypes
    BY DEF ResidentTurnInv, TurnTypes
  <1>4. text \in TailTypes /\ Len(produced) < MaxNew
    BY <1>2 DEF ResidentTurnInv, ResidentWindows
  <1>5. PICK th \in BOOLEAN, fn \in BOOLEAN : th = setup.thinking /\ fn = setup.functions
    BY DEF ResidentExact
  <1>6. /\ seen = Len(produced) /\ NoStop(produced)
        /\ CutIn(produced) \/ Follows(parser, produced, text.ids, text.fed, th, fn)
        /\ text.any \/ text.ids = <<>>
    BY <1>2, <1>5 DEF ResidentExact, FollowsTail
  <1>7. e \in Seq(TokenIds) /\ Len(e) >= 1 /\ \A i \in 1..Len(e) : i < Len(e) => e[i] # Stop
    <2>1. Len(produced) \in Nat /\ MaxNew \in Nat
      BY <1>3, TurnAssumption
    <2>2. PICK room \in Nat : room = MaxNew - Len(produced)
      BY <1>4, <2>1
    <2>3. Min({2, MaxNew - Len(produced)}) \in Int
      <3>1. Min({2, room}) = IF 2 <= room THEN 2 ELSE room
        BY <2>2, MinOfTwo
      <3> QED BY <2>2, <3>1
    <2>4. PICK most \in Int : most = Min({2, MaxNew - Len(produced)})
      BY <2>3
    <2>5. PICK W \in SUBSET TokenIds : W = setup.words
      BY <1>3
    <2>6. e \in Pieces(W, most)
      BY <2>4, <2>5
    <2>7. e \in Seq(TokenIds) /\ Len(e) \in 1..most /\ \A i \in 1..Len(e) : e[i] \in TokenIds /\ (i < Len(e) => e[i] # Stop)
      BY <2>6, PiecesAre
    <2> QED BY <2>7
  <1> DEFINE all     == produced \o e
             new     == SubSeq(all, seen + 1, Len(all))
             hitStop == Last(new) = Stop
             visible == Visible(new)
             push    == TextPush(text, visible)
             fed     == IF visible = <<>> THEN [parser EXCEPT !.out = <<>>] ELSE Feed(parser, push.piece)
             count   == spent + (IF parser.channel = "reasoning" THEN Len(new) ELSE 0)
             budget  == setup.cap > 0 /\ count >= setup.cap
             close   == ~late /\ closed_by = "none" /\ fed.channel = "reasoning" /\ (budget \/ hitStop)
             closing == Feed(fed, ClosingText)
             kept    == Len(all) - (IF hitStop THEN 1 ELSE 0)
  <1>8. /\ produced' = all /\ cancelled' = late
        /\ text' = IF visible = <<>> THEN text ELSE push.next
        /\ parser' = IF close THEN closing ELSE fed
        /\ seen' = IF close THEN kept + 1 ELSE Len(all)
        /\ turnpc' = IF close THEN "inject"
                     ELSE IF hitStop \/ late \/ Len(all) >= MaxNew THEN "over" ELSE "window"
    BY <1>1 DEF TakeWindow
  <1>9. e # <<>>
    BY <1>7
  <1>10. /\ all \in Seq(TokenIds) /\ all # <<>> /\ Last(all) = Last(e)
         /\ \A i \in 1..Len(all) : i < Len(all) => all[i] # Stop
         /\ Visible(all) = produced \o Visible(e)
    BY <1>3, <1>6, <1>7, <1>9, JoinNoStop
  <1>11. new = e
    BY <1>3, <1>6, <1>7, RestOfTokens
  <1>12. CutIn(produced) => CutIn(all)
    BY <1>3, <1>7, CutStays
  <1> HIDE DEF all, new
  <1>13. PICK V \in Seq(TokenIds) : V = Visible(all)
    BY <1>10, EndsInStop
  <1>14. /\ V = IF Last(all) = Stop THEN SubSeq(all, 1, Len(all) - 1) ELSE all
         /\ NoStop(V) /\ ApplyInject(all) = Append(V, Shut)
    BY <1>10, <1>13, EndsInStop
  <1>15. visible \in Seq(TokenIds) /\ V = produced \o visible /\ (hitStop <=> Last(all) = Stop)
    BY <1>7, <1>10, <1>11, <1>13, VisibleIs
  <1> HIDE DEF visible, hitStop
  <1>16. ~ CutIn(produced) => Follows(fed, V, text'.ids, text'.fed, th, fn)
    <2>1. SUFFICES ASSUME ~ CutIn(produced) PROVE Follows(fed, V, text'.ids, text'.fed, th, fn)
      OBVIOUS
    <2>2. Follows(parser, produced, text.ids, text.fed, th, fn)
      BY <1>6, <2>1
    <2>3. CASE visible = <<>>
      <3>1. V = produced
        BY <1>3, <1>15, <2>3
      <3>2. Follows([parser EXCEPT !.out = <<>>], produced, text.ids, text.fed, th, fn)
        BY Zenon, <2>2, FollowsQuiet
      <3>3. fed = [parser EXCEPT !.out = <<>>] /\ text' = text
        BY <1>8, <2>3
      <3> QED BY Zenon, <3>1, <3>2, <3>3
    <2>4. CASE visible # <<>>
      <3>1. Pushed(parser, produced, text, visible, th, fn)
        BY <1>3, <1>4, <1>15, <2>2, PushFollows
      <3>2. fed = Feed(parser, TextPush(text, visible).piece) /\ text' = TextPush(text, visible).next
        BY <1>8, <2>4
      <3> QED BY Zenon, <1>15, <3>1, <3>2 DEF Pushed
    <2> QED BY <2>3, <2>4
  <1>17. text'.any \/ text'.ids = <<>>
    <2>1. CASE visible = <<>>
      <3>1. text' = text
        BY <1>8, <2>1
      <3> QED BY <1>6, <3>1
    <2>2. CASE visible # <<>> /\ CutIn(produced)
      <3>1. text' = TextPush(text, visible).next
        BY <1>8, <2>2
      <3>2. TextPush(text, visible).next.any
        <4>1. PICK x, y : x = [ids |-> <<>>, fed |-> <<>>, any |-> TRUE]
                          /\ y = [ids |-> text.ids \o visible, fed |-> Stable(Decode(text.ids \o visible)), any |-> TRUE]
          OBVIOUS
        <4>2. TextPush(text, visible).next = x \/ TextPush(text, visible).next = y
          BY <4>1 DEF TextPush
        <4>3. x.any /\ y.any
          BY <4>1
        <4> QED BY Zenon, <4>2, <4>3
      <3> QED BY <3>1, <3>2
    <2>3. CASE visible # <<>> /\ ~ CutIn(produced)
      <3>1. Follows(parser, produced, text.ids, text.fed, th, fn)
        BY <1>6, <2>3
      <3>2. Pushed(parser, produced, text, visible, th, fn)
        BY <1>3, <1>4, <1>15, <3>1, PushFollows
      <3>3. text' = TextPush(text, visible).next
        BY <1>8, <2>3
      <3> QED BY Zenon, <3>2, <3>3 DEF Pushed
    <2> QED BY <2>1, <2>2, <2>3
  <1> HIDE DEF fed, push
  <1>18. turnpc' \in {"window", "inject", "over"}
    BY <1>8
  <1>19. th = setup'.thinking /\ fn = setup'.functions
    BY <1>2, <1>5
  <1>20. ASSUME turnpc' = "inject"
         PROVE  /\ NoStop(ApplyInject(produced'))
                /\ CutIn(ApplyInject(produced')) \/ Follows(parser', ApplyInject(produced'), text'.ids, text'.fed, th, fn)
    <2>1. close /\ parser' = closing
      BY <1>8, <1>20
    <2>2. ApplyInject(produced') = Append(V, Shut)
      BY <1>8, <1>14
    <2>3. NoStop(Append(V, Shut))
      <3>1. PICK c \in TokenIds : c = Shut /\ c # Stop
        BY NamedIds
      <3>2. \A i \in 1..Len(Append(V, c)) : Append(V, c)[i] = c \/ (i \in 1..Len(V) /\ Append(V, c)[i] = V[i])
        OBVIOUS
      <3> QED BY <1>14, <3>1, <3>2 DEF NoStop
    <2>4. CASE CutIn(produced)
      <3>0. Shut \in TokenIds
        BY NamedIds
      <3>1. PICK more \in Seq(TokenIds) : more = Append(visible, Shut)
        BY Zenon, <1>15, <3>0, AppendJoin
      <3>2. Append(V, Shut) = produced \o more
        BY Zenon, <1>3, <1>15, <3>0, <3>1, AppendJoin
      <3>3. CutIn(produced \o more)
        BY <1>3, <2>4, CutStays
      <3> QED BY Zenon, <2>2, <2>3, <3>2, <3>3
    <2>5. CASE ~ CutIn(produced)
      <3>1. CutIn(Append(V, Shut)) \/ Sound(V)
        BY CutOrSound
      <3>2. PICK ids \in Seq(TokenIds), f \in Texts : ids = text'.ids /\ f = text'.fed
        <4>1. text' \in TailTypes
          <5>1. ResidentTurnInv'
            BY AcceptKeeps
          <5> QED BY <5>1 DEF ResidentTurnInv, ResidentWindows
        <4> QED BY <4>1 DEF TailTypes
      <3>3. Follows(fed, V, ids, f, th, fn)
        BY <1>16, <2>5, <3>2
      <3>4. ASSUME Sound(V) PROVE Follows(Feed(fed, ClosingText), Append(V, Shut), ids, f, th, fn)
        BY <3>3, <3>4, FollowsShut
      <3> QED BY Zenon, <2>1, <2>2, <2>3, <3>1, <3>2, <3>4
    <2> QED BY <2>4, <2>5
  <1> HIDE DEF closing
  <1>21. turnpc' # "inject" => ~ close /\ parser' = fed /\ seen' = Len(all)
    BY <1>8
  <1> HIDE DEF close
  <1>22. ASSUME turnpc' = "window"
         PROVE  /\ seen' = Len(produced') /\ NoStop(produced')
                /\ CutIn(produced') \/ Follows(parser', produced', text'.ids, text'.fed, th, fn)
    <2>1. ~ hitStop
      BY <1>8, <1>21, <1>22
    <2>2. V = all
      BY <1>14, <1>15, <2>1
    <2> QED BY Zenon, <1>8, <1>12, <1>14, <1>16, <1>21, <1>22, <2>2
  <1>23. ASSUME turnpc' = "over"
         PROVE  CutIn(produced') \/ Follows(parser', Visible(produced'), text'.ids, text'.fed, th, fn)
    <2>1. parser' = fed
      BY <1>21, <1>23
    <2>2. produced' = all
      BY <1>8
    <2> QED BY Zenon, <1>12, <1>13, <1>16, <2>1, <2>2
  <1>24. setup'.thinking \in BOOLEAN /\ setup'.functions \in BOOLEAN
    BY <1>5, <1>19
  <1> QED BY Zenon, <1>17, <1>18, <1>19, <1>20, <1>22, <1>23, <1>24 DEF ResidentExact, FollowsTail

\* The close is appended.
LEMMA InjectExact ==
    ASSUME ResidentTurnInv, ResidentExact, InjectClose
    PROVE  ResidentExact'
  <1>1. PICK late \in BOOLEAN, behind \in BOOLEAN :
          /\ produced' = IF late THEN produced ELSE ApplyInject(produced)
          /\ turnpc' = IF late \/ halt \/ Len(produced') >= MaxNew THEN "over" ELSE "window"
          /\ cancelled' = (late \/ (behind /\ turnpc' = "over"))
    BY DEF InjectClose
  <1>2. turnpc = "inject" /\ UNCHANGED <<setup, parser, seen, text>>
    BY DEF InjectClose
  <1>3. produced # <<>> /\ seen = Len(ApplyInject(produced)) /\ produced \in Seq(TokenIds)
    BY <1>2 DEF ResidentTurnInv, ResidentWindows, TurnTypes
  <1>4. NoStop(ApplyInject(produced)) /\ (CutIn(ApplyInject(produced)) \/ FollowsTail(ApplyInject(produced)))
    BY <1>2 DEF ResidentExact
  <1>5. PICK q : q = ApplyInject(produced)
    OBVIOUS
  <1>6. q \in Seq(TokenIds)
    <2>1. PICK c \in TokenIds : c = Shut
      BY NamedIds
    <2>2. PICK f \in Seq(TokenIds) : f = Front(produced)
      <3>1. PICK n \in Nat : n = Len(produced) - 1 /\ n <= Len(produced)
        <4>1. Len(produced) \in Nat \ {0}
          BY <1>3
        <4>2. Len(produced) - 1 \in Nat /\ Len(produced) - 1 <= Len(produced)
          BY <4>1
        <4> QED BY <4>2
      <3>2. SubSeq(produced, 1, n) \in Seq(TokenIds)
        BY <1>3, <3>1
      <3> QED BY <3>1, <3>2 DEF Front
    <2>3. q = Append(f, c) \/ q = Append(produced, c)
      BY Zenon, <1>5, <2>1, <2>2 DEF ApplyInject
    <2>4. Append(f, c) \in Seq(TokenIds) /\ Append(produced, c) \in Seq(TokenIds)
      BY Zenon, <1>3, AppendJoin
    <2> QED BY <2>3, <2>4
  <1>7. Visible(q) = q
    BY <1>4, <1>5, <1>6, VisibleAll
  <1>8. turnpc' \in {"over", "window"} /\ (late => turnpc' = "over")
    BY <1>1
  <1>9. setup.thinking \in BOOLEAN /\ setup.functions \in BOOLEAN /\ (text.any \/ text.ids = <<>>)
    BY DEF ResidentExact
  <1>10. ASSUME turnpc' = "window"
         PROVE  seen' = Len(produced') /\ NoStop(produced') /\ (CutIn(produced') \/ FollowsTail(produced)')
    <2>1. ~ late /\ produced' = q
      BY <1>1, <1>5, <1>8, <1>10
    <2>2. seen' = Len(produced')
      BY <1>2, <1>3, <1>5, <2>1
    <2> QED BY Zenon, <1>2, <1>4, <1>5, <2>1, <2>2 DEF FollowsTail
  <1>11. ASSUME turnpc' = "over", ~ cancelled' PROVE CutIn(produced') \/ FollowsTail(Visible(produced))'
    <2>1. ~ late /\ produced' = q
      BY <1>1, <1>5, <1>11
    <2> QED BY Zenon, <1>2, <1>4, <1>5, <1>7, <2>1 DEF FollowsTail
  <1>12. setup'.thinking \in BOOLEAN /\ setup'.functions \in BOOLEAN /\ (text'.any \/ text'.ids = <<>>)
    BY <1>2, <1>9
  <1> QED BY Zenon, <1>8, <1>10, <1>11, <1>12 DEF ResidentExact

\* A turn that is told has the whole text.
LEMMA FinishExact ==
    ASSUME ResidentTurnInv, ResidentExact, FinishTurn
    PROVE  ResidentExact'
  <1> DEFINE last   == IF text.any THEN Feed(parser, Flush(text)) ELSE [parser EXCEPT !.out = <<>>]
             cut    == produced = <<>> \/ Last(produced) # Stop
             ended  == IF cancelled THEN [status |-> "cancelled", reason |-> "none"]
                       ELSE IF halt THEN [status |-> "incomplete", reason |-> "reasoning_budget"]
                       ELSE IF cut THEN [status |-> "incomplete", reason |-> "max_new_tokens"]
                       ELSE [status |-> "completed", reason |-> "none"]
             xml    == IF ended.status # "cancelled" /\ UnclosedToolXml(last)
                       THEN [status |-> "incomplete",
                             reason |-> IF ended.reason # "none" THEN ended.reason
                                        ELSE IF cut THEN "max_new_tokens" ELSE "unclosed_tool_call"]
                       ELSE ended
             error  == FinishError(last, xml.status = "completed", setup.choice)
             m      == Message(last, xml.status = "completed" /\ error = "none")
  <1>1. /\ turnpc = "over" /\ turnpc' = "told" /\ answer' = m
        /\ verdict' = IF error = "none" THEN xml ELSE [status |-> "incomplete", reason |-> error]
    BY DEF FinishTurn
  <1>2. UNCHANGED <<setup, produced, cancelled, text>>
    BY DEF FinishTurn, residentTurnVars
  <1>3. text \in TailTypes /\ produced \in Seq(TokenIds) /\ cancelled \in BOOLEAN
    BY DEF ResidentTurnInv, TurnTypes, ResidentWindows
  <1>4. PICK th \in BOOLEAN, fn \in BOOLEAN : th = setup.thinking /\ fn = setup.functions
    BY DEF ResidentExact
  <1>5. text.any \/ text.ids = <<>>
    BY DEF ResidentExact
  <1>6. ~ cancelled => CutIn(produced) \/ Follows(parser, Visible(produced), text.ids, text.fed, th, fn)
    BY Zenon, <1>1, <1>4 DEF ResidentExact, FollowsTail
  <1>7. PICK V \in Seq(TokenIds) : V = Visible(produced)
    BY <1>3, VisibleIs
  <1>8. ~ cancelled => CutIn(produced) \/ HasAll(last, V, th, fn)
    <2>1. ASSUME Follows(parser, V, text.ids, text.fed, th, fn) PROVE HasAll(last, V, th, fn)
      BY <1>3, <1>5, <2>1, FlushFollows
    <2> HIDE DEF last
    <2> QED BY Zenon, <1>6, <1>7, <2>1
  <1> HIDE DEF last
  <1>9. ~ cancelled => CutIn(produced) \/ WholeAnswer(answer', V, th, fn)
    <2>1. PICK complete : complete = (xml.status = "completed" /\ error = "none")
      OBVIOUS
    <2>2. answer' = Message(last, complete)
      BY Zenon, <1>1, <2>1
    <2>3. ASSUME HasAll(last, V, th, fn) PROVE WholeAnswer(Message(last, complete), V, th, fn)
      BY <2>3, AllAnswered
    <2> QED BY Zenon, <1>8, <2>2, <2>3
  <1>10. ASSUME cancelled PROVE verdict'.status = "cancelled"
    <2>1. ended.status = "cancelled"
      BY <1>10
    <2> HIDE DEF ended
    <2>2. xml = ended
      BY <2>1
    <2>3. error = "none"
      <3>1. xml.status # "completed"
        BY <2>1, <2>2
      <3> HIDE DEF xml
      <3> QED BY <3>1 DEF FinishError
    <2>4. verdict' = ended
      BY Zenon, <1>1, <2>2, <2>3
    <2> QED BY <2>1, <2>4
  <1> HIDE DEF error, xml, m
  <1>11. Exact'
    <2>1. ASSUME verdict'.status \in {"completed", "incomplete"} PROVE ~ cancelled
      BY <1>10, <2>1
    <2>2. Visible(produced') = V /\ produced' = produced /\ setup'.thinking = th /\ setup'.functions = fn
      BY <1>2, <1>4, <1>7
    <2> QED BY Zenon, <1>9, <2>1, <2>2 DEF Exact
  <1>12. setup'.thinking \in BOOLEAN /\ setup'.functions \in BOOLEAN /\ (text'.any \/ text'.ids = <<>>)
    BY <1>2, <1>4, <1>5
  <1>13. turnpc' = "told"
    BY <1>1
  <1> QED BY Zenon, <1>11, <1>12, <1>13 DEF ResidentExact

\* The start of a turn: its parser has split nothing yet.
LEMMA StartFollows ==
    ASSUME NEW thinking \in BOOLEAN, StartTurn(thinking)
    PROVE  /\ setup'.thinking \in BOOLEAN /\ setup'.functions \in BOOLEAN
           /\ Follows(parser', <<>>, <<>>, <<>>, setup'.thinking, setup'.functions)
  <1>1. PICK functions \in BOOLEAN, choice \in {"auto", "required"}, cap \in Caps, words \in Vocabularies :
          /\ setup' = [thinking |-> thinking, functions |-> functions, choice |-> choice,
                       cap |-> IF thinking THEN cap ELSE 0, words |-> words]
          /\ parser' = NewParser(thinking, functions)
    BY DEF StartTurn
  <1>2. setup'.thinking = thinking /\ setup'.functions = functions
    BY <1>1
  <1>3. Follows(NewParser(thinking, functions), <<>>, <<>>, <<>>, thinking, functions)
    BY FollowsNew
  <1> QED BY Zenon, <1>1, <1>2, <1>3

\* What is exact says of a turn that has ended.
LEMMA ExactAnswers ==
    ASSUME turnpc = "done" => Exact
    PROVE  AnswerExact
  <1>1. CutCharacter <=> CutIn(produced)
    BY Zenon DEF CutCharacter, CutIn
  <1> QED BY Zenon, <1>1 DEF AnswerExact, Ended, Exact, WholeAnswer


\* However the tokens of a turn of the resident engine are cut into windows, pieces and
\* half characters, its message is the split of the whole text (engine/forward/chat.py).
THEOREM ResidentAnswerExact == ResidentTurnSpec => []AnswerExact
  <1>1. TurnInit /\ ResidentTurnInit => ResidentExact
    <2> SUFFICES ASSUME TurnInit, ResidentTurnInit PROVE ResidentExact
      OBVIOUS
    <2>1. turnpc = "idle" /\ produced = <<>> /\ seen = 0 /\ text.ids = <<>> /\ text.fed = <<>>
      BY DEF TurnInit, ResidentTurnInit
    <2>2. setup.thinking \in BOOLEAN /\ setup.functions \in BOOLEAN
      BY DEF TurnInit
    <2> QED BY <2>1, <2>2 DEF ResidentExact
  <1>2. ASSUME ResidentTurnInv, ResidentExact, [ResidentTurnNext]_<<turnVars, residentTurnVars>>
        PROVE  ResidentExact'
    <2>1. CASE StartTurn(TRUE) /\ UNCHANGED residentTurnVars
      <3>1. PICK yes \in BOOLEAN : yes = TRUE
        OBVIOUS
      <3>2. StartTurn(yes)
        BY Zenon, <2>1, <3>1
      <3>3. /\ setup'.thinking \in BOOLEAN /\ setup'.functions \in BOOLEAN
            /\ Follows(parser', <<>>, <<>>, <<>>, setup'.thinking, setup'.functions)
        BY <3>2, StartFollows
      <3>4. turnpc = "idle" /\ turnpc' = "window" /\ produced' = produced
            /\ UNCHANGED <<seen, text, halt>>
        BY <2>1 DEF StartTurn, residentTurnVars
      <3>5. produced = <<>> /\ seen = 0 /\ text.ids = <<>> /\ text.fed = <<>>
        BY <1>2, <3>4 DEF ResidentExact
      <3>6. seen' = Len(produced') /\ NoStop(produced') /\ produced' = <<>> /\ text'.ids = <<>> /\ text'.fed = <<>>
        BY <3>4, <3>5 DEF NoStop
      <3>7. FollowsTail(produced)'
        BY Zenon, <3>3, <3>6 DEF FollowsTail
      <3> QED BY <3>3, <3>4, <3>6, <3>7 DEF ResidentExact
    <2>2. CASE ServerFinish /\ UNCHANGED residentTurnVars
      <3>1. turnpc = "told" /\ turnpc' = "done" /\ UNCHANGED <<setup, produced, parser, verdict, answer>>
            /\ UNCHANGED <<seen, text, halt>>
        BY <2>2 DEF ServerFinish, residentTurnVars
      <3>2. Exact'
        <4>1. Exact
          BY <1>2, <3>1 DEF ResidentExact
        <4> QED BY Zenon, <3>1, <4>1 DEF Exact
      <3> QED BY <1>2, <3>1, <3>2 DEF ResidentExact
    <2>3. CASE CancelBetween
      <3>1. turnpc' = "over" /\ cancelled' /\ UNCHANGED <<setup, text>>
        BY <2>3 DEF CancelBetween, residentTurnVars
      <3> QED BY <1>2, <3>1 DEF ResidentExact
    <2>4. CASE UNCHANGED <<turnVars, residentTurnVars>>
      <3>1. UNCHANGED <<setup, turnpc, produced, spent, closed_by, cancelled, parser, told, wires, verdict, answer>>
            /\ UNCHANGED <<seen, text, halt>>
        BY <2>4 DEF turnVars, residentTurnVars
      <3>2. Exact <=> Exact'
        BY Zenon, <3>1 DEF Exact
      <3> QED BY Zenon, <1>2, <3>1, <3>2 DEF ResidentExact, FollowsTail
    <2> QED BY <1>2, <2>1, <2>2, <2>3, <2>4, AcceptExact, InjectExact, FinishExact DEF ResidentTurnNext
  <1>3. ResidentExact => AnswerExact
    BY ExactAnswers DEF ResidentExact
  <1> QED BY <1>1, <1>2, <1>3, ResidentTurnInvariant, PTL DEF ResidentTurnSpec

-----------------------------------------------------------------------------
(* The message of a turn of the ExLlama engine is exact.                      *)

\* The state of a batch: its parser follows the tape of a job that goes on.
BatchFollows(s, thinking, functions) ==
    /\ s.final = "none" => /\ NoStop(s.tape)
                           /\ CutIn(s.tape) \/ Follows(s.parser, s.tape, s.serial.ids, s.serial.fed, thinking, functions)
    /\ s.final # "none" => CutIn(s.tape) \/ HasAll(s.parser, Visible(s.tape), thinking, functions)

LEMMA ShutNoStop ==
    ASSUME NEW V \in Seq(TokenIds), NoStop(V)
    PROVE  Append(V, Shut) \in Seq(TokenIds) /\ NoStop(Append(V, Shut)) /\ Visible(Append(V, Shut)) = Append(V, Shut)
  <1>1. PICK c \in TokenIds : c = Shut /\ c # Stop
    BY NamedIds
  <1>2. PICK k \in Seq(TokenIds) : k = Append(V, c)
    BY Zenon, AppendJoin
  <1>3. \A i \in 1..Len(k) : k[i] = c \/ (i \in 1..Len(V) /\ k[i] = V[i])
    BY <1>2
  <1>4. NoStop(k)
    BY <1>1, <1>3 DEF NoStop
  <1>5. Visible(k) = k
    BY <1>4, VisibleAll
  <1> QED BY Zenon, <1>1, <1>2, <1>4, <1>5

\* The token of an event, with the tape and the text it makes.
Heeded(T, id, ids, tape, n) ==
    /\ n \in Seq(TokenIds) /\ tape \in Seq(TokenIds) /\ T \o n \in Seq(TokenIds)
    /\ NoStop(T \o n) /\ Visible(tape) = T \o n
    /\ id # Stop => tape = T \o n

LEMMA HeedIs ==
    ASSUME NEW T \in Seq(TokenIds), NoStop(T), NEW id \in TokenIds, NEW ids, ids = <<id>> \/ (id = Stop /\ ids = <<>>),
           NEW n, n = IF id = Stop THEN <<>> ELSE <<id>>
    PROVE  Heeded(T, id, ids, T \o ids, n)
  <1>1. PICK none \in Seq(TokenIds) : none = <<>>
    <2>1. <<>> \in Seq(TokenIds)
      OBVIOUS
    <2> QED BY Zenon, <2>1
  <1>2. PICK one \in Seq(TokenIds) : one = <<id>>
    <2>1. <<id>> \in Seq(TokenIds)
      OBVIOUS
    <2> QED BY Zenon, <2>1
  <1>3. T \o none = T /\ T \o one = Append(T, id) /\ T \o one \in Seq(TokenIds)
    BY <1>1, <1>2
  <1>4. CASE id = Stop
    <2>1. n = none
      BY <1>1, <1>4
    <2>2. Visible(T) = T
      BY VisibleAll
    <2>3. Visible(Append(T, id)) = T
      <3>1. Visible(Append(T, id)) = Seen(Visible(T), id)
        BY VisibleMore
      <3> QED BY <1>4, <2>2, <3>1 DEF Seen
    <2>4. ids = one \/ ids = none
      BY <1>1, <1>2
    <2>5. T \o ids \in Seq(TokenIds) /\ Visible(T \o ids) = T
      BY Zenon, <1>3, <2>2, <2>3, <2>4
    <2>6. n \in Seq(TokenIds) /\ T \o n = T
      BY Zenon, <1>3, <2>1
    <2> QED BY Zenon, <1>4, <2>5, <2>6 DEF Heeded
  <1>5. CASE id # Stop
    <2>1. n = one /\ ids = one
      BY <1>2, <1>5
    <2>2. NoStop(T \o one)
      <3>1. PICK x : x = Append(T, id)
        OBVIOUS
      <3>2. \A i \in 1..Len(x) : x[i] = id \/ (i \in 1..Len(T) /\ x[i] = T[i])
        BY <3>1
      <3>3. NoStop(x)
        BY <1>5, <3>2 DEF NoStop
      <3> QED BY Zenon, <1>3, <3>1, <3>3
    <2>3. Visible(T \o one) = T \o one
      BY <1>3, <2>2, VisibleAll
    <2> QED BY Zenon, <1>3, <2>1, <2>2, <2>3 DEF Heeded
  <1> QED BY <1>4, <1>5

\* A close that stops the job.
LEMMA StopFollows ==
    ASSUME NEW p, NEW V \in Seq(TokenIds), NEW ids \in Seq(TokenIds), NEW f \in Texts,
           NEW thinking \in BOOLEAN, NEW functions,
           Follows(p, V, ids, f, thinking, functions) \/ HasAll(p, V, thinking, functions)
    PROVE  \/ CutIn(Append(V, Shut))
           \/ /\ Follows(Feed(p, ClosingText), Append(V, Shut), <<>>, <<>>, thinking, functions)
              /\ HasAll(Feed(p, ClosingText), Append(V, Shut), thinking, functions)
  <1>1. CASE HasAll(p, V, thinking, functions)
    BY Zenon, <1>1, AllShut
  <1>2. CASE Follows(p, V, ids, f, thinking, functions)
    <2>1. CutIn(Append(V, Shut)) \/ Sound(V)
      BY CutOrSound
    <2>2. ASSUME Sound(V) PROVE Follows(Feed(p, ClosingText), Append(V, Shut), <<>>, <<>>, thinking, functions)
      BY <1>2, <2>2, FollowsShut
    <2>3. PICK k \in Seq(TokenIds) : k = Append(V, Shut)
      BY Zenon, AppendJoin, NamedIds
    <2>4. PICK none \in Texts : none = <<>>
      BY MarkersAre
    <2>5. PICK q : q = Feed(p, ClosingText)
      OBVIOUS
    <2>6. ASSUME Follows(q, k, <<>>, none, thinking, functions) PROVE HasAll(q, k, thinking, functions)
      BY <2>6, FollowsAll
    <2> QED BY Zenon, <2>1, <2>2, <2>3, <2>4, <2>5, <2>6
  <1> QED BY <1>1, <1>2

\* One event is heard: its parser still follows the tape.
LEMMA HearFollows ==
    ASSUME NEW included \in BOOLEAN, NEW s \in InStepStates, NEW id \in TokenIds,
           NEW thinking \in BOOLEAN, NEW functions, BatchFollows(s, thinking, functions),
           ~ s.stopped => s.final = "none"
    PROVE  BatchFollows(Hear(included, s, id), thinking, functions)
  <1> DEFINE eos    == IF id = Stop THEN "stop" ELSE IF s.serial.left = 1 THEN "max" ELSE "none"
             ids    == IF id = Stop /\ ~included THEN <<>> ELSE <<id>>
             known  == IF id = Stop THEN s.serial.ids ELSE Append(s.serial.ids, id)
             tail   == Decode(known)
             stable == IF eos = "none" THEN Stable(tail) ELSE tail
             fed    == Feed(s.parser, Unseen(s.serial.fed, stable))
             count  == s.spent + (IF s.parser.channel = "reasoning" THEN Len(ids) ELSE 0)
             budget == setup.cap > 0 /\ count >= setup.cap
             close  == s.closed_by = "none" /\ fed.channel = "reasoning" /\ (budget \/ eos = "stop")
             shut   == Feed(fed, ClosingText)
             tape   == s.tape \o ids
             kept   == Append(Visible(tape), Shut)
             goes   == [s EXCEPT !.tape = tape, !.spent = count, !.parser = fed, !.heard = Heard(@, fed.out),
                                !.final = eos,
                                !.serial = [ids |-> known, fed |-> stable, left |-> @.left - 1]]
             stops  == [tape |-> kept, spent |-> count, parser |-> shut, heard |-> Heard(Heard(s.heard, fed.out), shut.out),
                        final |-> IF Leftover(kept) <= 0 THEN "synthetic" ELSE "none",
                        serial |-> NewJob(Leftover(kept)),
                        closed_by |-> IF budget THEN "budget" ELSE "unterminated", stopped |-> TRUE]
             r == Hear(included, s, id)
  <1>1. r = IF s.stopped THEN s ELSE IF ~close THEN goes ELSE stops
    BY DEF Hear
  <1> HIDE DEF r
  <1>2. s \in BatchStates
    BY DEF InStepStates
  <1>3. CASE s.stopped
    <2>1. r = s
      BY <1>1, <1>3
    <2> QED BY Zenon, <2>1 DEF r
  <1>4. CASE ~ s.stopped
    <2>1. PICK T \in Seq(TokenIds), ids0 \in Seq(TokenIds), f0 \in Texts : T = s.tape /\ ids0 = s.serial.ids /\ f0 = s.serial.fed
      BY <1>2 DEF BatchStates, Serials
    <2>2. NoStop(T) /\ (CutIn(T) \/ Follows(s.parser, T, ids0, f0, thinking, functions))
      BY Zenon, <1>4, <2>1 DEF BatchFollows
    <2>3. PICK n : n = IF id = Stop THEN <<>> ELSE <<id>>
      OBVIOUS
    <2>4. ids = <<id>> \/ (id = Stop /\ ids = <<>>)
      OBVIOUS
    <2>5. Heeded(T, id, ids, T \o ids, n)
      <3> HIDE DEF ids
      <3> QED BY <2>2, <2>3, <2>4, HeedIs
    <2>6. ids \in Seq(TokenIds)
      OBVIOUS
    <2>7. PICK V \in Seq(TokenIds) : V = T \o n
      BY Zenon, <2>5 DEF Heeded
    <2>8. /\ n \in Seq(TokenIds) /\ tape \in Seq(TokenIds) /\ NoStop(V) /\ Visible(tape) = V /\ (id # Stop => tape = V)
      BY Zenon, <2>1, <2>5, <2>7 DEF Heeded
    <2>9. CutIn(T) => CutIn(tape) /\ CutIn(Append(V, Shut))
      <3> HIDE DEF ids
      <3>1. ASSUME CutIn(T) PROVE CutIn(T \o ids)
        BY <2>6, <3>1, CutStays
      <3>2. PICK more \in Seq(TokenIds) : more = Append(n, Shut) /\ Append(T \o n, Shut) = T \o more
        <4>1. n \in Seq(TokenIds) /\ Shut \in TokenIds
          BY <2>8, NamedIds
        <4>2. Append(T \o n, Shut) = T \o Append(n, Shut) /\ Append(n, Shut) \in Seq(TokenIds)
          BY Zenon, <4>1, AppendJoin
        <4> QED BY Zenon, <4>2
      <3>3. ASSUME CutIn(T) PROVE CutIn(T \o more)
        BY <3>3, CutStays
      <3> QED BY Zenon, <2>1, <2>7, <3>1, <3>2, <3>3
    <2>10. known = ids0 \o n
      <3>1. Append(ids0, id) = ids0 \o <<id>> /\ ids0 \o <<>> = ids0
        OBVIOUS
      <3> QED BY Zenon, <2>1, <2>3, <3>1
    <2> HIDE DEF ids, known, tape
    <2>11. PICK all \in Seq(TokenIds) : all = known
      <3>1. ids0 \o n \in Seq(TokenIds)
        BY Zenon, <2>8, TokensJoin
      <3> QED BY Zenon, <2>10, <3>1
    <2>12. stable \in Texts
      <3>1. tail \in Texts
        <4>1. Len(all) \in Nat
          BY <2>11
        <4>2. Decode(all) \in Texts
          BY <4>1, DecodeIs
        <4> QED BY Zenon, <2>11, <4>2
      <3>2. Stable(tail) \in Texts
        BY <3>1, StableIs
      <3> HIDE DEF tail
      <3> QED BY <3>1, <3>2
    <2>13. eos \in {"none", "stop", "max"} /\ (eos = "none" => id # Stop)
      OBVIOUS
    <2> HIDE DEF eos
    <2>14. ~ CutIn(T) /\ eos = "none" => Follows(fed, V, all, stable, thinking, functions)
      <3>1. SUFFICES ASSUME ~ CutIn(T), eos = "none" PROVE Follows(fed, V, all, stable, thinking, functions)
        OBVIOUS
      <3>2. Follows(s.parser, T, ids0, f0, thinking, functions)
        BY <2>2, <3>1
      <3>3. FollowsOn(s.parser, T, ids0, f0, n, thinking, functions, Stable(Decode(ids0 \o n)))
        BY <2>8, <3>2, FollowsMore
      <3>4. stable = Stable(Decode(ids0 \o n))
        BY <2>10, <3>1
      <3> QED BY Zenon, <2>1, <2>7, <2>10, <2>11, <3>3, <3>4 DEF FollowsOn
    <2>15. ~ CutIn(T) /\ eos # "none" => HasAll(fed, V, thinking, functions)
      <3>1. SUFFICES ASSUME ~ CutIn(T), eos # "none" PROVE HasAll(fed, V, thinking, functions)
        OBVIOUS
      <3>2. Follows(s.parser, T, ids0, f0, thinking, functions)
        BY <2>2, <3>1
      <3>3. HasAll(Feed(s.parser, Unseen(f0, Decode(ids0 \o n))), T \o n, thinking, functions)
        BY <2>8, <3>2, FollowsToEnd
      <3>4. stable = Decode(ids0 \o n)
        BY <2>10, <3>1
      <3> QED BY Zenon, <2>1, <2>7, <3>3, <3>4
    <2> HIDE DEF stable, tail, fed
    <2>16. CASE ~ close
      <3>1. PICK task : task = [ids |-> known, fed |-> stable, left |-> s.serial.left - 1]
        OBVIOUS
      <3>2. PICK q : q = [s EXCEPT !.tape = tape, !.spent = count, !.parser = fed, !.heard = Heard(@, fed.out), !.final = eos, !.serial = task]
        OBVIOUS
      <3>3. r = q
        <4> HIDE DEF close, count
        <4> QED BY Zenon, <1>1, <1>4, <2>16, <3>1, <3>2
      <3>4. q.tape = tape /\ q.parser = fed /\ q.final = eos /\ q.serial = task /\ task.ids = all /\ task.fed = stable
        <4> HIDE DEF count
        <4> QED BY <1>2, <2>11, <3>1, <3>2 DEF BatchStates
      <3>5. q.final = "none" => NoStop(q.tape) /\ (CutIn(q.tape) \/ Follows(q.parser, q.tape, q.serial.ids, q.serial.fed, thinking, functions))
        BY Zenon, <2>8, <2>9, <2>13, <2>14, <3>4
      <3>6. q.final # "none" => CutIn(q.tape) \/ HasAll(q.parser, Visible(q.tape), thinking, functions)
        BY Zenon, <2>8, <2>9, <2>15, <3>4
      <3> QED BY Zenon, <3>3, <3>5, <3>6 DEF BatchFollows, r
    <2>17. CASE close
      <3> HIDE DEF close, count, budget
      <3>1. PICK none : none = <<>>
        OBVIOUS
      <3>2. PICK task : task = NewJob(Leftover(kept))
        OBVIOUS
      <3>3. PICK f \in Finals : f = IF Leftover(kept) <= 0 THEN "synthetic" ELSE "none"
        BY DEF Finals
      <3>4. PICK by : by = IF budget THEN "budget" ELSE "unterminated"
        OBVIOUS
      <3>5. PICK h : h = Heard(Heard(s.heard, fed.out), shut.out)
        OBVIOUS
      <3>6. PICK yes \in BOOLEAN : yes = TRUE
        OBVIOUS
      <3>7. PICK k \in Seq(TokenIds) : k = kept /\ k = Append(V, Shut) /\ NoStop(k) /\ Visible(k) = k
        BY Zenon, <2>8, ShutNoStop
      <3>8. r = [tape |-> k, spent |-> count, parser |-> shut, heard |-> h, final |-> f, serial |-> task,
                 closed_by |-> by, stopped |-> yes]
        BY Zenon, <1>1, <1>4, <2>17, <3>2, <3>3, <3>4, <3>5, <3>6, <3>7
      <3> HIDE DEF shut, kept
      <3>9. PICK q : q = r
        OBVIOUS
      <3>10. q.tape = k /\ q.parser = shut /\ q.final = f /\ q.serial = task
        BY <3>8, <3>9
      <3>11. task.ids = none /\ task.fed = none
        BY <3>1, <3>2 DEF NewJob
      <3>12. CutIn(k) \/ (Follows(shut, k, none, none, thinking, functions) /\ HasAll(shut, k, thinking, functions))
        <4>1. CASE CutIn(T)
          BY Zenon, <2>9, <3>7, <4>1
        <4>2. CASE ~ CutIn(T)
          <5>1. Follows(fed, V, all, stable, thinking, functions) \/ HasAll(fed, V, thinking, functions)
            BY <2>14, <2>15, <4>2
          <5>2. \/ CutIn(Append(V, Shut))
                \/ /\ Follows(Feed(fed, ClosingText), Append(V, Shut), <<>>, <<>>, thinking, functions)
                   /\ HasAll(Feed(fed, ClosingText), Append(V, Shut), thinking, functions)
            BY <2>12, <5>1, StopFollows
          <5> QED BY Zenon, <3>1, <3>7, <5>2 DEF shut
        <4> QED BY <4>1, <4>2
      <3>13. BatchFollows(q, thinking, functions)
        BY Zenon, <3>7, <3>10, <3>11, <3>12 DEF BatchFollows
      <3> QED BY Zenon, <3>9, <3>13 DEF r
    <2> QED BY <2>16, <2>17
  <1> QED BY <1>3, <1>4

\* A whole batch is heard.
LEMMA HearAllFollows ==
    ASSUME NEW included \in BOOLEAN, NEW batch \in Seq(TokenIds), BeforeBatch \in InStepStates,
           OnBatch(BeforeBatch, 0, Len(batch)),
           \A n \in 1..Len(batch) : batch[n] \in TokenIds /\ (n < Len(batch) => batch[n] # Stop),
           NEW thinking \in BOOLEAN, NEW functions, BatchFollows(BeforeBatch, thinking, functions)
    PROVE  BatchFollows(HearAll(included, batch), thinking, functions)
  <1>1. PICK N \in Nat : N = Len(batch)
    OBVIOUS
  <1>2. PICK S : S = [n \in 0..N |-> {x \in InStepStates : OnBatch(x, n, N) /\ BatchFollows(x, thinking, functions)}]
    OBVIOUS
  <1>3. /\ S \in [0..N -> SUBSET InStepStates]
        /\ \A n \in 0..N : S[n] = {x \in InStepStates : OnBatch(x, n, N) /\ BatchFollows(x, thinking, functions)}
    BY <1>2
  <1>4. 0 \in 0..N /\ N \in 0..N
    BY <1>1
  <1>5. BeforeBatch \in S[0]
    BY <1>1, <1>3, <1>4
  <1>6. ASSUME NEW n \in 1..N, NEW x \in S[n - 1] PROVE Hear(included, x, batch[n]) \in S[n]
    <2>1. n \in 0..N /\ n - 1 \in 0..N
      BY <1>1
    <2>2. x \in InStepStates /\ OnBatch(x, n - 1, N) /\ BatchFollows(x, thinking, functions)
      BY <1>3, <2>1
    <2>3. PICK id \in TokenIds : id = batch[n] /\ (n < N => id # Stop)
      BY <1>1
    <2>4. Hear(included, x, id) \in InStepStates
      BY <2>2, HearIs
    <2>5. OnBatch(Hear(included, x, id), n, N)
      BY <1>1, <2>2, <2>3, OnBatchMore
    <2>6. ~ x.stopped => x.final = "none"
      BY <1>1, <2>2 DEF OnBatch
    <2>7. BatchFollows(Hear(included, x, id), thinking, functions)
      BY <2>2, <2>6, HearFollows
    <2> QED BY <1>3, <2>1, <2>3, <2>4, <2>5, <2>7
  <1>7. HearAll(included, batch) \in S[N]
    BY <1>1, <1>3, <1>5, <1>6, HearAllKeeps
  <1> QED BY <1>1, <1>3, <1>4, <1>7

\* The parser of a turn follows its job; at the end it has all.
RollbackExact ==
    /\ setup.thinking \in BOOLEAN /\ setup.functions \in BOOLEAN
    /\ turnpc = "idle" => produced = <<>> /\ serial.ids = <<>> /\ serial.fed = <<>>
    /\ turnpc = "window" => /\ NoStop(produced)
                            /\ CutIn(produced)
                               \/ Follows(parser, produced, serial.ids, serial.fed, setup.thinking, setup.functions)
    /\ turnpc = "over" /\ ~cancelled =>
          CutIn(produced) \/ HasAll(parser, Visible(produced), setup.thinking, setup.functions)
    /\ turnpc \in {"told", "done"} => Exact

\* A batch of events is followed.
LEMMA IterateExact ==
    ASSUME RollbackTurnInv, RollbackExact, Iterate
    PROVE  RollbackExact'
  <1>1. PICK batch \in Pieces(setup.words, Min({2, serial.left})), included \in BOOLEAN, late \in BOOLEAN :
          LET s == HearAll(included, batch)
          IN  /\ produced' = s.tape /\ spent' = s.spent /\ parser' = s.parser /\ final' = s.final
              /\ serial' = s.serial /\ closed_by' = s.closed_by /\ cancelled' = late
              /\ Publish(s.heard)
              /\ turnpc' = IF s.final # "none" \/ late THEN "over" ELSE "window"
    BY DEF Iterate
  <1>2. turnpc = "window" /\ UNCHANGED setup
    BY DEF Iterate
  <1>3. /\ batch \in Seq(TokenIds) /\ BeforeBatch \in InStepStates /\ OnBatch(BeforeBatch, 0, Len(batch))
        /\ \A i \in 1..Len(batch) : batch[i] \in TokenIds /\ (i < Len(batch) => batch[i] # Stop)
    BY <1>2, BatchBegins
  <1>4. PICK th \in BOOLEAN, fn \in BOOLEAN : th = setup.thinking /\ fn = setup.functions
    BY DEF RollbackExact
  <1>5. final = "none" /\ NoStop(produced) /\ (CutIn(produced) \/ Follows(parser, produced, serial.ids, serial.fed, th, fn))
    BY <1>2, <1>4 DEF RollbackExact, RollbackTurnInv, RollbackJobs
  <1>6. BatchFollows(BeforeBatch, th, fn)
    <2>1. BeforeBatch.tape = produced /\ BeforeBatch.final = final /\ BeforeBatch.parser = parser /\ BeforeBatch.serial = serial
      BY DEF BeforeBatch
    <2>2. PICK b : b = BeforeBatch
      OBVIOUS
    <2>3. BatchFollows(b, th, fn)
      BY Zenon, <1>5, <2>1, <2>2 DEF BatchFollows
    <2> QED BY Zenon, <2>2, <2>3
  <1>7. PICK s : s = HearAll(included, batch)
    OBVIOUS
  <1>8. BatchFollows(s, th, fn)
    <2>1. BatchFollows(HearAll(included, batch), th, fn)
      BY <1>3, <1>6, HearAllFollows
    <2> QED BY Zenon, <1>7, <2>1
  <1>9. /\ produced' = s.tape /\ parser' = s.parser /\ final' = s.final /\ serial' = s.serial /\ cancelled' = late
        /\ turnpc' = IF s.final # "none" \/ late THEN "over" ELSE "window"
    BY Zenon, <1>1, <1>7
  <1>10. setup'.thinking = th /\ setup'.functions = fn
    BY <1>2, <1>4
  <1>11. /\ turnpc' \in {"over", "window"}
         /\ turnpc' = "window" => s.final = "none"
         /\ turnpc' = "over" /\ ~cancelled' => s.final # "none"
    BY <1>9
  <1>12. turnpc' = "window" => /\ NoStop(produced')
                               /\ CutIn(produced')
                                  \/ Follows(parser', produced', serial'.ids, serial'.fed, setup'.thinking, setup'.functions)
    BY Zenon, <1>8, <1>9, <1>10, <1>11 DEF BatchFollows
  <1>13. turnpc' = "over" /\ ~cancelled' =>
            CutIn(produced') \/ HasAll(parser', Visible(produced'), setup'.thinking, setup'.functions)
    BY Zenon, <1>8, <1>9, <1>10, <1>11 DEF BatchFollows
  <1> QED BY Zenon, <1>10, <1>11, <1>12, <1>13 DEF RollbackExact

\* A turn that is told has the whole text.
LEMMA GenerateExact ==
    ASSUME RollbackTurnInv, RollbackExact, FinishGenerate
    PROVE  RollbackExact'
  <1> DEFINE sequence == IF ~cancelled /\ final = "stop" /\ (produced = <<>> \/ Last(produced) # Stop)
                         THEN Append(produced, Stop) ELSE produced
             ended == IF cancelled THEN [status |-> "cancelled", reason |-> "none"]
                      ELSE IF final = "synthetic" THEN [status |-> "incomplete", reason |-> "reasoning_budget"]
                      ELSE IF final = "max" THEN [status |-> "incomplete", reason |-> "max_new_tokens"]
                      ELSE IF parser.channel = "reasoning"
                           THEN [status |-> "incomplete", reason |-> "unterminated_reasoning"]
                      ELSE [status |-> "completed", reason |-> "none"]
             xml   == IF ~cancelled /\ UnclosedToolXml(parser)
                      THEN [status |-> "incomplete",
                            reason |-> IF ended.reason # "none" THEN ended.reason ELSE "unclosed_tool_call"]
                      ELSE ended
             error == FinishError(parser, xml.status = "completed", setup.choice)
             m     == Message(parser, xml.status = "completed" /\ error = "none")
             v     == IF error = "none" THEN xml ELSE [status |-> "incomplete", reason |-> error]
  <1>1. /\ turnpc = "over" /\ turnpc' = "told" /\ produced' = sequence
        /\ error = "missing" => verdict' = [status |-> "failed", reason |-> "generation_failed"]
        /\ error # "missing" => verdict' = v /\ answer' = m
    BY Zenon DEF FinishGenerate
  <1>2. UNCHANGED <<setup, cancelled, parser>>
    BY DEF FinishGenerate
  <1>3. produced \in Seq(TokenIds) /\ cancelled \in BOOLEAN
    BY DEF RollbackTurnInv, TurnTypes
  <1>4. PICK th \in BOOLEAN, fn \in BOOLEAN : th = setup.thinking /\ fn = setup.functions
    BY DEF RollbackExact
  <1>5. PICK V : V = Visible(produced)
    OBVIOUS
  <1>6. ~ cancelled => CutIn(produced) \/ HasAll(parser, V, th, fn)
    BY Zenon, <1>1, <1>4, <1>5 DEF RollbackExact
  <1>7. Visible(sequence) = V /\ (CutIn(produced) => CutIn(sequence))
    <2>1. PICK one \in Seq(TokenIds), q \in Seq(TokenIds) : one = <<Stop>> /\ q = Append(produced, Stop) /\ q = produced \o one
      <3>1. PICK c \in TokenIds : c = Stop
        BY NamedIds
      <3>2. <<c>> \in Seq(TokenIds) /\ Append(produced, c) = produced \o <<c>> /\ Append(produced, c) \in Seq(TokenIds)
        BY <1>3
      <3> QED BY Zenon, <3>1, <3>2
    <2>2. Visible(q) = V
      <3>1. Stop \in TokenIds
        BY NamedIds
      <3>2. Visible(Append(produced, Stop)) = Seen(Visible(produced), Stop)
        BY <1>3, <3>1, VisibleMore
      <3> QED BY Zenon, <1>5, <2>1, <3>2 DEF Seen
    <2>3. CutIn(produced) => CutIn(q)
      BY <1>3, <2>1, CutStays
    <2>4. sequence = q \/ sequence = produced
      BY <2>1
    <2> HIDE DEF sequence
    <2> QED BY Zenon, <1>5, <2>2, <2>3, <2>4
  <1> HIDE DEF sequence
  <1>8. ASSUME cancelled PROVE verdict'.status = "cancelled"
    <2>1. ended.status = "cancelled" /\ xml = ended
      BY <1>8
    <2> HIDE DEF ended, xml
    <2>2. error = "none"
      <3>1. xml.status # "completed"
        BY <2>1
      <3> QED BY <3>1 DEF FinishError
    <2>3. verdict' = xml
      BY Zenon, <1>1, <2>2
    <2> QED BY <2>1, <2>3
  <1>9. PICK complete : complete = (xml.status = "completed" /\ error = "none")
    OBVIOUS
  <1>10. m = Message(parser, complete)
    BY Zenon, <1>9
  <1>11. ASSUME HasAll(parser, V, th, fn) PROVE WholeAnswer(Message(parser, complete), V, th, fn)
    BY <1>11, AllAnswered
  <1> HIDE DEF m, v, xml, ended, error
  <1>12. error = "missing" => verdict'.status = "failed"
    BY <1>1
  <1>13. ASSUME verdict'.status \in {"completed", "incomplete"} PROVE CutIn(produced') \/ WholeAnswer(answer', V, th, fn)
    <2>1. ~ cancelled /\ error # "missing"
      BY <1>8, <1>12, <1>13
    <2> QED BY Zenon, <1>1, <1>6, <1>7, <1>10, <1>11, <2>1
  <1>14. Exact'
    <2>1. Visible(produced') = V /\ setup'.thinking = th /\ setup'.functions = fn
      BY <1>1, <1>2, <1>4, <1>7
    <2> QED BY Zenon, <1>13, <2>1 DEF Exact
  <1>15. setup'.thinking \in BOOLEAN /\ setup'.functions \in BOOLEAN /\ turnpc' = "told"
    BY <1>1, <1>2, <1>4
  <1> QED BY Zenon, <1>14, <1>15 DEF RollbackExact

\* However the tokens of a turn of the ExLlama engine come in batches and jobs, and whether
\* or not the end token is among them, its message is the split of the whole text
\* (src/qwasar_runtime/engine.py).
THEOREM RollbackAnswerExact == RollbackTurnSpec => []AnswerExact
  <1>1. TurnInit /\ RollbackTurnInit => RollbackExact
    <2> SUFFICES ASSUME TurnInit, RollbackTurnInit PROVE RollbackExact
      OBVIOUS
    <2>1. turnpc = "idle" /\ produced = <<>> /\ serial.ids = <<>> /\ serial.fed = <<>>
      BY DEF TurnInit, RollbackTurnInit, NewJob
    <2>2. setup.thinking \in BOOLEAN /\ setup.functions \in BOOLEAN
      BY DEF TurnInit
    <2> QED BY <2>1, <2>2 DEF RollbackExact
  <1>2. ASSUME RollbackTurnInv, RollbackExact, [RollbackTurnNext]_<<turnVars, rollbackTurnVars>>
        PROVE  RollbackExact'
    <2>1. CASE \E thinking \in BOOLEAN : StartTurn(thinking) /\ UNCHANGED rollbackTurnVars
      <3>1. PICK thinking \in BOOLEAN : StartTurn(thinking) /\ UNCHANGED rollbackTurnVars
        BY <2>1
      <3>2. /\ setup'.thinking \in BOOLEAN /\ setup'.functions \in BOOLEAN
            /\ Follows(parser', <<>>, <<>>, <<>>, setup'.thinking, setup'.functions)
        BY <3>1, StartFollows
      <3>3. turnpc = "idle" /\ turnpc' = "window" /\ produced' = produced /\ UNCHANGED <<serial, final>>
        BY <3>1 DEF StartTurn, rollbackTurnVars
      <3>4. produced = <<>> /\ serial.ids = <<>> /\ serial.fed = <<>>
        BY <1>2, <3>3 DEF RollbackExact
      <3>5. NoStop(produced') /\ produced' = <<>> /\ serial'.ids = <<>> /\ serial'.fed = <<>>
        BY <3>3, <3>4 DEF NoStop
      <3>6. Follows(parser', produced', serial'.ids, serial'.fed, setup'.thinking, setup'.functions)
        BY Zenon, <3>2, <3>5
      <3> QED BY <3>2, <3>3, <3>5, <3>6 DEF RollbackExact
    <2>2. CASE ServerFinish /\ UNCHANGED rollbackTurnVars
      <3>1. turnpc = "told" /\ turnpc' = "done" /\ UNCHANGED <<setup, produced, parser, verdict, answer>>
        BY <2>2 DEF ServerFinish
      <3>2. Exact'
        <4>1. Exact
          BY <1>2, <3>1 DEF RollbackExact
        <4> QED BY Zenon, <3>1, <4>1 DEF Exact
      <3> QED BY <1>2, <3>1, <3>2 DEF RollbackExact
    <2>3. CASE CancelAtHead
      <3>1. turnpc' = "over" /\ cancelled' /\ UNCHANGED setup
        BY <2>3 DEF CancelAtHead
      <3> QED BY <1>2, <3>1 DEF RollbackExact
    <2>4. CASE UNCHANGED <<turnVars, rollbackTurnVars>>
      <3>1. UNCHANGED <<setup, turnpc, produced, spent, closed_by, cancelled, parser, told, wires, verdict, answer>>
            /\ UNCHANGED <<serial, final>>
        BY <2>4 DEF turnVars, rollbackTurnVars
      <3>2. Exact <=> Exact'
        BY Zenon, <3>1 DEF Exact
      <3> QED BY Zenon, <1>2, <3>1, <3>2 DEF RollbackExact
    <2> QED BY <1>2, <2>1, <2>2, <2>3, <2>4, IterateExact, GenerateExact DEF RollbackTurnNext
  <1>3. RollbackExact => AnswerExact
    BY ExactAnswers DEF RollbackExact
  <1> QED BY <1>1, <1>2, <1>3, RollbackTurnInvariant, PTL DEF RollbackTurnSpec
=============================================================================
