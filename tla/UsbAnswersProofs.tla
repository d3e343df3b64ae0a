-------------------------- MODULE UsbAnswersProofs --------------------------
(***************************************************************************)
(* Proofs about the replies of UsbDevice, for every value of its           *)
(* constants: what a successful execute returns is what it asked for.      *)
(***************************************************************************)
EXTENDS UsbExecuteProofs, SequenceTheorems

USE DEF Phases, vars, sessionVars, receiveVars, readerVars, callerVars,
        localVars, driverVars, boardVars, ghostVars

-----------------------------------------------------------------------------
\* The flits of a channel, from the board's place to the decoder's.

\* Which flit comes next in a channel, None between packets.  The board's is
\* sending; the decoder's follows from the partial packet.
Cursor(packet) ==
    IF packet = <<>> THEN None
    ELSE [reply |-> packet[1].reply, place |-> Len(packet) + 1]
DecoderAt(packets) == [c \in Channels |-> Cursor(packets[c])]

Fits(at, record) ==
    IF at[record.channel] = None THEN record.flit.place = 1
    ELSE /\ record.flit.reply = at[record.channel].reply
         /\ record.flit.place = at[record.channel].place
Advance(at, record) ==
    [at EXCEPT ![record.channel] = Rest(record.flit.reply, record.flit.place)]

(***************************************************************************)
(* The records lead from the cursors `from' to the cursors `to' without a  *)
(* gap in any channel, however the channels are interleaved.               *)
(***************************************************************************)
Carries(from, records, to) ==
    \E at :
        /\ at[0] = from /\ at[Len(records)] = to
        /\ \A i \in 1..Len(records) :
              Fits(at[i - 1], records[i]) /\ at[i] = Advance(at[i - 1], records[i])

\* No record leads nowhere else.
LEMMA CarriesNothing ==
  ASSUME NEW from, NEW to
  PROVE  Carries(from, <<>>, to) <=> from = to
<1>1. Len(<<>>) = 0 /\ 1..0 = {}
  OBVIOUS
<1>2. ASSUME Carries(from, <<>>, to) PROVE from = to
  BY <1>1, <1>2 DEF Carries
<1>3. ASSUME from = to PROVE Carries(from, <<>>, to)
  <2> DEFINE at == [i \in {0} |-> from]
  <2>1. at[0] = from /\ at[Len(<<>>)] = to /\ \A i \in 1..Len(<<>>) : FALSE
    BY <1>1, <1>3
  <2> HIDE DEF at
  <2> QED
    BY <2>1 DEF Carries
<1> QED
  BY <1>2, <1>3

\* A record that fits where the last one led.
LEMMA CarriesMore ==
  ASSUME NEW from, NEW to, NEW records \in Seq(Record), NEW record \in Record,
         Carries(from, records, to), Fits(to, record)
  PROVE  Carries(from, Append(records, record), Advance(to, record))
<1> DEFINE n == Len(records)
           longer == Append(records, record)
<1>1. PICK at : /\ at[0] = from /\ at[n] = to
                /\ \A i \in 1..n : /\ Fits(at[i - 1], records[i])
                                   /\ at[i] = Advance(at[i - 1], records[i])
  BY DEF Carries
<1> DEFINE next == [i \in 0..n + 1 |-> IF i = n + 1 THEN Advance(to, record) ELSE at[i]]
<1>2. n \in Nat /\ Len(longer) = n + 1 /\ longer[n + 1] = record
      /\ \A i \in 1..n : longer[i] = records[i]
  OBVIOUS
<1>3. next[0] = from /\ next[Len(longer)] = Advance(to, record) /\ next[n] = to
  BY <1>1, <1>2
<1>4. ASSUME NEW i \in 1..Len(longer)
      PROVE  Fits(next[i - 1], longer[i]) /\ next[i] = Advance(next[i - 1], longer[i])
  <2>1. CASE i = n + 1
    <3>1. i - 1 = n /\ longer[i] = record /\ next[i] = Advance(to, record)
      BY <1>2, <2>1
    <3> HIDE DEF next, longer
    <3> QED
      BY <1>3, <3>1
  <2>2. CASE i # n + 1
    <3>1. i \in 1..n /\ next[i] = at[i] /\ next[i - 1] = at[i - 1] /\ longer[i] = records[i]
      BY <1>2, <2>2
    <3> HIDE DEF next, longer
    <3> QED
      BY <1>1, <3>1
  <2> QED
    BY <2>1, <2>2
<1> HIDE DEF next, longer
<1> QED
  BY <1>3, <1>4 DEF Carries, longer

\* The first record fits where the records lead from.
LEMMA CarriesFirst ==
  ASSUME NEW from, NEW to, NEW records \in Seq(Record),
         Carries(from, records, to), records # <<>>
  PROVE  /\ Fits(from, Head(records))
         /\ Carries(Advance(from, Head(records)), Tail(records), to)
<1> DEFINE n == Len(records)
<1>1. PICK at : /\ at[0] = from /\ at[n] = to
                /\ \A i \in 1..n : /\ Fits(at[i - 1], records[i])
                                   /\ at[i] = Advance(at[i - 1], records[i])
  BY DEF Carries
<1> DEFINE next == [i \in 0..n - 1 |-> at[i + 1]]
           rest == Tail(records)
<1>2. /\ n \in Nat \ {0} /\ Head(records) = records[1]
      /\ Len(rest) = n - 1 /\ \A i \in 1..n - 1 : rest[i] = records[i + 1]
  OBVIOUS
<1>3. Fits(from, Head(records)) /\ at[1] = Advance(from, Head(records))
  <2>1. 1 \in 1..n /\ 1 - 1 = 0
    BY <1>2
  <2> QED
    BY <1>1, <1>2, <2>1
<1>4. next[0] = Advance(from, Head(records)) /\ next[Len(rest)] = to
  <2>1. next[0] = at[1] /\ next[n - 1] = at[n]
    BY <1>2
  <2> HIDE DEF next
  <2> QED
    BY <1>1, <1>2, <1>3, <2>1
<1>5. ASSUME NEW i \in 1..Len(rest)
      PROVE  Fits(next[i - 1], rest[i]) /\ next[i] = Advance(next[i - 1], rest[i])
  <2>1. /\ i + 1 \in 1..n /\ (i + 1) - 1 = i
        /\ rest[i] = records[i + 1] /\ next[i] = at[i + 1] /\ next[i - 1] = at[i]
    BY <1>2
  <2> HIDE DEF next, rest
  <2> QED
    BY <1>1, <2>1
<1> HIDE DEF next
<1> QED
  BY <1>3, <1>4, <1>5 DEF Carries

-----------------------------------------------------------------------------
\* The records between the board and the decoder.

\* What the receive thread read and has not delivered, and the whole stream.
Loose == IF reader \in {"append", "deliver"} THEN chunk ELSE <<>>
Stream == Loose \o wire

\* The stream is a sequence of records, as long as its parts.
LEMMA StreamType ==
  ASSUME ReceiveType
  PROVE  /\ Loose \in Seq(Record) /\ Stream \in Seq(Record)
         /\ Len(Stream) = Len(Loose) + Len(wire)
  BY DEF ReceiveType, Loose, Stream

\* A driver call moves records from the host controller to the reader.
LEMMA ReadKeepsStream ==
  ASSUME ReceiveType, ReaderRead
  PROVE  /\ Stream' = Stream
         /\ Len(chunk') + Len(wire') = Len(wire)
<1>1. PICK n \in 0..ReadRecords :
         /\ n <= Len(wire)
         /\ chunk' = SubSeq(wire, 1, n)
         /\ wire' = SubSeq(wire, n + 1, Len(wire))
  BY DEF ReaderRead, TakeFromWire
<1>2. wire \in Seq(Record) /\ n \in Nat
  BY ConstantAssumption DEF ReceiveType
<1>3. SubSeq(wire, 1, n) \o SubSeq(wire, n + 1, Len(wire)) = wire
  <2>1. /\ 1 \in 1..Len(wire) + 1 /\ n \in 1 - 1..Len(wire)
        /\ Len(wire) \in n..Len(wire)
    BY <1>1, <1>2
  <2>2. SubSeq(wire, 1, n) \o SubSeq(wire, n + 1, Len(wire)) = SubSeq(wire, 1, Len(wire))
    BY <1>2, <2>1, ConcatAdjacentSubSeq
  <2> QED
    BY <1>2, <2>2, SubSeqFull
<1>4. Loose = <<>> /\ Loose' = chunk'
  BY DEF ReaderRead, Loose
<1>5. <<>> \o wire = wire
  BY <1>2
<1>6. Len(SubSeq(wire, 1, n)) + Len(SubSeq(wire, n + 1, Len(wire))) = Len(wire)
  <2>1. SubSeq(wire, 1, n) \in Seq(Record) /\ SubSeq(wire, n + 1, Len(wire)) \in Seq(Record)
    BY <1>1, <1>2
  <2> QED
    BY <1>3, <2>1, ConcatProperties
<1> QED
  BY <1>1, <1>3, <1>4, <1>5, <1>6 DEF Stream

\* Delivering takes the first record of the stream.
LEMMA DeliverTakesFirst ==
  ASSUME ReceiveType, ReaderDeliver
  PROVE  /\ Stream # <<>> /\ Head(Stream) = Head(chunk) /\ Stream' = Tail(Stream)
         /\ Head(chunk) \in Record
<1>1. /\ chunk \in Seq(Record) /\ wire \in Seq(Record) /\ chunk # <<>>
      /\ Loose = chunk /\ Loose' = Tail(chunk) /\ wire' = wire
  BY DEF ReaderDeliver, DeliverRecord, ReceiveType, Loose
<1>2. /\ chunk \o wire # <<>> /\ Head(chunk \o wire) = Head(chunk)
      /\ Tail(chunk) \o wire = Tail(chunk \o wire)
  BY <1>1
<1> QED
  BY <1>1, <1>2 DEF Stream

\* What the board sends comes last.
LEMMA SendAppends ==
  ASSUME ReceiveType, NEW record \in Record,
         wire' = Append(wire, record), UNCHANGED <<reader, chunk>>
  PROVE  Stream' = Append(Stream, record)
<1>1. Loose' = Loose /\ Loose \in Seq(Record) /\ wire \in Seq(Record)
  BY DEF ReceiveType, Loose
<1>2. Loose \o Append(wire, record) = Append(Loose \o wire, record)
  BY <1>1
<1> QED
  BY <1>1, <1>2 DEF Stream

-----------------------------------------------------------------------------
\* How many flits may still come.

\* The replies of the batch that the board was not asked for or has not begun.
Due(batch, known, replies) ==
    Cardinality(Targets(batch) \ known) + Cardinality(replies)

\* Their flits.
Demand(batch, known, replies) == PacketFlits * Due(batch, known, replies)

\* The flits of the reply each channel has begun.
RestHeight(at) ==
    [c \in Channels |-> IF at[c] = None THEN 0 ELSE PacketFlits + 1 - at[c].place]

\* The records read that are not yet taken off the budget.
Unbudgeted == IF reader = "append" THEN Len(chunk) ELSE 0

Supply ==
    Demand(CurrentBatch, asked, owed) + Total(RestHeight(sending))
        + Len(wire) + Unbudgeted

\* The records admitted that can no longer come.
Slack == remaining - Supply

\* The rest of a packet is a height.
LEMMA RestHeightType ==
  ASSUME BoardType
  PROVE  RestHeight(sending) \in Heights
  BY ConstantAssumption DEF BoardType, RestHeight, Heights

\* Taking a flit of a packet that was begun, or of one that was not.
LEMMA TakeCounted ==
  ASSUME BoardType, IsFiniteSet(owed), NEW c \in Channels, NEW reply,
         NEW place \in 1..PacketFlits, TakeFlit(c, reply, place)
  PROVE  PacketFlits * Cardinality(owed') + Total(RestHeight(sending'))
           = PacketFlits * Cardinality(owed) + Total(RestHeight(sending)) - 1
<1> DEFINE h == RestHeight(sending)
<1>1. h \in Heights /\ Total(h) \in Nat
  BY RestHeightType, CellsFinite
<1>2. RestHeight(sending') = [h EXCEPT ![c] = PacketFlits - place]
  <2>1. sending' = [sending EXCEPT ![c] = Rest(reply, place)]
    BY DEF TakeFlit
  <2>2. reply \in Reply
    BY DEF TakeFlit, BoardType
  <2>3. Rest(reply, place) = None => place = PacketFlits
    BY <2>2, SendingAssumption, ConstantAssumption DEF Rest
  <2>4. Rest(reply, place) # None => Rest(reply, place).place = place + 1
    BY DEF Rest
  <2>5. (IF Rest(reply, place) = None THEN 0 ELSE PacketFlits + 1 - Rest(reply, place).place)
           = PacketFlits - place
    BY <2>3, <2>4, ConstantAssumption
  <2> QED
    BY <2>1, <2>5 DEF RestHeight, BoardType
<1>3. PacketFlits - place \in 0..PacketFlits
  BY ConstantAssumption
<1>4. Total(RestHeight(sending')) = Total(h) - h[c] + (PacketFlits - place)
  BY <1>1, <1>2, <1>3, TotalUpdate
<1>5. CASE sending[c] # None /\ place = sending[c].place /\ UNCHANGED owed
  <2>1. h[c] = PacketFlits + 1 - place
    BY <1>5 DEF RestHeight
  <2>2. Cardinality(owed) \in Nat
    BY FS_CardinalityType
  <2>3. PacketFlits * Cardinality(owed) \in Int
    BY <2>2, ConstantAssumption
  <2> HIDE DEF h
  <2>4. Total(RestHeight(sending')) = Total(h) - 1
    BY <1>1, <1>4, <2>1, ConstantAssumption
  <2> QED
    BY <1>1, <1>5, <2>3, <2>4 DEF h
<1>6. CASE sending[c] = None /\ place = 1 /\ reply \in owed /\ owed' = owed \ {reply}
  <2>1. h[c] = 0
    BY <1>6 DEF RestHeight
  <2>2. Cardinality(owed') = Cardinality(owed) - 1 /\ Cardinality(owed) \in Nat
    BY <1>6, FS_RemoveElement, FS_CardinalityType
  <2> DEFINE k == Cardinality(owed)
  <2>3. k \in Int /\ Cardinality(owed') = k - 1
    BY <2>2
  <2> HIDE DEF h, k
  <2>4. PacketFlits * (k - 1) = PacketFlits * k - PacketFlits /\ PacketFlits * k \in Int
    BY <2>3, ConstantAssumption
  <2>5. Total(RestHeight(sending')) = Total(h) + (PacketFlits - 1)
    BY <1>1, <1>4, <1>6, <2>1, ConstantAssumption
  <2>6. PacketFlits * (k - 1) + Total(RestHeight(sending')) = PacketFlits * k + Total(h) - 1
    BY <1>1, <2>4, <2>5, ConstantAssumption
  <2> QED
    BY <2>3, <2>6 DEF h, k
<1> QED
  BY <1>5, <1>6 DEF TakeFlit

\* The flits that may still come are a number.
LEMMA SupplyType ==
  ASSUME TypeOK, ControlOK, InBatch, IsFiniteSet(owed)
  PROVE  /\ Due(CurrentBatch, asked, owed) \in Nat
         /\ Demand(CurrentBatch, asked, owed) \in Nat
         /\ Total(RestHeight(sending)) \in Nat
         /\ Len(wire) \in Nat /\ Unbudgeted \in Nat
         /\ Supply \in Nat /\ Slack \in Int
<1> USE DEF TypeOK
<1>1. IsFiniteSet(Targets(CurrentBatch) \ asked)
  BY BatchKnown, TargetsFinite, FS_Difference
<1>2. Due(CurrentBatch, asked, owed) \in Nat
  BY <1>1, FS_CardinalityType DEF Due
<1>3. Demand(CurrentBatch, asked, owed) \in Nat
  BY <1>2, ConstantAssumption DEF Demand
<1>4. Total(RestHeight(sending)) \in Nat
  BY RestHeightType, CellsFinite
<1>5. Len(wire) \in Nat /\ Unbudgeted \in Nat /\ remaining \in Nat
  BY DEF ReceiveType, Unbudgeted
<1>6. Supply \in Nat
  BY <1>3, <1>4, <1>5 DEF Supply
<1> QED
  BY <1>2, <1>3, <1>4, <1>5, <1>6 DEF Slack

-----------------------------------------------------------------------------
\* What the steps of an awaited batch do to the stream.

\* The replies a request makes the board owe.
Answers(keys) ==
    {[key |-> k, macro |-> selected, work |-> work,
      call |-> calls, pll |-> pllRegister] : k \in keys}

\* A request moves targets from those not asked for to those owed.
LEMMA RequestCounted ==
  ASSUME NEW batch \in Batch, IsFiniteSet(owed),
         NEW new \in SUBSET (Targets(batch) \ asked)
  PROVE  /\ IsFiniteSet(owed \cup Answers(new))
         /\ Due(batch, asked \cup new, owed \cup Answers(new)) <= Due(batch, asked, owed)
         /\ Due(batch, asked \cup new, owed \cup Answers(new)) \in Nat
         /\ Due(batch, asked, owed) \in Nat
<1> DEFINE answer == [k \in new |-> [key |-> k, macro |-> selected, work |-> work,
                                     call |-> calls, pll |-> pllRegister]]
<1>1. IsFiniteSet(Targets(batch) \ asked) /\ IsFiniteSet(new)
  BY TargetsFinite, FS_Difference, FS_Subset
<1>2. answer \in Surjection(new, Answers(new))
  BY DEF Answers, Surjection
<1>3. IsFiniteSet(Answers(new)) /\ Cardinality(Answers(new)) <= Cardinality(new)
  BY <1>1, <1>2, FS_Surjection
<1>4. /\ IsFiniteSet(owed \cup Answers(new))
      /\ Cardinality(owed \cup Answers(new))
           = Cardinality(owed) + Cardinality(Answers(new)) - Cardinality(owed \cap Answers(new))
  BY <1>3, FS_Union
<1>5. IsFiniteSet(owed \cap Answers(new))
  BY FS_Intersection
<1>6. Targets(batch) \ (asked \cup new) = (Targets(batch) \ asked) \ new
  OBVIOUS
<1>7. (Targets(batch) \ asked) \cap new = new
  OBVIOUS
<1>8. /\ IsFiniteSet((Targets(batch) \ asked) \ new)
      /\ Cardinality((Targets(batch) \ asked) \ new)
           = Cardinality(Targets(batch) \ asked) - Cardinality((Targets(batch) \ asked) \cap new)
  BY <1>1, FS_Difference
<1>9. /\ Cardinality(Targets(batch) \ (asked \cup new))
           = Cardinality(Targets(batch) \ asked) - Cardinality(new)
      /\ Cardinality(Targets(batch) \ (asked \cup new)) \in Nat
  BY <1>6, <1>7, <1>8, FS_CardinalityType
<1>10. /\ Cardinality(new) \in Nat /\ Cardinality(owed) \in Nat
       /\ Cardinality(Answers(new)) \in Nat
       /\ Cardinality(owed \cap Answers(new)) \in Nat
       /\ Cardinality(owed \cup Answers(new)) \in Nat
       /\ Cardinality(Targets(batch) \ asked) \in Nat
  BY <1>1, <1>3, <1>4, <1>5, FS_CardinalityType
<1> HIDE DEF answer
<1> QED
  BY <1>3, <1>4, <1>9, <1>10 DEF Due

\* None is lost if the board owes only what it was asked for.
LEMMA RequestExact ==
  ASSUME NEW batch \in Batch, IsFiniteSet(owed),
         NEW new \in SUBSET (Targets(batch) \ asked), \A r \in owed : r.key \in asked
  PROVE  Due(batch, asked \cup new, owed \cup Answers(new)) = Due(batch, asked, owed)
<1> DEFINE answer == [k \in new |-> [key |-> k, macro |-> selected, work |-> work,
                                     call |-> calls, pll |-> pllRegister]]
           rest == Targets(batch) \ (asked \cup new)
<1>1. IsFiniteSet(Targets(batch) \ asked) /\ IsFiniteSet(new) /\ IsFiniteSet(rest)
  BY TargetsFinite, FS_Difference, FS_Subset
<1>2. answer \in Bijection(new, Answers(new))
  <2>1. answer \in [new -> Answers(new)]
    BY DEF Answers
  <2>2. \A k \in new : answer[k].key = k
    OBVIOUS
  <2>3. \A r \in Answers(new) : \E k \in new : answer[k] = r
    BY DEF Answers
  <2> HIDE DEF answer
  <2> QED
    BY <2>1, <2>2, <2>3 DEF Bijection, Injection, IsInjective, Surjection
<1>3. IsFiniteSet(Answers(new)) /\ Cardinality(Answers(new)) = Cardinality(new)
  BY <1>1, <1>2, FS_Bijection DEF ExistsBijection
<1>4. owed \cap Answers(new) = {}
  BY DEF Answers
<1>5. Cardinality(owed \cup Answers(new)) = Cardinality(owed) + Cardinality(new)
  <2>1. Cardinality(owed \cup Answers(new))
          = Cardinality(owed) + Cardinality(Answers(new)) - Cardinality(owed \cap Answers(new))
    BY <1>3, FS_Union
  <2>2. /\ Cardinality(owed \cap Answers(new)) = 0
        /\ Cardinality(owed) \in Nat /\ Cardinality(new) \in Nat
    BY <1>1, <1>4, FS_EmptySet, FS_CardinalityType
  <2> QED
    BY <1>3, <2>1, <2>2
<1>6. Cardinality(Targets(batch) \ asked) = Cardinality(rest) + Cardinality(new)
  <2>1. Targets(batch) \ asked = rest \cup new /\ rest \cap new = {}
    OBVIOUS
  <2>2. Cardinality(rest \cup new)
          = Cardinality(rest) + Cardinality(new) - Cardinality(rest \cap new)
    BY <1>1, FS_Union
  <2>3. /\ Cardinality(rest \cap new) = 0
        /\ Cardinality(rest) \in Nat /\ Cardinality(new) \in Nat
    BY <1>1, <2>1, FS_EmptySet, FS_CardinalityType
  <2>4. Cardinality(rest \cup new) = Cardinality(rest) + Cardinality(new)
    BY <2>2, <2>3
  <2> HIDE DEF rest
  <2> QED
    BY <2>1, <2>4, Zenon
<1>7. Cardinality(owed) \in Nat /\ Cardinality(rest) \in Nat /\ Cardinality(new) \in Nat
  BY <1>1, FS_CardinalityType
<1> QED
  BY <1>5, <1>6, <1>7 DEF Due

(***************************************************************************)
(* While the batch and what the board owes of it stay, the records that    *)
(* can no longer come follow from those that are on their way.             *)
(***************************************************************************)
LEMMA SlackThen ==
  ASSUME TypeOK, ControlOK, InBatch, IsFiniteSet(owed),
         UNCHANGED <<program, batchIndex, asked, owed, sending>>,
         NEW d \in Int, remaining' \in Int, Len(wire') \in Int, Unbudgeted' \in Int,
         remaining' - Len(wire') - Unbudgeted' = remaining - Len(wire) - Unbudgeted + d
  PROVE  Slack' = Slack + d
<1> DEFINE due == Demand(CurrentBatch, asked, owed)
           rest == Total(RestHeight(sending))
<1>1. due \in Int /\ rest \in Int /\ Len(wire) \in Int /\ Unbudgeted \in Int
      /\ remaining \in Int
  <2>1. due \in Nat /\ rest \in Nat /\ Len(wire) \in Nat /\ Unbudgeted \in Nat
    BY SupplyType, Zenon
  <2>2. remaining \in Nat
    BY Zenon DEF TypeOK, ReceiveType
  <2> HIDE DEF due, rest
  <2>3. \A n \in Nat : n \in Int
    OBVIOUS
  <2> QED
    BY <2>1, <2>2, <2>3, Zenon
<1>2. Slack = remaining - (due + rest + Len(wire) + Unbudgeted)
  BY DEF Slack, Supply
<1>3. Slack' = remaining' - (due + rest + Len(wire') + Unbudgeted')
  BY Zenon DEF Slack, Supply, CurrentBatch
<1>4. PICK left, length, held :
         left = remaining' /\ length = Len(wire') /\ held = Unbudgeted'
  OBVIOUS
<1>5. /\ left \in Int /\ length \in Int /\ held \in Int
      /\ left - length - held = remaining - Len(wire) - Unbudgeted + d
  BY <1>4, Zenon
<1> HIDE DEF due, rest
<1>6. left - (due + rest + length + held) = Slack + d
  BY <1>1, <1>2, <1>5
<1> QED
  BY <1>3, <1>4, <1>6, Zenon

-----------------------------------------------------------------------------
\* What the steps of an awaited batch do to the stream.

\* The stream and what it comes from and leads to stay as they are.
Quiet ==
    /\ UNCHANGED <<asked, owed, sending, partial, responses, readbacks, wanted>>
    /\ Stream' = Stream /\ Slack' = Slack

\* The board takes a flit; it comes last in the stream, or is lost.
Sends(c, reply, place, damage) ==
    /\ TakeFlit(c, reply, place)
    /\ wire' = Append(wire, NextFlit(c, reply, place, damage))
Loses(c, reply, place) ==
    TakeFlit(c, reply, place) /\ UNCHANGED wire

(***************************************************************************)
(* The steps of an awaited batch, by what they do to the stream.           *)
(***************************************************************************)
LEMMA StreamSteps ==
  ASSUME IInv, [Next]_vars, Awaiting, Awaiting', IsFiniteSet(owed)
  PROVE  /\ UNCHANGED <<program, batchIndex, calls, pllVerified, workPhase>>
         /\ \/ WriteChunk /\ job = "request"
            \/ TakeResponse /\ Acceptable(Head(responses))
            \/ ReaderDeliver
            \/ ReaderAppend /\ RefuseChunk
            \/ Quiet
            \/ /\ \E c \in Channels, reply \in InFlight, place \in 1..PacketFlits :
                     \/ \E damage \in Damage :
                           /\ Sends(c, reply, place, damage)
                           /\ damage = "sound" \/ Mishap
                     \/ Loses(c, reply, place) /\ Mishap
               /\ UNCHANGED <<asked, partial, responses, readbacks, wanted, remaining,
                              reader, chunk>>
            \/ LinkDrop
<1>0. /\ ReceiveType /\ CallerType /\ BoardType /\ TypeOK /\ ControlOK /\ InBatch
      /\ ReceiveType'
  <2>1. TypeOK /\ ControlOK
    BY DEF IInv
  <2> QED
    BY <2>1, ReceiveStep DEF TypeOK, Awaiting, InBatch
<1>1. \/ WriteChunk /\ job = "request"
      \/ TakeResponse /\ Acceptable(Head(responses))
      \/ Reader \/ Environment \/ UNCHANGED vars
  <2>1. ~Arm
    BY DEF Arm, Awaiting
  <2> QED
    BY <1>0, <2>1, AwaitingSteps
<1>2. CASE WriteChunk /\ job = "request"
  BY <1>2 DEF WriteChunk, WriteOnly
<1>3. CASE TakeResponse /\ Acceptable(Head(responses))
  BY <1>3 DEF TakeResponse, ReadbackOnly, ExecuteOnly
<1>4. CASE Reader
  <2>1. UNCHANGED <<program, batchIndex, calls, pllVerified, workPhase,
                    asked, wanted, readbacks, owed, sending>>
    BY <1>4
    DEF Reader, ReaderStart, ReaderCheck, ReaderRead, ReaderReadNothing,
        ReaderReadError, ReaderAppend, ReaderDeliver, ReaderDelivered, ReaderOnly
  <2>2. ASSUME partial' = partial, responses' = responses, Stream' = Stream,
               remaining' \in Int, Len(wire') \in Int, Unbudgeted' \in Int,
               remaining' - Len(wire') - Unbudgeted' = remaining - Len(wire) - Unbudgeted
        PROVE  Quiet
    <3>1. /\ remaining - Len(wire) - Unbudgeted + 0 = remaining - Len(wire) - Unbudgeted
          /\ 0 \in Int
      BY <1>0 DEF ReceiveType, Unbudgeted
    <3>2. Slack' = Slack + 0
      BY <1>0, <2>1, <2>2, <3>1, SlackThen, Zenon
    <3>3. Slack + 0 = Slack
      BY <1>0, SupplyType
    <3> QED
      BY <2>1, <2>2, <3>2, <3>3, Zenon DEF Quiet
  <2>3. CASE ReaderRead
    <3>1. Stream' = Stream /\ Len(chunk') + Len(wire') = Len(wire)
      BY <1>0, <2>3, ReadKeepsStream
    <3>2. /\ reader = "read" /\ reader' = "append"
          /\ partial' = partial /\ responses' = responses /\ remaining' = remaining
      BY <2>3 DEF ReaderRead
    <3>3. Len(chunk') + Len(wire') = Len(wire)
      BY <3>1, Zenon
    <3>4. /\ remaining \in Int /\ Len(wire') \in Int /\ Len(wire) \in Int
          /\ Len(chunk') \in Int
      BY <1>0 DEF ReceiveType
    <3>5. remaining - Len(wire') - Len(chunk') = remaining - Len(wire) - 0
      BY <3>3, <3>4
    <3>6. Unbudgeted = 0 /\ Unbudgeted' = Len(chunk') /\ 0 \in Int
      BY <3>2 DEF Unbudgeted
    <3>7. Quiet
      BY <2>2, <3>1, <3>2, <3>4, <3>5, <3>6, Zenon
    <3> QED
      BY <2>1, <3>7
  <2>4. CASE ReaderAppend /\ AcceptChunk
    <3>1. /\ reader = "append" /\ reader' = "deliver"
          /\ remaining' = remaining - Len(chunk)
          /\ UNCHANGED <<chunk, wire>> /\ partial' = partial /\ responses' = responses
      BY <2>4 DEF ReaderAppend, AcceptChunk, RefuseChunk
    <3>2. Stream' = Stream
      BY <3>1 DEF Stream, Loose
    <3>3. /\ remaining' \in Int /\ Len(wire') \in Int /\ Unbudgeted' \in Int
          /\ remaining' - Len(wire') - Unbudgeted' = remaining - Len(wire) - Unbudgeted
      BY <1>0, <3>1 DEF ReceiveType, Unbudgeted
    <3>4. Quiet
      BY <2>2, <3>1, <3>2, <3>3, Zenon
    <3> QED
      BY <2>1, <3>4
  <2>5. CASE Reader /\ ~ReaderRead /\ ~ReaderAppend /\ ~ReaderDeliver
    <3>1. /\ UNCHANGED <<remaining, wire>> /\ partial' = partial /\ responses' = responses
          /\ reader \notin {"append"} /\ reader' \notin {"append", "deliver"}
          /\ Loose = <<>>
      BY <2>5
      DEF Reader, ReaderStart, ReaderCheck, ReaderReadNothing, ReaderReadError,
          ReaderDelivered, Loose
    <3>2. Stream' = Stream
      BY <3>1 DEF Stream, Loose
    <3>3. /\ remaining' \in Int /\ Len(wire') \in Int /\ Unbudgeted' \in Int
          /\ remaining' - Len(wire') - Unbudgeted' = remaining - Len(wire) - Unbudgeted
      BY <1>0, <3>1 DEF ReceiveType, Unbudgeted
    <3>4. Quiet
      BY <2>2, <3>1, <3>2, <3>3, Zenon
    <3> QED
      BY <2>1, <3>4
  <2>6. CASE ReaderAppend /\ ~AcceptChunk
    BY <2>1, <2>6 DEF ReaderAppend
  <2> QED
    BY <1>4, <2>1, <2>3, <2>4, <2>5, <2>6
<1>5. CASE Environment
  <2>1. CASE LinkDrop
    BY <2>1 DEF LinkDrop
  <2>2. ASSUME NEW c \in Channels, BoardSend(c) \/ BoardSpoil(c)
        PROVE  /\ UNCHANGED <<program, batchIndex, calls, pllVerified, workPhase, asked,
                              partial, responses, readbacks, wanted, remaining, reader, chunk>>
               /\ \E reply \in InFlight, place \in 1..PacketFlits :
                     \/ \E damage \in Damage :
                           /\ Sends(c, reply, place, damage)
                           /\ damage = "sound" \/ Mishap
                     \/ Loses(c, reply, place) /\ Mishap
    BY <2>2, Zenon DEF BoardSend, BoardSpoil, Sends, Loses, Damage
  <2> QED
    BY <1>5, <2>1, <2>2, Zenon DEF Environment
<1>6. CASE UNCHANGED vars
  <2>1. Stream' = Stream
    BY <1>6 DEF Stream, Loose
  <2>2. Slack' = Slack
    BY <1>6 DEF Slack, Supply, CurrentBatch, Unbudgeted
  <2> QED
    BY <1>6, <2>1, <2>2, Zenon DEF Quiet
<1> QED
  BY <1>1, <1>2, <1>3, <1>4, <1>5, <1>6

\* What is left of n when the rest is d less.
LEMMA LeftOver ==
  ASSUME NEW n \in Int, NEW d \in Int, NEW u \in Int,
         NEW a \in Int, NEW b \in Int, a + d = b
  PROVE  n - (a + u) = (n - (b + u)) + d
  OBVIOUS

(***************************************************************************)
(* The same while the board takes flits, or is asked for more.             *)
(***************************************************************************)
LEMMA SlackOwed ==
  ASSUME TypeOK, ControlOK, InBatch, IsFiniteSet(owed),
         UNCHANGED <<program, batchIndex, remaining, reader, chunk>>, NEW d \in Int,
         NEW due \in Int, due = Demand(CurrentBatch, asked', owed'),
         NEW rest \in Int, rest = Total(RestHeight(sending')),
         NEW length \in Int, length = Len(wire'),
         due + rest + length + d
           = Demand(CurrentBatch, asked, owed) + Total(RestHeight(sending))
               + Len(wire)
  PROVE  Slack' = Slack + d
<1> DEFINE before == Demand(CurrentBatch, asked, owed)
           begun == Total(RestHeight(sending))
<1>1. before \in Int /\ begun \in Int /\ Len(wire) \in Int /\ Unbudgeted \in Int
      /\ remaining \in Int
  <2>1. before \in Nat /\ begun \in Nat /\ Len(wire) \in Nat /\ Unbudgeted \in Nat
    BY SupplyType, Zenon
  <2>2. remaining \in Nat
    BY Zenon DEF TypeOK, ReceiveType
  <2> HIDE DEF before, begun
  <2>3. \A n \in Nat : n \in Int
    OBVIOUS
  <2> QED
    BY <2>1, <2>2, <2>3, Zenon
<1>2. Slack = remaining - (before + begun + Len(wire) + Unbudgeted)
  BY DEF Slack, Supply
<1>3. Unbudgeted' = Unbudgeted
  BY DEF Unbudgeted
<1>4. Slack' = remaining - (due + rest + length + Unbudgeted)
  BY <1>3, Zenon DEF Slack, Supply, CurrentBatch
<1>5. due + rest + length + d = before + begun + Len(wire)
  OBVIOUS
<1> HIDE DEF before, begun
<1>6. due + rest + length \in Int /\ before + begun + Len(wire) \in Int
  BY <1>1
<1>7. PICK now, then :
         now = before + begun + Len(wire) /\ then = due + rest + length
  OBVIOUS
<1>8. now \in Int /\ then \in Int /\ then + d = now
  BY <1>5, <1>6, <1>7, Zenon
<1>9. remaining - (then + Unbudgeted) = (remaining - (now + Unbudgeted)) + d
  BY <1>1, <1>8, LeftOver
<1> QED
  BY <1>2, <1>4, <1>7, <1>9, Zenon

\* A flit less to come is one more on its way, or lost.
LEMMA TakenSum ==
  ASSUME NEW a \in Int, NEW b \in Int, NEW bThen \in Int, NEW rest \in Int,
         NEW restThen \in Int, NEW length \in Int, NEW k \in Int,
         bThen + restThen = b + rest - 1
  PROVE  (a + bThen) + restThen + (length + k) + (1 - k) = (a + b) + rest + length
  OBVIOUS

\* What the board takes is owed no longer; unless it is lost it is on its way.
LEMMA SlackSent ==
  ASSUME TypeOK, ControlOK, InBatch, BoardType', IsFiniteSet(owed),
         UNCHANGED <<program, batchIndex, asked, remaining, reader, chunk>>,
         NEW c \in Channels, NEW reply, NEW place \in 1..PacketFlits,
         TakeFlit(c, reply, place),
         NEW k \in {0, 1}, Len(wire') = Len(wire) + k
  PROVE  IsFiniteSet(owed') /\ Slack' = Slack + (1 - k)
<1>0. IsFiniteSet(owed')
  <2>1. owed' \in SUBSET owed
    BY DEF TakeFlit
  <2> QED
    BY <2>1, FS_Subset
<1> DEFINE unasked == Cardinality(Targets(CurrentBatch) \ asked)
           count == Cardinality(owed)
           countThen == Cardinality(owed')
           rest == Total(RestHeight(sending))
           restThen == Total(RestHeight(sending'))
           length == Len(wire)
<1>1. unasked \in Nat /\ count \in Nat /\ countThen \in Nat
  <2>1. IsFiniteSet(Targets(CurrentBatch) \ asked)
    BY BatchKnown, TargetsFinite, FS_Difference DEF TypeOK
  <2> QED
    BY <1>0, <2>1, FS_CardinalityType
<1>2. rest \in Int /\ length \in Int
  BY SupplyType
<1>3. PacketFlits * countThen + restThen = PacketFlits * count + rest - 1
  BY TakeCounted DEF TypeOK
<1>4. Total(RestHeight(sending')) \in Int
  <2>1. RestHeight(sending') \in Heights
    BY ConstantAssumption DEF BoardType, RestHeight, Heights
  <2> QED
    BY <2>1, CellsFinite
<1>5. /\ Demand(CurrentBatch, asked, owed) = PacketFlits * (unasked + count)
      /\ Demand(CurrentBatch, asked', owed') = PacketFlits * (unasked + countThen)
      /\ Len(wire') = length + k
  BY DEF Demand, Due
<1> DEFINE demand == Demand(CurrentBatch, asked, owed)
           demandThen == Demand(CurrentBatch, asked', owed')
           lengthThen == Len(wire')
<1>6. restThen \in Int
  BY <1>4
<1>7. demand = PacketFlits * (unasked + count) /\ lengthThen = length + k
      /\ demandThen = PacketFlits * (unasked + countThen)
  BY <1>5
<1> HIDE DEF unasked, count, countThen, rest, restThen, length, demand, demandThen, lengthThen
<1>8. /\ PacketFlits * (unasked + count) = PacketFlits * unasked + PacketFlits * count
      /\ PacketFlits * (unasked + countThen) = PacketFlits * unasked + PacketFlits * countThen
      /\ PacketFlits * unasked \in Int /\ PacketFlits * count \in Int
      /\ PacketFlits * countThen \in Int
  BY <1>1, ConstantAssumption
<1>9. /\ demandThen \in Int /\ lengthThen \in Int /\ 1 - k \in Int
      /\ demandThen + restThen + lengthThen + (1 - k) = demand + rest + length
  <2> DEFINE a == PacketFlits * unasked
             b == PacketFlits * count
             bThen == PacketFlits * countThen
  <2>1. /\ a \in Int /\ b \in Int /\ bThen \in Int /\ bThen + restThen = b + rest - 1
        /\ demand = a + b /\ demandThen = a + bThen
    BY <1>3, <1>7, <1>8
  <2> HIDE DEF a, b, bThen
  <2>2. k \in Int /\ 1 - k \in Int /\ length + k \in Int
    BY <1>2
  <2>3. a + bThen \in Int
    BY <2>1
  <2>4. (a + bThen) + restThen + (length + k) + (1 - k) = (a + b) + rest + length
    BY <1>2, <1>6, <2>1, <2>2, TakenSum
  <2> QED
    BY <1>7, <2>1, <2>2, <2>3, <2>4, Zenon
<1> USE DEF rest, restThen, length, demand, demandThen, lengthThen
<1> QED
  BY <1>0, <1>6, <1>9, SlackOwed

-----------------------------------------------------------------------------
\* When every record admitted still comes, the packets are in order.

\* The flits of one packet, from its first.
Whole(packet) ==
    \A j \in DOMAIN packet : packet[j].place = j /\ packet[j].reply = packet[1].reply

Aligned ==
    /\ Carries(DecoderAt(partial), Stream, sending)
    /\ \A c \in Channels : Whole(partial[c])
    /\ \A i \in DOMAIN responses : Whole(responses[i])
    /\ \A r \in ReadbacksOf(batchIndex) : Whole(r.packet)

(***************************************************************************)
(* Of an awaited batch no more flits can come than the budget admits.      *)
(* While all of those can, no flit was lost, and what the decoder has is   *)
(* in order.  A batch that ends takes its whole budget: if a flit was lost *)
(* it cannot end.                                                          *)
(***************************************************************************)
FlowInv ==
    Awaiting =>
        /\ IsFiniteSet(owed)
        /\ Slack >= 0
        /\ Slack = 0 => Aligned

\* A step that leaves fewer records to come makes up for what it disorders.
LEMMA FlowKept ==
  ASSUME Slack \in Int, Slack >= 0, Slack = 0 => Aligned,
         NEW d \in Nat, Slack' = Slack + d, d = 0 /\ Aligned => Aligned'
  PROVE  Slack' >= 0 /\ (Slack' = 0 => Aligned')
<1>1. PICK slack : slack = Slack'
  OBVIOUS
<1>2. slack = Slack + d
  BY <1>1, Zenon
<1>3. slack >= 0 /\ (slack = 0 => d = 0 /\ Slack = 0)
  <2>1. Slack \in Int /\ Slack >= 0 /\ d \in Nat
    BY Zenon
  <2> HIDE DEF Slack
  <2> QED
    BY <1>2, <2>1
<1> QED
  BY <1>1, <1>3, Zenon

\* Delivering the next record of the stream keeps the packets in order.
LEMMA DeliverAligned ==
  ASSUME ReceiveType, ReaderDeliver, Aligned,
         UNCHANGED <<sending, readbacks, batchIndex>>
  PROVE  Aligned'
<1> DEFINE record == Head(chunk)
           c == record.channel
           packet == Append(partial[c], record.flit)
<1>1. /\ Stream # <<>> /\ Head(Stream) = record /\ Stream' = Tail(Stream)
      /\ record \in Record /\ Stream \in Seq(Record)
  BY DeliverTakesFirst, StreamType
<1>2. /\ c \in Channels /\ partial[c] \in Seq(Flit) /\ record.flit \in Flit
      /\ Len(packet) = Len(partial[c]) + 1
      /\ \A j \in 1..Len(partial[c]) : packet[j] = partial[c][j]
      /\ packet[Len(packet)] = record.flit /\ packet \in Seq(Flit)
  BY <1>1 DEF Record, ReceiveType
<1>3. /\ Fits(DecoderAt(partial), record)
      /\ Carries(Advance(DecoderAt(partial), record), Tail(Stream), sending)
  BY <1>1, CarriesFirst DEF Aligned
<1>4. Whole(partial[c])
  BY <1>2 DEF Aligned
<1>5. /\ record.flit.place = Len(packet)
      /\ record.flit.reply = packet[1].reply
  <2>1. CASE partial[c] = <<>>
    <3>1. DecoderAt(partial)[c] = None /\ Len(packet) = 1
      BY <1>2, <2>1 DEF DecoderAt, Cursor
    <3> QED
      BY <1>2, <1>3, <3>1 DEF Fits
  <2>2. CASE partial[c] # <<>>
    <3>1. Len(partial[c]) \in 1..PacketFlits - 1
      BY <1>2, <2>2, ConstantAssumption DEF ReceiveType
    <3>2. packet[1] = partial[c][1] /\ partial[c][1] \in Flit
      BY <1>2, <3>1
    <3>3. DecoderAt(partial)[c] = [reply |-> partial[c][1].reply, place |-> Len(packet)]
      BY <1>2, <2>2 DEF DecoderAt, Cursor
    <3>4. DecoderAt(partial)[c] \in [reply : Reply, place : 1..PacketFlits]
      BY <1>2, <3>1, <3>2, <3>3, ConstantAssumption DEF Flit
    <3>5. DecoderAt(partial)[c] # None
      BY <3>4, SendingAssumption
    <3> QED
      BY <1>3, <3>2, <3>3, <3>5 DEF Fits
  <2> QED
    BY <2>1, <2>2
<1>6. Whole(packet)
  <2>1. ASSUME NEW j \in DOMAIN packet
        PROVE  packet[j].place = j /\ packet[j].reply = packet[1].reply
    <3>1. CASE j = Len(packet)
      BY <1>2, <1>5, <3>1
    <3>2. CASE j # Len(packet)
      <4>1. j \in DOMAIN partial[c] /\ 1 \in DOMAIN partial[c]
            /\ packet[j] = partial[c][j] /\ packet[1] = partial[c][1]
        BY <1>2, <3>2
      <4> QED
        BY <1>4, <4>1 DEF Whole
    <3> QED
      BY <3>1, <3>2
  <2> QED
    BY <2>1 DEF Whole
<1>7. record.flit.place \in 1..PacketFlits /\ DOMAIN DecoderAt(partial) = Channels
  BY <1>2 DEF Flit, DecoderAt
<1> HIDE DEF record, c, packet
<1>8. CASE Len(packet) = PacketFlits
  <2>1. /\ responses' = Append(responses, packet)
        /\ partial' = [partial EXCEPT ![c] = <<>>]
    BY <1>8 DEF ReaderDeliver, DeliverRecord, record, c, packet
  <2>2. DecoderAt(partial') = Advance(DecoderAt(partial), record)
    <3>1. DecoderAt(partial') = [DecoderAt(partial) EXCEPT ![c] = None]
      BY <1>2, <2>1 DEF DecoderAt, Cursor, ReceiveType
    <3>2. Rest(record.flit.reply, record.flit.place) = None
      BY <1>5, <1>8 DEF Rest
    <3> QED
      BY <3>1, <3>2 DEF Advance, c
  <2>3. \A d \in Channels : Whole(partial'[d])
    <3>1. Whole(<<>>)
      BY DEF Whole
    <3> QED
      BY <1>2, <2>1, <3>1 DEF Aligned, ReceiveType
  <2>4. \A i \in DOMAIN responses' : Whole(responses'[i])
    BY <1>6, <2>1 DEF Aligned, ReceiveType
  <2> QED
    BY <1>1, <1>3, <2>2, <2>3, <2>4, Zenon DEF Aligned, ReadbacksOf
<1>9. CASE Len(packet) # PacketFlits
  <2>1. /\ responses' = responses
        /\ partial' = [partial EXCEPT ![c] = packet]
    BY <1>9 DEF ReaderDeliver, DeliverRecord, record, c, packet
  <2>2. DecoderAt(partial') = Advance(DecoderAt(partial), record)
    <3>1. Cursor(packet) = [reply |-> packet[1].reply, place |-> Len(packet) + 1]
      BY <1>2 DEF Cursor
    <3>2. Rest(record.flit.reply, record.flit.place)
            = [reply |-> packet[1].reply, place |-> Len(packet) + 1]
      BY <1>5, <1>9 DEF Rest
    <3>3. DecoderAt(partial') = [DecoderAt(partial) EXCEPT ![c] = Cursor(packet)]
      BY <1>2, <2>1 DEF DecoderAt, ReceiveType
    <3> QED
      BY <3>1, <3>2, <3>3 DEF Advance, c
  <2>3. \A d \in Channels : Whole(partial'[d])
    BY <1>2, <1>6, <2>1 DEF Aligned, ReceiveType
  <2> QED
    BY <1>1, <1>3, <2>1, <2>2, <2>3, Zenon DEF Aligned, ReadbacksOf
<1> QED
  BY <1>8, <1>9

-----------------------------------------------------------------------------
\* When replies are collected, and for which batch.

\* The readback of a program's batches, from the first to the last.
Collecting == InReadback \/ pc = "finish"

(***************************************************************************)
(* Readbacks belong to the batches up to the current one, and none to one  *)
(* that is not requested yet.  Success is reported only between calls.     *)
(***************************************************************************)
PlaceInv ==
    /\ result = "ok" => pc = "idle"
    /\ pc \in ExecutePlaces /\ ~Collecting => batchIndex = 1 /\ readbacks = {}
    /\ Collecting => \A r \in readbacks : r.batch <= batchIndex
    /\ Collecting /\ ~Awaiting => \A r \in readbacks : r.batch < batchIndex
    /\ pc = "finish" => batchIndex > Len(program.batches)

\* Batches are read back one after the other.
LEMMA PlaceStep ==
  ASSUME CallerType, PlaceInv, [Next]_vars
  PROVE  PlaceInv'
<1> USE DEF PlaceInv, Collecting, InReadback, InBatch, Awaiting, ExecutePlaces,
            ReadbackPlaces, ClosePlaces
<1>1. CASE Call
  BY <1>1, SMTT(30)
  DEF Call, Open, Close, ClearWeightResidency, ExecuteRefused, Execute,
      NewCall, BeginClose
<1>2. CASE Closing
  BY <1>2, SMTT(30)
  DEF Closing, DriverCancel, Join, DrainRead, DrainEmpty, DrainError,
      DrainAppend, DrainDeliver, DrainDelivered, DriverClose, DrainOnly,
      Mishap
<1>3. CASE Opening
  BY <1>3, SMTT(30)
  DEF Opening, OpenFails, OpenDriver, SessionStarts, SessionFails,
      SessionTimeout, BeginClose
<1>4. CASE Begin
  BY <1>4, SMTT(30)
  DEF Begin, Fault, Return, ExecuteOnly
<1>5. CASE ConfigurePhase
  BY <1>5, SMTT(30)
  DEF ConfigurePhase, PhaseAborted, PhaseKept, PLLEchoed, PLLPortMissing,
      PLLFails, MustConfigure, AfterPhase, PLLOnly, ExecuteOnly, Fault,
      Return, Mishap
<1>6. CASE Operations
  <2>1. CASE OperationsDone
    <3>1. pc = "operation" /\ UNCHANGED <<program, batchIndex, readbacks, result>>
      BY <2>1 DEF OperationsDone, OperationOnly, ExecuteOnly
    <3>2. CASE program.batches = <<>>
      BY <2>1, <3>1, <3>2 DEF OperationsDone
    <3>3. CASE program.batches # <<>>
      BY <2>1, <3>1, <3>3 DEF OperationsDone
    <3> QED
      BY <3>2, <3>3
  <2> QED
    BY <1>6, <2>1, SMTT(30)
    DEF Operations, EnterWork, InvalidOperation, WeightHit, StartOperation,
        StartWrite, OperationOnly, ExecuteOnly, Fault, Return
<1>7. CASE Write
  BY <1>7, SMTT(30)
  DEF Write, WriteChunk, WriteFails, WriteOnly, Fault, Return, CallerType
<1>8. CASE Readback
  <2>1. CASE Seal
    BY <2>1, SMTT(30)
    DEF Seal, ReadbackOnly, ExecuteOnly, FaultReadback, Fault, Return, CallerType
  <2>2. CASE TakeResponse
    BY <2>2, SMTT(30)
    DEF TakeResponse, ReadbackOnly, ExecuteOnly, FaultReadback, Fault, Return,
        CallerType
  <2>3. CASE BatchesDone
    <3>1. program \in Programs \cup {None} /\ batchIndex > Len(program.batches)
      BY <2>3 DEF BatchesDone, BatchesLeft, CallerType
    <3> QED
      BY <2>3, <3>1, SMTT(30) DEF BatchesDone, ReadbackOnly, ExecuteOnly
  <2> QED
    BY <1>8, <2>1, <2>2, <2>3, SMTT(30)
    DEF Readback, StartBatch, Arm, NoResponse, Finish, ReadbackOnly,
        ExecuteOnly, FaultReadback, StartWrite, Fault, Return, CallerType
<1>9. CASE Reader
  BY <1>9, SMTT(30)
  DEF Reader, ReaderStart, ReaderCheck, ReaderRead, ReaderReadNothing,
      ReaderReadError, ReaderAppend, ReaderDeliver, ReaderDelivered,
      ReaderOnly
<1>10. CASE Environment
  BY <1>10, SMTT(30)
  DEF Environment, BoardSend, BoardSpoil, LinkDrop
<1>11. CASE UNCHANGED vars
  BY <1>11
<1> QED
  BY <1>1, <1>2, <1>3, <1>4, <1>5, <1>6, <1>7, <1>8, <1>9, <1>10, <1>11
  DEF Next, Caller

-----------------------------------------------------------------------------
\* Between batches nothing is on its way.

Silent ==
    /\ owed = {}
    /\ \A c \in Channels : sending[c] = None
    /\ Stream = <<>> /\ responses = <<>>
    /\ \A c \in Channels : partial[c] = <<>>

\* The caller has a session in use.
Session == opened /\ ~faulted /\ pc \in {"idle", "await", "settle"} \cup ExecutePlaces

\* Given a board that is quiet when a driver opens.
SilentInv == BoardQuiet /\ Session /\ ~Awaiting => Silent

\* Nothing comes from nothing.
LEMMA SilentStays ==
  ASSUME ReceiveType, Silent,
         \/ UNCHANGED <<owed, sending, responses, partial, reader, chunk, wire>>
         \/ Reader \/ Environment
  PROVE  Silent'
<1>1. /\ owed = {} /\ \A c \in Channels : sending[c] = None /\ partial[c] = <<>>
      /\ responses = <<>> /\ Loose = <<>> /\ wire = <<>>
  BY DEF Silent, Stream, Loose, ReceiveType
<1>2. CASE UNCHANGED <<owed, sending, responses, partial, reader, chunk, wire>>
  BY <1>2 DEF Silent, Stream, Loose
<1>3. CASE Reader
  <2>1. UNCHANGED <<owed, sending>>
    BY <1>3
    DEF Reader, ReaderStart, ReaderCheck, ReaderRead, ReaderReadNothing,
        ReaderReadError, ReaderAppend, ReaderDeliver, ReaderDelivered, ReaderOnly
  <2>2. ASSUME UNCHANGED <<responses, partial, wire>>, Loose' = <<>>
        PROVE  Silent'
    <3>1. Stream' = <<>>
      BY <1>1, <2>2 DEF Stream
    <3> QED
      BY <1>1, <2>1, <2>2, <3>1, Zenon DEF Silent
  <2>3. CASE ReaderRead
    <3>1. PICK n \in 0..ReadRecords, half \in BOOLEAN :
             n <= 0 /\ (half => n < 0) /\ (n > 0 \/ (half /\ ~wireHalf))
      BY <1>1, <2>3 DEF ReaderRead, TakeFromWire
    <3> QED
      BY <3>1
  <2>4. CASE ReaderAppend /\ AcceptChunk
    BY <1>1, <2>2, <2>4 DEF ReaderAppend, AcceptChunk, RefuseChunk, Loose
  <2>5. CASE ReaderAppend /\ RefuseChunk
    BY <2>2, <2>5 DEF ReaderAppend, RefuseChunk, AcceptChunk, Loose
  <2>6. CASE ReaderDeliver
    BY <1>1, <2>6 DEF ReaderDeliver, DeliverRecord, Loose
  <2>7. CASE Reader /\ ~ReaderRead /\ ~ReaderAppend /\ ~ReaderDeliver
    BY <2>2, <2>7
    DEF Reader, ReaderStart, ReaderCheck, ReaderReadNothing, ReaderReadError,
        ReaderDelivered, Loose
  <2> QED
    BY <1>3, <2>3, <2>4, <2>5, <2>6, <2>7 DEF ReaderAppend
<1>4. CASE Environment
  <2>1. InFlight = {}
    BY <1>1 DEF InFlight
  <2>2. LinkDrop
    BY <1>4, <2>1 DEF Environment, BoardSend, BoardSpoil
  <2>3. /\ owed' = {} /\ sending' = [c \in Channels |-> None]
        /\ UNCHANGED <<responses, partial, reader, chunk, wire>>
    BY <2>2 DEF LinkDrop
  <2>4. Stream' = Stream
    BY <2>3 DEF Stream, Loose
  <2> QED
    BY <2>3, <2>4 DEF Silent
<1> QED
  BY <1>2, <1>3, <1>4

(***************************************************************************)
(* Opening the driver starts a session, sealing a batch ends its wait, and *)
(* every other step of the caller between batches leaves the replies be.   *)
(***************************************************************************)
LEMMA SilentSteps ==
  ASSUME CallerType, FlagType, DriverInv, [Next]_vars, Session', ~Awaiting'
  PROVE  \/ OpenDriver
         \/ Seal /\ BoundaryClean
         \/ /\ Session /\ ~Awaiting
            /\ \/ UNCHANGED <<owed, sending, responses, partial, reader, chunk, wire>>
               \/ Reader \/ Environment
<1> USE DEF ExecutePlaces, ReadbackPlaces
<1> DEFINE Kept == UNCHANGED <<owed, sending, responses, partial, reader, chunk, wire>>
           Same == UNCHANGED <<opened, faulted>>
<1>1. ASSUME Call PROVE pc = "idle" /\ Same /\ Kept
  BY <1>1
  DEF Call, Open, Close, ClearWeightResidency, ExecuteRefused, Execute,
      NewCall, BeginClose
<1>2. ASSUME Closing PROVE opened' = FALSE \/ pc' \in ClosePlaces
  BY <1>2
  DEF Closing, DriverCancel, Join, DrainRead, DrainEmpty, DrainError,
      DrainAppend, DrainDeliver, DrainDelivered, DriverClose, ClosePlaces
<1>3. ASSUME Opening, ~OpenDriver
      PROVE  /\ Same /\ Kept
             /\ pc' = "cancel" \/ pc = "openDriver" \/ pc \in {"await", "settle"}
  BY <1>3
  DEF Opening, OpenFails, SessionStarts, SessionFails, SessionTimeout, BeginClose
<1>4. ASSUME Begin PROVE faulted' = TRUE \/ (pc = "begin" /\ Same /\ Kept)
  BY <1>4 DEF Begin, Fault, ExecuteOnly
<1>5. ASSUME ConfigurePhase PROVE faulted' = TRUE \/ (pc = "pll" /\ Same /\ Kept)
  BY <1>5
  DEF ConfigurePhase, PhaseAborted, PhaseKept, PLLEchoed, PLLPortMissing,
      PLLFails, MustConfigure, PLLOnly, ExecuteOnly, Fault
<1>6. ASSUME Operations PROVE faulted' = TRUE \/ (pc = "operation" /\ Same /\ Kept)
  BY <1>6
  DEF Operations, EnterWork, InvalidOperation, WeightHit, StartOperation,
      OperationsDone, StartWrite, OperationOnly, ExecuteOnly, Fault
<1>7. ASSUME Write
      PROVE  faulted' = TRUE \/ (pc = "write" /\ job # "request" /\ Same /\ Kept)
  <2>1. CASE WriteFails
    BY <2>1 DEF WriteFails, Fault
  <2>2. CASE WriteChunk
    <3>1. /\ UNCHANGED <<opened, faulted, job, responses, partial, reader, chunk, wire, sending>>
          /\ pc = "write" /\ Lands(chunksLeft' = 0)
          /\ job = "request" => pc' \in {"write", "take"}
      BY <2>2 DEF WriteChunk, WriteOnly, CallerType
    <3>2. job # "request"
      BY <3>1 DEF Awaiting
    <3>3. UNCHANGED owed
      BY <3>1, <3>2 DEF Lands, OperationLands, SelectionLands
    <3> QED
      BY <3>1, <3>2, <3>3
  <2> QED
    BY <1>7, <2>1, <2>2 DEF Write
<1>8. ASSUME Readback, ~(Seal /\ BoundaryClean)
      PROVE  faulted' = TRUE \/ (pc \in {"batch", "finish"} /\ Same /\ Kept)
  BY <1>8
  DEF Readback, StartBatch, Arm, TakeResponse, NoResponse, Seal,
      BatchesDone, Finish, ReadbackOnly, ExecuteOnly, FaultReadback,
      StartWrite, Fault, Awaiting
<1>9. ASSUME Reader PROVE Same /\ UNCHANGED <<pc, job>>
  BY <1>9
  DEF Reader, ReaderStart, ReaderCheck, ReaderRead, ReaderReadNothing,
      ReaderReadError, ReaderAppend, ReaderDeliver, ReaderDelivered,
      ReaderOnly
<1>10. ASSUME Environment PROVE Same /\ UNCHANGED <<pc, job>>
  BY <1>10
  DEF Environment, BoardSend, BoardSpoil, LinkDrop
<1>11. ASSUME UNCHANGED vars PROVE Same /\ Kept /\ UNCHANGED <<pc, job>>
  BY <1>11
<1>12. /\ opened' = TRUE /\ faulted' # TRUE
       /\ pc' \notin ClosePlaces
  BY FlagStep DEF Session, ClosePlaces
<1>13. ASSUME Same,
              \/ pc \in {"idle", "await", "settle", "begin", "pll", "operation",
                         "batch", "finish"}
              \/ pc = "write" /\ job # "request"
              \/ UNCHANGED <<pc, job>>
       PROVE  Session /\ ~Awaiting
  BY <1>13 DEF Session, Awaiting
<1>14. /\ ~Closing /\ pc' # "cancel"
       /\ Opening /\ pc = "openDriver" => OpenDriver \/ opened' = FALSE
  BY <1>2, <1>3, <1>12 DEF DriverInv, FlagType, ClosePlaces
<1> HIDE DEF Kept, Same
<1>15. ASSUME Opening, ~OpenDriver PROVE Session /\ ~Awaiting /\ Kept
  BY <1>3, <1>12, <1>13, <1>14, <1>15
<1>16. ASSUME Call \/ Begin \/ ConfigurePhase \/ Operations \/ Write
       PROVE  Session /\ ~Awaiting /\ Kept
  BY <1>1, <1>4, <1>5, <1>6, <1>7, <1>12, <1>13, <1>16
<1>17. ASSUME Readback, ~(Seal /\ BoundaryClean) PROVE Session /\ ~Awaiting /\ Kept
  BY <1>8, <1>12, <1>13, <1>17
<1>18. ASSUME Reader \/ Environment PROVE Session /\ ~Awaiting
  BY <1>9, <1>10, <1>13, <1>18
<1>19. ASSUME UNCHANGED vars PROVE Session /\ ~Awaiting /\ Kept
  BY <1>11, <1>13, <1>19
<1> QED
  BY <1>14, <1>15, <1>16, <1>17, <1>18, <1>19, Zenon DEF Next, Caller, Kept

\* A batch that can be sealed took its whole budget, so nothing is left of it.
LEMMA SealedEmpty ==
  ASSUME IInv, BudgetInv, FlowInv, Seal, BoundaryClean
  PROVE  Silent /\ Slack = 0
<1>1. /\ TypeOK /\ ControlOK /\ ReceiveType /\ BoardType /\ pc = "seal"
      /\ Awaiting /\ InBatch /\ reader # "deliver"
  BY DEF IInv, TypeOK, Seal, Awaiting, InBatch, LockFree
<1>2. /\ wanted = {} /\ Balance /\ IsFiniteSet(owed) /\ Slack >= 0
  BY <1>1 DEF BudgetInv, FlowInv
<1>3. responses = <<>> /\ InPartialPackets = 0 /\ InDelivery = 0
  BY <1>1, CleanHoldsNothing DEF InDelivery
<1>4. remaining = 0
  <2>1. Len(CurrentBatch.targets) \in Nat
    BY <1>1, BatchKnown, TargetsFinite DEF TypeOK
  <2>2. Cardinality(wanted) = 0 /\ Len(responses) = 0
    BY <1>2, <1>3, FS_EmptySet
  <2>3. 0 + Len(CurrentBatch.targets) - 0 = Len(CurrentBatch.targets)
    BY <2>1
  <2>4. Held + PacketFlits * Len(CurrentBatch.targets)
          = PacketFlits * Len(CurrentBatch.targets)
    BY <1>2, <2>2, <2>3 DEF Balance
  <2>5. Held = remaining + 0 + 0 /\ remaining \in Nat
    BY <1>1, <1>3 DEF Held, ReceiveType
  <2>6. PacketFlits * Len(CurrentBatch.targets) \in Int
    BY <2>1, ConstantAssumption
  <2> QED
    BY <2>4, <2>5, <2>6
<1>5. /\ Demand(CurrentBatch, asked, owed) = 0 /\ Total(RestHeight(sending)) = 0
      /\ Len(wire) = 0 /\ Unbudgeted = 0 /\ Slack = 0
  <2>1. /\ Demand(CurrentBatch, asked, owed) \in Nat /\ Total(RestHeight(sending)) \in Nat
        /\ Len(wire) \in Nat /\ Unbudgeted \in Nat
    BY <1>1, <1>2, SupplyType
  <2> QED
    BY <1>2, <1>4, <2>1 DEF Slack, Supply
<1>6. owed = {}
  <2>1. Due(CurrentBatch, asked, owed) = 0
    BY <1>1, <1>2, <1>5, SupplyType, ConstantAssumption DEF Demand
  <2>2. /\ Cardinality(owed) \in Nat
        /\ Cardinality(Targets(CurrentBatch) \ asked) \in Nat
    <3>1. IsFiniteSet(Targets(CurrentBatch) \ asked)
      BY <1>1, BatchKnown, TargetsFinite, FS_Difference DEF TypeOK
    <3> QED
      BY <1>2, <3>1, FS_CardinalityType
  <2>3. Cardinality(owed) = 0
    BY <2>1, <2>2 DEF Due
  <2> QED
    BY <1>2, <2>3, FS_EmptySet
<1>7. ASSUME NEW c \in Channels
      PROVE  sending[c] = None
  <2>1. RestHeight(sending)[c] = 0
    BY <1>1, <1>5, RestHeightType, TotalZero
  <2>2. sending[c] # None => sending[c].place \in 1..PacketFlits
    BY <1>1 DEF BoardType
  <2> QED
    BY <2>1, <2>2, ConstantAssumption DEF RestHeight
<1>8. Stream = <<>>
  <2>1. Loose = <<>> /\ wire = <<>>
    BY <1>1, <1>5 DEF ReceiveType, Unbudgeted, Loose
  <2> QED
    BY <2>1 DEF Stream
<1>9. \A c \in Channels : partial[c] = <<>>
  BY DEF BoundaryClean, HasPendingResponse
<1> QED
  BY <1>3, <1>5, <1>6, <1>7, <1>8, <1>9 DEF Silent

\* The session stays silent between batches.
LEMMA SilentStep ==
  ASSUME IInv, BudgetInv, BoardQuiet => FlowInv, SilentInv, [Next]_vars
  PROVE  SilentInv'
<1> SUFFICES ASSUME BoardQuiet, Session', ~Awaiting'
             PROVE  Silent'
  BY DEF SilentInv
<1>1. CallerType /\ FlagType /\ DriverInv /\ ReceiveType
  BY DEF IInv, TypeOK
<1>2. CASE OpenDriver
  <2>1. /\ owed' = {} /\ sending' = [c \in Channels |-> None]
        /\ partial' = [c \in Channels |-> <<>>] /\ responses' = <<>>
        /\ Stream' = <<>>
    BY <1>2 DEF OpenDriver, Stream, Loose
  <2> QED
    BY <2>1 DEF Silent
<1>3. CASE Seal /\ BoundaryClean
  <2>1. UNCHANGED <<owed, sending, responses, partial, reader, chunk, wire>>
    BY <1>3 DEF Seal, ReadbackOnly, ExecuteOnly
  <2> QED
    BY <1>1, <1>3, <2>1, SealedEmpty, SilentStays
<1>4. CASE /\ Session /\ ~Awaiting
           /\ \/ UNCHANGED <<owed, sending, responses, partial, reader, chunk, wire>>
              \/ Reader \/ Environment
  BY <1>1, <1>4, SilentStays DEF SilentInv
<1> QED
  BY <1>1, <1>2, <1>3, <1>4, SilentSteps

-----------------------------------------------------------------------------
\* The flow of an awaited batch.

\* A batch is armed with exactly what it will get.
LEMMA ArmFlows ==
  ASSUME IInv, PlaceInv, BudgetInv, Silent, Arm, BoundaryClean
  PROVE  FlowInv' /\ Slack' = 0
<1>1. /\ TypeOK /\ ControlOK /\ ReceiveType /\ BoardType /\ pc = "arm" /\ InBatch
      /\ Collecting /\ ~Awaiting /\ batchIndex \in Nat
  BY DEF IInv, TypeOK, Arm, Awaiting, InBatch, Collecting, InReadback, CallerType
<1>2. /\ remaining' = Budget(CurrentBatch) /\ asked' = {}
      /\ UNCHANGED <<program, batchIndex, owed, sending, responses, partial,
                     reader, chunk, wire, readbacks>>
  BY DEF Arm, ExecuteOnly
<1>3. /\ owed = {} /\ \A c \in Channels : sending[c] = None /\ partial[c] = <<>>
      /\ Loose = <<>> /\ wire = <<>> /\ Stream = <<>> /\ responses = <<>>
  BY <1>1 DEF Silent, Stream, Loose, ReceiveType
<1>4. IsFiniteSet(owed')
  BY <1>2, <1>3, FS_EmptySet
<1>5. Slack' = 0
  <2> DEFINE n == Len(CurrentBatch.targets)
  <2>1. Cardinality(Targets(CurrentBatch)) = n /\ n \in Nat
    BY <1>1, BatchKnown, TargetsFinite DEF BudgetInv, WellFormedBatch, TypeOK
  <2>2. Demand(CurrentBatch, asked', owed') = PacketFlits * n
    <3>1. Targets(CurrentBatch) \ asked' = Targets(CurrentBatch) /\ Cardinality(owed') = 0
      BY <1>2, <1>3, FS_EmptySet
    <3>2. Due(CurrentBatch, asked', owed') = n + 0
      BY <2>1, <3>1 DEF Due
    <3>3. n + 0 = n
      BY <2>1
    <3> QED
      BY <3>2, <3>3, Zenon DEF Demand
  <2>3. Total(RestHeight(sending')) = 0
    <3>1. \A c \in Channels : RestHeight(sending)[c] = 0
      BY <1>3 DEF RestHeight
    <3> QED
      BY <1>1, <1>2, <3>1, RestHeightType, TotalZero
  <2>4. Len(wire') = 0 /\ Unbudgeted' = 0
    BY <1>2, <1>3 DEF Unbudgeted, Loose
  <2>5. remaining' = PacketFlits * n /\ PacketFlits * n \in Int
    BY <1>2, <2>1, ConstantAssumption DEF Budget
  <2>6. Slack' = remaining' - (Demand(CurrentBatch, asked', owed')
                    + Total(RestHeight(sending')) + Len(wire') + Unbudgeted')
    BY <1>2, Zenon DEF Slack, Supply, CurrentBatch
  <2> HIDE DEF n
  <2>7. PacketFlits * n - (PacketFlits * n + 0 + 0 + 0) = 0
    BY <2>5
  <2> QED
    BY <2>2, <2>3, <2>4, <2>5, <2>6, <2>7, Zenon
<1>6. Aligned'
  <2>1. DecoderAt(partial) = sending
    BY <1>1, <1>3 DEF DecoderAt, Cursor, BoardType
  <2>2. Stream' = <<>>
    BY <1>2, <1>3 DEF Stream, Loose
  <2>3. Carries(DecoderAt(partial'), Stream', sending')
    BY <1>2, <2>1, <2>2, CarriesNothing, Zenon
  <2>4. \A c \in Channels : Whole(partial'[c])
    BY <1>2, <1>3 DEF Whole
  <2>5. \A i \in DOMAIN responses' : Whole(responses'[i])
    BY <1>2, <1>3
  <2>6. \A r \in ReadbacksOf(batchIndex)' : Whole(r.packet)
    <3>1. ASSUME NEW r \in readbacks PROVE r.batch # batchIndex
      <4>1. r.batch < batchIndex
        BY <1>1, <3>1 DEF PlaceInv
      <4>2. r.batch \in Nat
        BY <3>1 DEF IInv, TypeOK, CallerType
      <4> QED
        BY <1>1, <4>1, <4>2
    <3> QED
      BY <1>2, <3>1 DEF ReadbacksOf
  <2> QED
    BY <2>3, <2>4, <2>5, <2>6, Zenon DEF Aligned
<1>7. Slack' >= 0
  <2>1. 0 >= 0
    OBVIOUS
  <2> QED
    BY <1>5, <2>1, Zenon
<1> QED
  BY <1>4, <1>5, <1>6, <1>7, Zenon DEF FlowInv

\* Every step of an awaited batch keeps what it can still get in balance.
LEMMA FlowStep ==
  ASSUME IInv, PlaceInv, BudgetInv, SilentInv, BoardQuiet, FlowInv, [Next]_vars
  PROVE  FlowInv'
<1> SUFFICES ASSUME Awaiting' PROVE FlowInv'
  BY DEF FlowInv
<1>1. /\ TypeOK /\ ControlOK /\ CallerType /\ ReceiveType /\ BoardType /\ DriverInv
  BY DEF IInv, TypeOK
<1>2. CASE Arm /\ BoundaryClean
  <2>1. pc = "arm" /\ ~Awaiting /\ Session
    BY <1>1, <1>2
    DEF Arm, Awaiting, Session, DriverInv, ExecutePlaces, ReadbackPlaces
  <2> QED
    BY <1>2, <2>1, ArmFlows DEF SilentInv
<1>3. CASE Awaiting
  <2>1. /\ IsFiniteSet(owed) /\ Slack >= 0 /\ (Slack = 0 => Aligned) /\ InBatch
    BY <1>3 DEF FlowInv, Awaiting, InBatch
  <2>2. Slack \in Int
    BY <1>1, <2>1, SupplyType
  <2>3. ASSUME IsFiniteSet(owed'), NEW d \in Nat, Slack' = Slack + d,
               d = 0 /\ Aligned => Aligned'
        PROVE  FlowInv'
    BY <2>1, <2>2, <2>3, FlowKept, Zenon DEF FlowInv
  <2>4. ASSUME UNCHANGED <<partial, sending, responses, readbacks, batchIndex>>,
               Stream' = Stream, Aligned
        PROVE  Aligned'
    BY <2>4 DEF Aligned, ReadbacksOf
  <2>5. UNCHANGED <<program, batchIndex, calls, pllVerified, workPhase>>
    BY <1>3, <2>1, StreamSteps
  <2>6. ASSUME NEW c \in Channels, NEW reply, NEW place \in 1..PacketFlits,
                TakeFlit(c, reply, place),
                UNCHANGED <<asked, remaining, reader, chunk>>,
                NEW k \in {0, 1}, Len(wire') = Len(wire) + k
         PROVE  Slack' = Slack + (1 - k)
    <3>1. BoardType'
      BY <1>1, BoardStep DEF IInv, TypeOK
    <3> QED
      BY <1>1, <2>1, <2>5, <2>6, <3>1, SlackSent
  <2>7. CASE WriteChunk /\ job = "request"
    <3>1. /\ UNCHANGED <<remaining, reader, chunk, wire, sending, partial, responses, readbacks>>
          /\ RequestLands(chunksLeft' = 0)
      BY <2>7 DEF WriteChunk, WriteOnly, Lands
    <3>2. PICK new \in SUBSET (Targets(CurrentBatch) \ asked) :
             asked' = asked \cup new /\ owed' = owed \cup Answers(new)
      BY <3>1 DEF RequestLands, Answers
    <3>3. CurrentBatch \in Batch
      BY <1>1, <2>1, BatchKnown
    <3> DEFINE due == Due(CurrentBatch, asked, owed)
               dueThen == Due(CurrentBatch, asked', owed')
    <3>4. IsFiniteSet(owed') /\ dueThen <= due /\ dueThen \in Nat /\ due \in Nat
      BY <2>1, <3>2, <3>3, RequestCounted
    <3>5. /\ Demand(CurrentBatch, asked, owed) = PacketFlits * due
          /\ Demand(CurrentBatch, asked', owed') = PacketFlits * dueThen
      BY DEF Demand
    <3>6. PICK saved \in Nat : due = dueThen + saved
      <4>1. due - dueThen \in Nat /\ due = dueThen + (due - dueThen)
        BY <3>4
      <4> QED
        BY <4>1
    <3> HIDE DEF due, dueThen
    <3> DEFINE d == PacketFlits * saved
    <3>7. d \in Nat /\ PacketFlits * dueThen \in Int
          /\ PacketFlits * due = PacketFlits * dueThen + d
      BY <3>4, <3>6, ConstantAssumption
    <3> HIDE DEF d
    <3>8. Total(RestHeight(sending)) \in Int /\ Len(wire) \in Int
      BY <1>1, <2>1, SupplyType
    <3>9. Slack' = Slack + d
      <4> DEFINE then == Demand(CurrentBatch, asked', owed')
                 rest == Total(RestHeight(sending))
      <4>1. then \in Int /\ Demand(CurrentBatch, asked, owed) = then + d
        BY <3>5, <3>7
      <4>2. rest = Total(RestHeight(sending')) /\ Len(wire) = Len(wire')
        BY <3>1
      <4> HIDE DEF then, rest
      <4>3. then + rest + Len(wire) + d = then + d + rest + Len(wire)
        BY <3>7, <3>8, <4>1 DEF rest
      <4> QED
        BY <1>1, <2>1, <2>5, <3>1, <3>7, <3>8, <4>1, <4>2, <4>3, SlackOwed DEF then, rest
    <3>10. Stream' = Stream
      BY <3>1 DEF Stream, Loose
    <3> QED
      BY <2>3, <2>4, <2>5, <3>1, <3>4, <3>7, <3>9, <3>10
  <2>8. CASE TakeResponse /\ Acceptable(Head(responses))
    <3> DEFINE packet == Head(responses)
               readback == [batch |-> batchIndex, key |-> packet[1].reply.key,
                            packet |-> packet]
    <3>1. /\ responses # <<>> /\ responses' = Tail(responses)
          /\ readbacks' = readbacks \cup {readback}
          /\ UNCHANGED <<partial, asked, owed, sending, remaining, reader, chunk, wire>>
      BY <2>8, Zenon DEF TakeResponse, ReadbackOnly, ExecuteOnly
    <3>2. Stream' = Stream
      BY <3>1 DEF Stream, Loose
    <3>3. Slack' = Slack
      BY <2>5, <3>1, Zenon DEF Slack, Supply, CurrentBatch, Unbudgeted
    <3>4. ASSUME Aligned PROVE Aligned'
      <4>1. Whole(packet)
        <5>1. 1 \in DOMAIN responses /\ packet = responses[1]
          BY <1>1, <3>1 DEF ReceiveType
        <5> QED
          BY <3>4, <5>1 DEF Aligned
      <4>2. \A i \in DOMAIN responses' : Whole(responses'[i])
        BY <1>1, <3>1, <3>4 DEF Aligned, ReceiveType
      <4>3. ASSUME NEW r \in ReadbacksOf(batchIndex)' PROVE Whole(r.packet)
        <5>1. r \in ReadbacksOf(batchIndex) \/ r = readback
          BY <2>5, <3>1 DEF ReadbacksOf
        <5> QED
          BY <3>4, <4>1, <5>1 DEF Aligned
      <4> QED
        BY <3>1, <3>2, <3>4, <4>2, <4>3, Zenon DEF Aligned
    <3>5. Slack + 0 = Slack /\ 0 \in Nat
      BY <2>2
    <3> QED
      BY <2>1, <2>3, <3>1, <3>3, <3>4, <3>5, Zenon
  <2>9. CASE ReaderDeliver
    <3>1. /\ reader = "deliver" /\ reader' = "deliver"
          /\ UNCHANGED <<asked, owed, sending, readbacks, remaining, wire>>
      BY <2>9 DEF ReaderDeliver, DeliverRecord, ReaderOnly
    <3>2. Unbudgeted' = Unbudgeted
      BY <3>1 DEF Unbudgeted
    <3>3. Slack' = Slack
      BY <2>5, <3>1, <3>2, Zenon DEF Slack, Supply, CurrentBatch
    <3>4. Aligned => Aligned'
      BY <1>1, <2>5, <2>9, <3>1, DeliverAligned
    <3>5. Slack + 0 = Slack /\ 0 \in Nat
      BY <2>2
    <3> QED
      BY <2>1, <2>3, <3>1, <3>3, <3>4, <3>5, Zenon
  <2>10. CASE ReaderAppend /\ RefuseChunk
    <3>1. /\ reader = "append" /\ reader' # "append" /\ Refusal # None
          /\ UNCHANGED <<asked, owed, sending, remaining, wire>>
      BY <2>10 DEF ReaderAppend, RefuseChunk, AcceptChunk, ReaderOnly
    <3>2. Len(chunk) \in Nat \ {0}
      BY <1>1, <3>1 DEF Refusal, ReceiveType
    <3>3. /\ remaining' \in Int /\ Len(wire') \in Int /\ Unbudgeted' \in Int
          /\ remaining' - Len(wire') - Unbudgeted'
               = remaining - Len(wire) - Unbudgeted + Len(chunk)
      BY <1>1, <3>1, <3>2 DEF ReceiveType, Unbudgeted
    <3>4. Slack' = Slack + Len(chunk)
      <4>1. Len(chunk) \in Int
        BY <3>2
      <4>2. UNCHANGED <<program, batchIndex, asked, owed, sending>>
        BY <2>5, <3>1
      <4> QED
        BY <1>1, <2>1, <3>3, <4>1, <4>2, SlackThen, Zenon
    <3>5. IsFiniteSet(owed')
      BY <2>1, <3>1
    <3>6. Len(chunk) \in Nat /\ Len(chunk) # 0
      BY <3>2
    <3> QED
      BY <2>3, <3>4, <3>5, <3>6, Zenon
  <2>11. CASE Quiet
    <3>1. Slack + 0 = Slack /\ 0 \in Nat
      BY <2>2
    <3>2. /\ owed' = owed /\ Stream' = Stream /\ Slack' = Slack
          /\ UNCHANGED <<partial, sending, responses, readbacks, batchIndex>>
      BY <2>5, <2>11 DEF Quiet
    <3> QED
      BY <2>1, <2>3, <2>4, <3>1, <3>2, Zenon
  <2>12. ASSUME NEW c \in Channels, NEW reply \in InFlight, NEW place \in 1..PacketFlits,
                NEW damage \in Damage, Sends(c, reply, place, damage),
                UNCHANGED <<asked, partial, responses, readbacks, wanted, remaining,
                            reader, chunk>>
         PROVE  FlowInv'
    <3> DEFINE record == NextFlit(c, reply, place, damage)
    <3>1. /\ TakeFlit(c, reply, place) /\ wire' = Append(wire, record)
          /\ sending' = [sending EXCEPT ![c] = Rest(reply, place)]
          /\ \/ sending[c] # None /\ reply = sending[c].reply /\ place = sending[c].place
             \/ sending[c] = None /\ place = 1
          /\ owed' \in SUBSET owed
      BY <2>12 DEF Sends, TakeFlit
    <3>2. IsFiniteSet(owed')
      BY <2>1, <3>1, FS_Subset
    <3>3. reply \in Reply
      BY <1>1 DEF InFlight, BoardType
    <3>4. /\ record \in Record /\ record.channel = c
          /\ record.flit.reply = reply /\ record.flit.place = place
      BY <3>3 DEF NextFlit, Record, Flit
    <3>5. Stream' = Append(Stream, record) /\ Stream \in Seq(Record)
      BY <1>1, <2>12, <3>1, <3>4, SendAppends, StreamType
    <3>6. ASSUME Aligned PROVE Aligned'
      <4>1. Fits(sending, record) /\ Advance(sending, record) = sending'
        BY <3>1, <3>4 DEF Fits, Advance
      <4>2. Carries(DecoderAt(partial), Append(Stream, record), sending')
        BY <3>4, <3>5, <3>6, <4>1, CarriesMore DEF Aligned
      <4>3. UNCHANGED <<partial, responses, readbacks, batchIndex>>
        BY <2>5, <2>12
      <4> QED
        BY <3>5, <3>6, <4>2, <4>3, Zenon DEF Aligned, ReadbacksOf
    <3>7. Len(wire') = Len(wire) + 1
      BY <1>1, <3>1, <3>4 DEF ReceiveType
    <3>8. Slack' = Slack + 0
      BY <2>5, <2>12, <3>1, <3>2, <3>7, <2>6
    <3>9. 0 \in Nat
      OBVIOUS
    <3> QED
      BY <2>3, <3>2, <3>6, <3>8, <3>9, Zenon
  <2>13. ASSUME NEW c \in Channels, NEW reply \in InFlight, NEW place \in 1..PacketFlits,
                Loses(c, reply, place),
                UNCHANGED <<asked, partial, responses, readbacks, wanted, remaining,
                            reader, chunk>>
         PROVE  FlowInv'
    <3>1. TakeFlit(c, reply, place) /\ UNCHANGED wire /\ owed' \in SUBSET owed
      BY <2>13 DEF Loses, TakeFlit
    <3>2. IsFiniteSet(owed')
      BY <2>1, <3>1, FS_Subset
    <3>3. Slack' = Slack + 1
      BY <2>5, <2>13, <3>1, <3>2, <2>6
    <3>4. 1 \in Nat /\ 1 # 0
      OBVIOUS
    <3> QED
      BY <2>3, <3>2, <3>3, <3>4, Zenon
  <2>14. CASE LinkDrop
    <3>1. /\ owed' = {} /\ sending' = [c \in Channels |-> None]
          /\ UNCHANGED <<asked, partial, responses, readbacks, remaining, reader, chunk, wire>>
      BY <2>14 DEF LinkDrop
    <3> DEFINE unasked == Cardinality(Targets(CurrentBatch) \ asked)
               count == Cardinality(owed)
               rest == Total(RestHeight(sending))
               length == Len(wire)
    <3>2. unasked \in Nat /\ count \in Nat
      <4>1. IsFiniteSet(Targets(CurrentBatch) \ asked)
        BY <1>1, <2>1, BatchKnown, TargetsFinite, FS_Difference
      <4> QED
        BY <2>1, <4>1, FS_CardinalityType
    <3>3. rest \in Nat /\ length \in Int
      BY <1>1, <2>1, SupplyType
    <3>4. Total(RestHeight(sending')) = 0
      <4>1. RestHeight(sending') = [c \in Channels |-> 0]
        BY <3>1 DEF RestHeight
      <4>2. [c \in Channels |-> 0] \in Heights
        BY ConstantAssumption DEF Heights
      <4> QED
        BY <4>1, <4>2, TotalZero
    <3>5. /\ Demand(CurrentBatch, asked, owed) = PacketFlits * (unasked + count)
          /\ Demand(CurrentBatch, asked', owed') = PacketFlits * (unasked + 0)
          /\ Len(wire') = length
      BY <3>1, FS_EmptySet DEF Demand, Due
    <3> DEFINE demand == Demand(CurrentBatch, asked, owed)
               demandThen == Demand(CurrentBatch, asked', owed')
               d == PacketFlits * count + rest
    <3>6. demand = PacketFlits * (unasked + count) /\ demandThen = PacketFlits * (unasked + 0)
      BY <3>5
    <3> HIDE DEF unasked, count, rest, length, demand, demandThen
    <3>7. /\ PacketFlits * (unasked + count) = PacketFlits * unasked + PacketFlits * count
          /\ unasked + 0 = unasked
          /\ PacketFlits * unasked \in Int /\ PacketFlits * count \in Nat
      BY <3>2, ConstantAssumption
    <3>8. /\ d \in Nat /\ demandThen \in Int /\ 0 \in Int
          /\ demandThen + 0 + length + d = demand + rest + length
      BY <3>3, <3>6, <3>7
    <3>9. Slack' = Slack + d
      <4> HIDE DEF d
      <4>1. d \in Int
        BY <3>8
      <4> USE DEF rest, length, demand, demandThen
      <4> QED
        BY <1>1, <2>1, <2>5, <3>1, <3>3, <3>4, <3>5, <3>8, <4>1, SlackOwed
    <3>10. ASSUME d = 0, Aligned PROVE Aligned'
      <4>1. rest = 0
        BY <3>3, <3>7, <3>10
      <4>2. ASSUME NEW c \in Channels PROVE sending[c] = None
        <5>1. RestHeight(sending)[c] = 0
          BY <1>1, <4>1, RestHeightType, TotalZero DEF rest
        <5>2. sending[c] # None => sending[c].place \in 1..PacketFlits
          BY <1>1 DEF BoardType
        <5> QED
          BY <5>1, <5>2, ConstantAssumption DEF RestHeight
      <4>3. sending' = sending
        BY <1>1, <3>1, <4>2 DEF BoardType
      <4>4. Stream' = Stream
        BY <3>1 DEF Stream, Loose
      <4> QED
        BY <2>4, <2>5, <3>1, <3>10, <4>3, <4>4
    <3> HIDE DEF d
    <3> QED
      BY <2>3, <3>1, <3>8, <3>9, <3>10, FS_EmptySet
  <2> QED
    BY <1>3, <2>1, <2>7, <2>8, <2>9, <2>10, <2>11, <2>12, <2>13, <2>14, StreamSteps
<1> QED
  BY <1>1, <1>2, <1>3, AwaitingSteps

-----------------------------------------------------------------------------
\* Whose replies are on their way.

\* What a reply of the current batch says.
Expected ==
    {reply \in Reply :
        /\ reply.key \in Targets(CurrentBatch)
        /\ reply.macro = CurrentBatch.macro
        /\ reply.call = calls
        /\ Computed(reply)}

FromReplies(flits, replies) == \A j \in DOMAIN flits : flits[j].reply \in replies
RecordsFrom(records, replies) == \A i \in DOMAIN records : records[i].flit.reply \in replies

\* Every flit and every answer the batch can still get is one of the replies.
Sight(replies) ==
    /\ owed \subseteq replies
    /\ \A c \in Channels : sending[c] # None => sending[c].reply \in replies
    /\ RecordsFrom(Stream, replies)
    /\ \A c \in Channels : FromReplies(partial[c], replies)
    /\ \A i \in DOMAIN responses : FromReplies(responses[i], replies)
    /\ \A r \in ReadbacksOf(batchIndex) : FromReplies(r.packet, replies)

\* The Macro of the batch is selected when it is requested.
SelectedInv ==
    linkUp /\ (pc = "arm" \/ (pc = "write" /\ job = "request")) =>
        selected = CurrentBatch.macro

(***************************************************************************)
(* What an awaited batch can get, and what it got, was asked for by it, in *)
(* this call and under its Macro, and was computed as the program asks.    *)
(***************************************************************************)
SightInv == Awaiting => Sight(Expected)

\* The Macro stays selected between selection and request.
LEMMA SelectedStep ==
  ASSUME CallerType, FlagType, SelectedInv, [Next]_vars
  PROVE  SelectedInv'
<1> SUFFICES ASSUME linkUp', pc' = "arm" \/ (pc' = "write" /\ job' = "request")
             PROVE  selected' = CurrentBatch'.macro
  BY DEF SelectedInv
<1>1. InBatch'
  BY DEF InBatch
<1>2. UNCHANGED <<program, batchIndex>>
  BY <1>1, BatchSteps
<1>3. CurrentBatch' = CurrentBatch
  BY <1>2 DEF CurrentBatch
<1>4. \/ WriteChunk /\ job = "selection" /\ chunksLeft' = 0
      \/ /\ UNCHANGED selected
         /\ pc = "arm" \/ (pc = "write" /\ job = "request")
         /\ linkUp
  <2>1. CASE Call
    BY <2>1
    DEF Call, Open, Close, ClearWeightResidency, ExecuteRefused, Execute,
        NewCall, BeginClose
  <2>2. CASE Closing
    BY <2>2
    DEF Closing, DriverCancel, Join, DrainRead, DrainEmpty, DrainError,
        DrainAppend, DrainDeliver, DrainDelivered, DriverClose
  <2>3. CASE Opening
    BY <2>3
    DEF Opening, OpenFails, OpenDriver, SessionStarts, SessionFails,
        SessionTimeout, BeginClose
  <2>4. CASE Begin
    BY <2>4 DEF Begin, Fault, Return
  <2>5. CASE ConfigurePhase
    BY <2>5
    DEF ConfigurePhase, PhaseAborted, PhaseKept, PLLEchoed, PLLPortMissing,
        PLLFails, MustConfigure, AfterPhase, Fault, Return
  <2>6. CASE Operations
    BY <2>6
    DEF Operations, EnterWork, InvalidOperation, WeightHit, StartOperation,
        OperationsDone, StartWrite, OperationOnly, ExecuteOnly, Fault, Return
  <2>7. CASE Write
    <3>1. CASE WriteFails
      BY <3>1 DEF WriteFails, Fault, Return
    <3>2. CASE WriteChunk
      <4>1. /\ UNCHANGED <<job, linkUp>> /\ pc = "write" /\ Lands(chunksLeft' = 0)
            /\ pc' = IF chunksLeft' # 0 THEN "write"
                     ELSE CASE job = "operation" -> "operation"
                            [] job = "selection" -> "arm"
                            [] job = "request" -> "take"
        BY <3>2 DEF WriteChunk, WriteOnly
      <4>2. job = "request" => UNCHANGED selected
        BY <4>1 DEF Lands, RequestLands
      <4> QED
        BY <3>2, <4>1, <4>2 DEF CallerType
    <3> QED
      BY <2>7, <3>1, <3>2 DEF Write
  <2>8. CASE Readback
    BY <2>8
    DEF Readback, StartBatch, Arm, TakeResponse, NoResponse, Seal,
        BatchesDone, Finish, ReadbackOnly, ExecuteOnly, FaultReadback,
        StartWrite, Fault, Return
  <2>9. CASE Reader
    BY <2>9
    DEF Reader, ReaderStart, ReaderCheck, ReaderRead, ReaderReadNothing,
        ReaderReadError, ReaderAppend, ReaderDeliver, ReaderDelivered,
        ReaderOnly
  <2>10. CASE Environment
    BY <2>10
    DEF Environment, BoardSend, BoardSpoil, LinkDrop, TakeFlit
  <2>11. CASE UNCHANGED vars
    BY <2>11
  <2> QED
    BY <2>1, <2>2, <2>3, <2>4, <2>5, <2>6, <2>7, <2>8, <2>9, <2>10, <2>11
    DEF Next, Caller
<1>5. CASE WriteChunk /\ job = "selection" /\ chunksLeft' = 0
  BY <1>3, <1>5 DEF WriteChunk, Lands, SelectionLands
<1>6. CASE /\ UNCHANGED selected
           /\ pc = "arm" \/ (pc = "write" /\ job = "request")
           /\ linkUp
  BY <1>3, <1>6 DEF SelectedInv
<1> QED
  BY <1>4, <1>5, <1>6

\* What a request makes the board owe is expected.
LEMMA AnswersExpected ==
  ASSUME IInv, PhaseInv, WorkInv, SelectedInv, WriteChunk, job = "request",
         NEW new \in SUBSET (Targets(CurrentBatch) \ asked)
  PROVE  Answers(new) \subseteq Expected
<1> SUFFICES ASSUME NEW k \in new,
                    NEW reply, reply = [key |-> k, macro |-> selected, work |-> work,
                                        call |-> calls, pll |-> pllRegister]
             PROVE  reply \in Expected
  BY DEF Answers
<1>1. pc = "write" /\ linkUp
  BY DEF WriteChunk
<1>2. /\ CallerType /\ BoardType /\ ControlOK /\ InBatch
  BY <1>1 DEF IInv, TypeOK, InBatch
<1>3. k \in Targets(CurrentBatch) /\ k \in Keys
  BY <1>2, BatchKnown
<1>4. reply \in Reply
  BY <1>2, <1>3 DEF Reply, BoardType, CallerType
<1>5. reply.macro = CurrentBatch.macro
  BY <1>1 DEF SelectedInv
<1>6. Computed(reply)
  BY <1>1, AnswerComputed
<1> QED
  BY <1>3, <1>4, <1>5, <1>6 DEF Expected

\* Sequences of flits and records of given replies.
LEMMA FromAppended ==
  ASSUME NEW replies, NEW flits \in Seq(Flit), FromReplies(flits, replies),
         NEW flit \in Flit, flit.reply \in replies
  PROVE  FromReplies(Append(flits, flit), replies)
<1>1. ASSUME NEW j \in DOMAIN Append(flits, flit)
      PROVE  \/ Append(flits, flit)[j] = flit
             \/ j \in DOMAIN flits /\ Append(flits, flit)[j] = flits[j]
  BY <1>1
<1> QED
  BY <1>1 DEF FromReplies

\* A record of one of the replies may follow.
LEMMA RecordsAppended ==
  ASSUME NEW replies, NEW records \in Seq(Record), RecordsFrom(records, replies),
         NEW record \in Record, record.flit.reply \in replies
  PROVE  RecordsFrom(Append(records, record), replies)
<1>1. ASSUME NEW j \in DOMAIN Append(records, record)
      PROVE  \/ Append(records, record)[j] = record
             \/ j \in DOMAIN records /\ Append(records, record)[j] = records[j]
  BY <1>1
<1> QED
  BY <1>1 DEF RecordsFrom

\* What is left of the records is still records of them.
LEMMA RecordsTaken ==
  ASSUME NEW replies, NEW records \in Seq(Record), RecordsFrom(records, replies),
         records # <<>>
  PROVE  RecordsFrom(Tail(records), replies) /\ Head(records).flit.reply \in replies
<1>1. ASSUME NEW j \in DOMAIN Tail(records)
      PROVE  j + 1 \in DOMAIN records /\ Tail(records)[j] = records[j + 1]
  BY <1>1
<1>2. 1 \in DOMAIN records /\ Head(records) = records[1]
  OBVIOUS
<1> QED
  BY <1>1, <1>2 DEF RecordsFrom

\* What a batch can get stays among the replies if what it asks for is.
LEMMA SightKept ==
  ASSUME NEW replies, Sight(replies), IInv, [Next]_vars, Awaiting, Awaiting',
         IsFiniteSet(owed),
         WriteChunk /\ job = "request" =>
            \A new \in SUBSET (Targets(CurrentBatch) \ asked) : Answers(new) \subseteq replies
  PROVE  Sight(replies)'
<1>1. /\ ReceiveType /\ BoardType /\ CallerType
      /\ owed \subseteq replies
      /\ \A c \in Channels : sending[c] # None => sending[c].reply \in replies
      /\ RecordsFrom(Stream, replies) /\ Stream \in Seq(Record)
      /\ \A c \in Channels : FromReplies(partial[c], replies)
      /\ \A i \in DOMAIN responses : FromReplies(responses[i], replies)
      /\ \A r \in ReadbacksOf(batchIndex) : FromReplies(r.packet, replies)
  BY StreamType DEF IInv, TypeOK, Sight
<1>2. batchIndex' = batchIndex
  BY StreamSteps
<1>3. ASSUME UNCHANGED <<partial, responses, readbacks>>, RecordsFrom(Stream', replies),
             owed' \subseteq replies,
             \A c \in Channels : sending'[c] # None => sending'[c].reply \in replies
      PROVE  Sight(replies)'
  BY <1>1, <1>2, <1>3, Zenon DEF Sight, ReadbacksOf
<1>4. CASE WriteChunk /\ job = "request"
  <2>1. /\ UNCHANGED <<reader, chunk, wire, sending, partial, responses, readbacks>>
        /\ RequestLands(chunksLeft' = 0)
    BY <1>4 DEF WriteChunk, WriteOnly, Lands
  <2>2. PICK new \in SUBSET (Targets(CurrentBatch) \ asked) : owed' = owed \cup Answers(new)
    BY <2>1 DEF RequestLands, Answers
  <2>3. Stream' = Stream
    BY <2>1 DEF Stream, Loose
  <2>4. owed' \subseteq replies
    BY <1>1, <1>4, <2>2
  <2> QED
    BY <1>1, <1>3, <2>1, <2>3, <2>4, Zenon
<1>5. CASE TakeResponse /\ Acceptable(Head(responses))
  <2> DEFINE packet == Head(responses)
             readback == [batch |-> batchIndex, key |-> packet[1].reply.key,
                          packet |-> packet]
  <2>1. /\ responses # <<>> /\ responses' = Tail(responses)
        /\ readbacks' = readbacks \cup {readback}
        /\ UNCHANGED <<owed, sending, partial, reader, chunk, wire>>
    BY <1>5, Zenon DEF TakeResponse, ReadbackOnly, ExecuteOnly
  <2>2. Stream' = Stream
    BY <2>1 DEF Stream, Loose
  <2>3. \A i \in DOMAIN responses' : FromReplies(responses'[i], replies)
    <3>1. ASSUME NEW i \in DOMAIN responses'
          PROVE  i + 1 \in DOMAIN responses /\ responses'[i] = responses[i + 1]
      BY <1>1, <2>1, <3>1 DEF ReceiveType
    <3> QED
      BY <1>1, <3>1
  <2>4. FromReplies(packet, replies)
    <3>1. 1 \in DOMAIN responses /\ packet = responses[1]
      BY <1>1, <2>1 DEF ReceiveType
    <3> QED
      BY <1>1, <3>1
  <2>5. ASSUME NEW r \in ReadbacksOf(batchIndex)' PROVE FromReplies(r.packet, replies)
    <3>1. r \in ReadbacksOf(batchIndex) \/ r = readback
      BY <1>2, <2>1 DEF ReadbacksOf
    <3> QED
      BY <1>1, <2>4, <3>1
  <2> QED
    BY <1>1, <2>1, <2>2, <2>3, <2>5, Zenon DEF Sight
<1>6. CASE ReaderDeliver
  <2> DEFINE record == Head(chunk)
             c == record.channel
             packet == Append(partial[c], record.flit)
  <2>1. /\ Stream # <<>> /\ Head(Stream) = record /\ Stream' = Tail(Stream)
        /\ record \in Record
    BY <1>1, <1>6, DeliverTakesFirst
  <2>2. RecordsFrom(Tail(Stream), replies) /\ record.flit.reply \in replies
    BY <1>1, <2>1, RecordsTaken, Zenon
  <2>3. c \in Channels /\ partial[c] \in Seq(Flit) /\ record.flit \in Flit
    BY <1>1, <2>1 DEF Record, ReceiveType
  <2>4. FromReplies(packet, replies)
    BY <1>1, <2>2, <2>3, FromAppended
  <2>5. FromReplies(<<>>, replies)
    BY DEF FromReplies
  <2>6. /\ \/ partial' = [partial EXCEPT ![c] = <<>>]
              /\ responses' = Append(responses, packet)
           \/ partial' = [partial EXCEPT ![c] = packet] /\ responses' = responses
        /\ UNCHANGED <<owed, sending, readbacks>>
    BY <1>6 DEF ReaderDeliver, DeliverRecord, ReaderOnly
  <2> HIDE DEF record, c, packet
  <2>7. \A d \in Channels : FromReplies(partial'[d], replies)
    BY <1>1, <2>3, <2>4, <2>5, <2>6 DEF ReceiveType
  <2>8. \A i \in DOMAIN responses' : FromReplies(responses'[i], replies)
    <3>1. ASSUME NEW i \in DOMAIN responses'
          PROVE  responses'[i] = packet \/ (i \in DOMAIN responses /\ responses'[i] = responses[i])
      <4>1. responses \in Seq(Packet)
        BY <1>1 DEF ReceiveType
      <4>2. CASE responses' = responses
        BY <3>1, <4>2
      <4>3. CASE responses' = Append(responses, packet)
        <5>1. i \in DOMAIN Append(responses, packet)
          BY <3>1, <4>3
        <5>2. Append(responses, packet)[i] = packet
              \/ (i \in DOMAIN responses /\ Append(responses, packet)[i] = responses[i])
          BY <4>1, <5>1
        <5> QED
          BY <4>3, <5>2, Zenon
      <4> QED
        BY <2>6, <4>2, <4>3
    <3> QED
      BY <1>1, <2>4, <3>1
  <2>9. \A r \in ReadbacksOf(batchIndex)' : FromReplies(r.packet, replies)
    BY <1>1, <1>2, <2>6 DEF ReadbacksOf
  <2> QED
    BY <1>1, <2>1, <2>2, <2>6, <2>7, <2>8, <2>9, Zenon DEF Sight
<1>7. CASE ReaderAppend /\ RefuseChunk
  <2>1. /\ reader = "append" /\ reader' = "exited"
        /\ UNCHANGED <<owed, sending, partial, responses, readbacks, wire>>
    BY <1>7 DEF ReaderAppend, RefuseChunk, AcceptChunk, ReaderOnly
  <2>2. Stream = chunk \o wire /\ Stream' = <<>> \o wire
    BY <2>1 DEF Stream, Loose
  <2>3. RecordsFrom(<<>> \o wire, replies)
    <3>1. /\ chunk \in Seq(Record) /\ wire \in Seq(Record)
          /\ RecordsFrom(chunk \o wire, replies)
      BY <1>1, <2>2 DEF ReceiveType
    <3>2. ASSUME NEW i \in DOMAIN wire
          PROVE  /\ Len(chunk) + i \in DOMAIN (chunk \o wire)
                 /\ (chunk \o wire)[Len(chunk) + i] = wire[i]
      BY <3>1, <3>2
    <3>3. <<>> \o wire = wire
      BY <3>1
    <3> QED
      BY <3>1, <3>2, <3>3 DEF RecordsFrom
  <2>4. RecordsFrom(Stream', replies)
    BY <2>2, <2>3, Zenon
  <2> QED
    BY <1>1, <1>3, <2>1, <2>4, Zenon
<1>8. CASE Quiet
  BY <1>1, <1>3, <1>8, Zenon DEF Quiet
<1>9. ASSUME NEW c \in Channels, NEW reply \in InFlight, NEW place \in 1..PacketFlits,
             TakeFlit(c, reply, place),
             UNCHANGED <<partial, responses, readbacks, reader, chunk>>,
             \/ UNCHANGED wire
             \/ \E damage \in Damage : wire' = Append(wire, NextFlit(c, reply, place, damage))
      PROVE  Sight(replies)'
  <2>1. reply \in replies /\ reply \in Reply
    BY <1>1, <1>9 DEF InFlight, BoardType
  <2>2. owed' \subseteq replies
    BY <1>1, <1>9 DEF TakeFlit
  <2>3. ASSUME NEW d \in Channels, sending'[d] # None PROVE sending'[d].reply \in replies
    <3>1. sending' = [sending EXCEPT ![c] = Rest(reply, place)]
      BY <1>9 DEF TakeFlit
    <3>2. Rest(reply, place) # None => Rest(reply, place).reply = reply
      BY DEF Rest
    <3> QED
      BY <1>1, <2>1, <2>3, <3>1, <3>2 DEF BoardType
  <2>4. CASE UNCHANGED wire
    <3>1. Stream' = Stream
      BY <1>9, <2>4 DEF Stream, Loose
    <3> QED
      BY <1>1, <1>3, <1>9, <2>2, <2>3, <3>1, Zenon
  <2>5. ASSUME NEW damage \in Damage, wire' = Append(wire, NextFlit(c, reply, place, damage))
        PROVE  Sight(replies)'
    <3> DEFINE record == NextFlit(c, reply, place, damage)
    <3>1. record \in Record /\ record.flit.reply = reply
      BY <2>1 DEF NextFlit, Record, Flit
    <3> HIDE DEF record
    <3>2. Stream' = Append(Stream, record)
      BY <1>1, <1>9, <2>5, <3>1, SendAppends DEF record
    <3>3. RecordsFrom(Append(Stream, record), replies)
      BY <1>1, <2>1, <3>1, RecordsAppended
    <3>4. RecordsFrom(Stream', replies)
      BY <3>2, <3>3, Zenon
    <3> QED
      BY <1>3, <1>9, <2>2, <2>3, <3>4, Zenon
  <2> QED
    BY <1>9, <2>4, <2>5
<1>10. CASE LinkDrop
  <2>1. /\ owed' = {} /\ \A c \in Channels : sending'[c] = None
        /\ UNCHANGED <<partial, responses, readbacks, reader, chunk, wire>>
    BY <1>10 DEF LinkDrop
  <2>2. Stream' = Stream
    BY <2>1 DEF Stream, Loose
  <2> QED
    BY <1>1, <1>3, <2>1, <2>2, Zenon
<1>11. CASE /\ \E c \in Channels, reply \in InFlight, place \in 1..PacketFlits :
                  \/ \E damage \in Damage : Sends(c, reply, place, damage)
                  \/ Loses(c, reply, place)
            /\ UNCHANGED <<asked, partial, responses, readbacks, wanted, remaining,
                           reader, chunk>>
  <2>1. PICK c \in Channels, reply \in InFlight, place \in 1..PacketFlits :
             \/ \E damage \in Damage : Sends(c, reply, place, damage)
             \/ Loses(c, reply, place)
    BY <1>11
  <2>2. /\ TakeFlit(c, reply, place)
        /\ \/ UNCHANGED wire
           \/ \E damage \in Damage : wire' = Append(wire, NextFlit(c, reply, place, damage))
    BY <2>1, Zenon DEF Sends, Loses
  <2> QED
    BY <1>9, <1>11, <2>2
<1> QED
  BY <1>4, <1>5, <1>6, <1>7, <1>8, <1>10, <1>11, StreamSteps

\* What is expected does not change while a batch is awaited.
LEMMA SightStep ==
  ASSUME IInv, PhaseInv, WorkInv, PlaceInv, BudgetInv, SilentInv, BoardQuiet, FlowInv,
         SelectedInv, SightInv, [Next]_vars
  PROVE  SightInv'
<1> SUFFICES ASSUME Awaiting' PROVE Sight(Expected)'
  BY DEF SightInv
<1>1. CallerType /\ DriverInv
  BY DEF IInv, TypeOK
<1>2. CASE Arm /\ BoundaryClean
  <2>1. pc = "arm" /\ ~Awaiting /\ Session /\ Collecting
    BY <1>1, <1>2
    DEF Arm, Awaiting, Session, DriverInv, ExecutePlaces, ReadbackPlaces,
        Collecting, InReadback, InBatch
  <2>2. Silent
    BY <2>1 DEF SilentInv
  <2>3. UNCHANGED <<owed, sending, responses, partial, reader, chunk, wire, readbacks, batchIndex>>
    BY <1>2 DEF Arm, ExecuteOnly
  <2>4. Silent'
    BY <2>2, <2>3, SilentStays DEF IInv, TypeOK
  <2>5. \A r \in readbacks' : r.batch # batchIndex'
    <3>1. ASSUME NEW r \in readbacks PROVE r.batch # batchIndex
      <4>1. r.batch < batchIndex /\ r.batch \in Nat /\ batchIndex \in Nat
        BY <1>1, <2>1, <3>1 DEF PlaceInv, CallerType
      <4> QED
        BY <4>1
    <3> QED
      BY <2>3, <3>1
  <2> QED
    BY <2>4, <2>5 DEF Silent, Sight, RecordsFrom, FromReplies, ReadbacksOf
<1>3. CASE Awaiting
  <2>1. IsFiniteSet(owed)
    BY <1>3 DEF FlowInv
  <2>2. UNCHANGED <<program, batchIndex, calls, pllVerified, workPhase>>
    BY <1>3, <2>1, StreamSteps
  <2>3. Expected' = Expected
    BY <2>2 DEF Expected, Computed, CurrentBatch, Configures
  <2>4. Sight(Expected)
    BY <1>3 DEF SightInv
  <2>5. WriteChunk /\ job = "request" =>
            \A new \in SUBSET (Targets(CurrentBatch) \ asked) : Answers(new) \subseteq Expected
    BY AnswersExpected
  <2>6. PICK expected : expected = Expected
    OBVIOUS
  <2>7. Sight(expected)'
    BY <1>3, <2>1, <2>4, <2>5, <2>6, SightKept
  <2>8. expected = Expected'
    BY <2>3, <2>6, Zenon
  <2> QED
    BY <2>7, <2>8, Zenon DEF Sight
<1> QED
  BY <1>1, <1>2, <1>3, AwaitingSteps

-----------------------------------------------------------------------------
\* The readbacks of a batch are taken once per target.

\* A readback is what its caller accepts, under the key of its header.
Sound(r) ==
    /\ r.key = r.packet[1].reply.key
    /\ \A j \in 1..PacketFlits : r.packet[j].damage # "sound" => program.capture /\ j > 1

\* The targets that no longer wait are those read back.
KeysInv ==
    Awaiting =>
        /\ {r.key : r \in ReadbacksOf(batchIndex)} = Targets(CurrentBatch) \ wanted
        /\ \A r, q \in ReadbacksOf(batchIndex) : r.key = q.key => r = q
        /\ \A r \in ReadbacksOf(batchIndex) : Sound(r)

\* A packet is taken only for a target that still waits.
LEMMA KeysStep ==
  ASSUME IInv, PlaceInv, BudgetInv, KeysInv, [Next]_vars
  PROVE  KeysInv'
<1> SUFFICES ASSUME Awaiting' PROVE KeysInv'
  BY DEF KeysInv
<1>1. CallerType /\ ReceiveType /\ TypeOK
  BY DEF IInv, TypeOK
<1>2. UNCHANGED <<program, batchIndex>>
  <2>1. InBatch'
    BY DEF Awaiting, InBatch
  <2> QED
    BY <1>1, <2>1, BatchSteps
<1>3. CASE Arm /\ BoundaryClean
  <2>1. pc = "arm" /\ ~Awaiting /\ Collecting
    BY <1>3 DEF Arm, Awaiting, Collecting, InReadback, InBatch
  <2>2. wanted' = Targets(CurrentBatch) /\ readbacks' = readbacks
    BY <1>3 DEF Arm
  <2>3. ASSUME NEW r \in readbacks PROVE r.batch # batchIndex
    <3>1. r.batch < batchIndex /\ r.batch \in Nat /\ batchIndex \in Nat
      BY <1>1, <2>1, <2>3 DEF PlaceInv, CallerType
    <3> QED
      BY <3>1
  <2>4. ReadbacksOf(batchIndex)' = {}
    BY <1>2, <2>2, <2>3 DEF ReadbacksOf
  <2>5. Targets(CurrentBatch)' = wanted'
    BY <1>2, <2>2 DEF CurrentBatch
  <2> QED
    BY <2>4, <2>5, Zenon DEF KeysInv
<1>4. CASE TakeResponse /\ Acceptable(Head(responses)) /\ Awaiting
  <2> DEFINE packet == Head(responses)
             key == packet[1].reply.key
             readback == [batch |-> batchIndex, key |-> key, packet |-> packet]
             R == ReadbacksOf(batchIndex)
             S == ReadbacksOf(batchIndex)'
  <2>1. /\ wanted' = wanted \ {key}
        /\ readbacks' = readbacks \cup {readback}
        /\ key \in wanted
        /\ packet[1].damage = "sound"
        /\ program.capture \/ \A i \in 2..PacketFlits : packet[i].damage = "sound"
    BY <1>4, Zenon DEF TakeResponse, Acceptable
  <2>2. S = R \cup {readback}
    BY <1>2, <2>1 DEF ReadbacksOf
  <2>3. /\ {r.key : r \in R} = Targets(CurrentBatch) \ wanted
        /\ \A r, q \in R : r.key = q.key => r = q
        /\ \A r \in R : Sound(r)
        /\ wanted \subseteq Targets(CurrentBatch)
    BY <1>4 DEF KeysInv, BudgetInv
  <2>4. Sound(readback)
    <3>1. ASSUME NEW j \in 1..PacketFlits, packet[j].damage # "sound"
          PROVE  program.capture /\ j > 1
      <4>1. j # 1
        BY <2>1, <3>1
      <4>2. j \in 2..PacketFlits
        BY <4>1, ConstantAssumption
      <4> QED
        BY <2>1, <3>1, <4>2
    <3> QED
      BY <3>1 DEF Sound
  <2> HIDE DEF packet, key, R, S
  <2>5. {r.key : r \in S} = Targets(CurrentBatch) \ wanted'
    <3>1. {r.key : r \in S} = {r.key : r \in R} \cup {key}
      <4>1. readback.key = key
        OBVIOUS
      <4> HIDE DEF readback
      <4> QED
        BY <2>2, <4>1
    <3> QED
      BY <2>1, <2>3, <3>1
  <2>6. ASSUME NEW r \in S, NEW q \in S, r.key = q.key PROVE r = q
    <3>1. \A x \in R : x.key # key
      BY <2>1, <2>3
    <3>2. readback.key = key
      OBVIOUS
    <3> QED
      BY <2>2, <2>3, <2>6, <3>1, <3>2
  <2>7. \A r \in S : Sound(r)
    BY <2>2, <2>3, <2>4
  <2>8. \A r : Sound(r)' <=> Sound(r)
    BY <1>2 DEF Sound
  <2>9. Targets(CurrentBatch)' = Targets(CurrentBatch)
    BY <1>2 DEF CurrentBatch
  <2> USE DEF S
  <2> QED
    BY <2>5, <2>6, <2>7, <2>8, <2>9, Zenon DEF KeysInv
<1>5. CASE /\ Awaiting
           /\ (WriteChunk /\ job = "request") \/ Reader \/ Environment \/ UNCHANGED vars
  <2>1. UNCHANGED <<wanted, readbacks>>
    BY <1>5
    DEF WriteChunk, WriteOnly, Reader, ReaderStart, ReaderCheck, ReaderRead,
        ReaderReadNothing, ReaderReadError, ReaderAppend, ReaderDeliver,
        ReaderDelivered, ReaderOnly, Environment, BoardSend, BoardSpoil, LinkDrop
  <2>2. \A r : Sound(r)' <=> Sound(r)
    BY <1>2 DEF Sound
  <2>3. /\ wanted' = wanted /\ Targets(CurrentBatch)' = Targets(CurrentBatch)
        /\ ReadbacksOf(batchIndex)' = ReadbacksOf(batchIndex)
    BY <1>2, <2>1 DEF CurrentBatch, ReadbacksOf
  <2> QED
    BY <1>5, <2>2, <2>3, Zenon DEF KeysInv
<1> QED
  BY <1>1, <1>3, <1>4, <1>5, AwaitingSteps

-----------------------------------------------------------------------------
\* A batch that ended is answered.

\* One readback per target, each the packet of the reply this call asked for.
Answered(i) ==
    /\ {r.key : r \in ReadbacksOf(i)} = Targets(program.batches[i])
    /\ Cardinality(ReadbacksOf(i)) = Len(program.batches[i].targets)
    /\ \A r \in ReadbacksOf(i), j \in 1..PacketFlits :
          LET flit == r.packet[j]
          IN  /\ flit.place = j
              /\ flit.reply.key = r.key
              /\ flit.reply.macro = program.batches[i].macro
              /\ flit.reply.call = calls
              /\ flit.damage # "sound" => program.capture /\ j > 1

AllComputed(r) == \A j \in 1..PacketFlits : Computed(r.packet[j].reply)

\* The batches before the current one are answered.
DoneInv ==
    BoardQuiet /\ Collecting =>
        /\ \A i \in DOMAIN program.batches : i < batchIndex => Answered(i)
        /\ \A r \in readbacks : r.batch < batchIndex => AllComputed(r)

\* Sealing shows that the current one is, too.
LEMMA SealedAnswered ==
  ASSUME IInv, BudgetInv, FlowInv, SightInv, KeysInv, Seal, BoundaryClean
  PROVE  /\ Answered(batchIndex)
         /\ \A r \in ReadbacksOf(batchIndex) : AllComputed(r)
<1> DEFINE R == ReadbacksOf(batchIndex)
<1>1. /\ TypeOK /\ CallerType /\ ControlOK /\ Awaiting /\ InBatch /\ pc = "seal"
  BY DEF IInv, TypeOK, Seal, Awaiting, InBatch
<1>2. /\ \A r \in R : Whole(r.packet)
      /\ \A r \in R : FromReplies(r.packet, Expected)
      /\ {r.key : r \in R} = Targets(CurrentBatch)
      /\ \A r, q \in R : r.key = q.key => r = q
      /\ \A r \in R : Sound(r)
  <2>1. Aligned /\ Sight(Expected) /\ wanted = {}
    BY <1>1, SealedEmpty DEF FlowInv, SightInv, BudgetInv
  <2> QED
    BY <1>1, <2>1 DEF Aligned, Sight, KeysInv
<1>3. Cardinality(R) = Len(CurrentBatch.targets)
  <2>1. Cardinality(Targets(CurrentBatch)) = Len(CurrentBatch.targets)
    BY <1>1 DEF BudgetInv, WellFormedBatch
  <2>2. IsFiniteSet(Targets(CurrentBatch))
    BY <1>1, BatchKnown, TargetsFinite
  <2> DEFINE with == [k \in Targets(CurrentBatch) |-> CHOOSE r \in R : r.key = k]
  <2> HIDE DEF R
  <2>3. ASSUME NEW k \in Targets(CurrentBatch)
        PROVE  with[k] \in R /\ with[k].key = k
    BY <1>2
  <2>4. \A r \in R : r.key \in Targets(CurrentBatch)
    BY <1>2
  <2> HIDE DEF with
  <2>5. \A r \in R : with[r.key] = r
    BY <1>2, <2>3, <2>4
  <2>6. with \in Bijection(Targets(CurrentBatch), R)
    <3>1. with \in [Targets(CurrentBatch) -> R]
      BY <2>3 DEF with
    <3> QED
      BY <2>3, <2>4, <2>5, <3>1 DEF Bijection, Injection, IsInjective, Surjection
  <2> QED
    BY <2>1, <2>2, <2>6, FS_Bijection DEF ExistsBijection
<1>4. ASSUME NEW r \in R, NEW j \in 1..PacketFlits
      PROVE  /\ r.packet[j].place = j /\ r.packet[j].reply \in Expected
             /\ r.packet[j].reply.key = r.key
  <2>1. r.packet \in Packet
    BY <1>1 DEF ReadbacksOf, CallerType
  <2>2. j \in DOMAIN r.packet /\ DOMAIN r.packet = 1..PacketFlits
    BY <2>1 DEF Packet
  <2> QED
    BY <1>2, <2>2 DEF Whole, FromReplies, Sound
<1>5. CurrentBatch = program.batches[batchIndex]
  BY DEF CurrentBatch
<1> QED
  BY <1>2, <1>3, <1>4, <1>5 DEF Answered, AllComputed, Expected, Sound

\* How a program's readbacks come together.
LEMMA CollectingSteps ==
  ASSUME CallerType, PlaceInv, [Next]_vars, Collecting'
  PROVE  \/ /\ pc \in ExecutePlaces /\ ~Collecting
            /\ UNCHANGED <<batchIndex, readbacks>>
         \/ /\ Collecting
            /\ UNCHANGED <<program, calls, pllVerified, workPhase>>
            /\ \/ UNCHANGED <<batchIndex, readbacks>>
               \/ /\ UNCHANGED batchIndex
                  /\ \E r : r.batch = batchIndex /\ readbacks' = readbacks \cup {r}
               \/ /\ Seal /\ BoundaryClean
                  /\ batchIndex' = batchIndex + 1 /\ UNCHANGED readbacks
<1> USE DEF Collecting, InReadback, InBatch, ExecutePlaces, ReadbackPlaces, ClosePlaces
<1>1. CASE Call
  BY <1>1
  DEF Call, Open, Close, ClearWeightResidency, ExecuteRefused, Execute,
      NewCall, BeginClose
<1>2. CASE Closing
  BY <1>2
  DEF Closing, DriverCancel, Join, DrainRead, DrainEmpty, DrainError,
      DrainAppend, DrainDeliver, DrainDelivered, DriverClose, DrainOnly,
      Mishap
<1>3. CASE Opening
  BY <1>3
  DEF Opening, OpenFails, OpenDriver, SessionStarts, SessionFails,
      SessionTimeout, BeginClose
<1>4. CASE Begin
  BY <1>4 DEF Begin, Fault, Return, ExecuteOnly
<1>5. CASE ConfigurePhase
  BY <1>5
  DEF ConfigurePhase, PhaseAborted, PhaseKept, PLLEchoed, PLLPortMissing,
      PLLFails, MustConfigure, AfterPhase, PLLOnly, ExecuteOnly, Fault,
      Return, Mishap
<1>6. CASE Operations
  BY <1>6, SMTT(30)
  DEF Operations, EnterWork, InvalidOperation, WeightHit, StartOperation,
      OperationsDone, StartWrite, OperationOnly, ExecuteOnly, Fault, Return
<1>7. CASE Write
  BY <1>7, SMTT(30)
  DEF Write, WriteChunk, WriteFails, WriteOnly, Fault, Return, CallerType
<1>8. CASE Readback
  <2>1. CASE TakeResponse
    <3>1. /\ pc = "take" /\ UNCHANGED <<batchIndex, program, calls, pllVerified, workPhase>>
          /\ \/ readbacks' = readbacks \cup
                   {[batch |-> batchIndex, key |-> Head(responses)[1].reply.key,
                     packet |-> Head(responses)]}
             \/ pc' = "idle"
      BY <2>1 DEF TakeResponse, ReadbackOnly, ExecuteOnly, FaultReadback, Fault, Return
    <3> QED
      BY <3>1
  <2>2. CASE Seal
    BY <2>2 DEF Seal, ReadbackOnly, ExecuteOnly, FaultReadback, Fault, Return
  <2> QED
    BY <1>8, <2>1, <2>2, SMTT(30)
    DEF Readback, StartBatch, Arm, NoResponse, BatchesDone, Finish, ReadbackOnly,
        ExecuteOnly, FaultReadback, StartWrite, Fault, Return
<1>9. CASE Reader
  BY <1>9, SMTT(30)
  DEF Reader, ReaderStart, ReaderCheck, ReaderRead, ReaderReadNothing,
      ReaderReadError, ReaderAppend, ReaderDeliver, ReaderDelivered,
      ReaderOnly
<1>10. CASE Environment
  BY <1>10, SMTT(30)
  DEF Environment, BoardSend, BoardSpoil, LinkDrop
<1>11. CASE UNCHANGED vars
  BY <1>11
<1> QED
  BY <1>1, <1>2, <1>3, <1>4, <1>5, <1>6, <1>7, <1>8, <1>9, <1>10, <1>11
  DEF Next, Caller

\* Answered batches stay answered until the call ends.
LEMMA DoneStep ==
  ASSUME IInv, BudgetInv, PlaceInv, BoardQuiet => FlowInv /\ SightInv, KeysInv,
         DoneInv, [Next]_vars
  PROVE  DoneInv'
<1> SUFFICES ASSUME BoardQuiet, Collecting'
             PROVE  /\ \A i \in DOMAIN program'.batches : i < batchIndex' => Answered(i)'
                    /\ \A r \in readbacks' : r.batch < batchIndex' => AllComputed(r)'
  BY DEF DoneInv
<1>1. CallerType
  BY DEF IInv, TypeOK
<1>2. CASE /\ pc \in ExecutePlaces /\ ~Collecting
           /\ UNCHANGED <<batchIndex, readbacks>>
  <2>1. batchIndex' = 1 /\ readbacks' = {}
    BY <1>2 DEF PlaceInv
  <2>2. program' \in Programs
    <3>1. ControlOK'
      BY InvStep DEF IInv
    <3>2. pc' \in ExecutePlaces
      BY DEF Collecting, InReadback, InBatch, ExecutePlaces, ReadbackPlaces
    <3> QED
      BY <3>1, <3>2 DEF ControlOK
  <2>3. \A i \in DOMAIN program'.batches : i \in Nat \ {0}
    <3>1. program' \in Program
      BY <2>2, ProgramsAssumption DEF ProgramAssumption
    <3> QED
      BY <3>1 DEF Program
  <2> QED
    BY <2>1, <2>3
<1>3. CASE Collecting /\ UNCHANGED <<program, calls, pllVerified, workPhase>>
  <2>1. /\ \A i \in DOMAIN program.batches : i < batchIndex => Answered(i)
        /\ \A r \in readbacks : r.batch < batchIndex => AllComputed(r)
    BY <1>3 DEF DoneInv
  <2>2. \A r : AllComputed(r)' <=> AllComputed(r)
    BY <1>3 DEF AllComputed, Computed, Configures
  <2>3. ASSUME NEW i, ReadbacksOf(i)' = ReadbacksOf(i)
        PROVE  Answered(i)' <=> Answered(i)
    BY <1>3, <2>3, Zenon DEF Answered
  <2>4. \A i \in DOMAIN program.batches : i \in Int
    <3>1. program \in Programs
      BY <1>1, <1>3
      DEF IInv, ControlOK, CallerType, Collecting, InReadback, InBatch,
          ExecutePlaces, ReadbackPlaces
    <3>2. program \in Program
      BY <3>1, ProgramsAssumption DEF ProgramAssumption
    <3> QED
      BY <3>2 DEF Program
  <2>5. batchIndex \in Int /\ \A r \in readbacks : r.batch \in Int
    BY <1>1 DEF CallerType
  <2>6. CASE UNCHANGED <<batchIndex, readbacks>>
    <3>1. \A i : ReadbacksOf(i)' = ReadbacksOf(i)
      BY <2>6 DEF ReadbacksOf
    <3> QED
      BY <1>3, <2>1, <2>2, <2>3, <2>6, <3>1
  <2>7. ASSUME UNCHANGED batchIndex,
               NEW q, q.batch = batchIndex, readbacks' = readbacks \cup {q}
        PROVE  /\ \A i \in DOMAIN program'.batches : i < batchIndex' => Answered(i)'
               /\ \A r \in readbacks' : r.batch < batchIndex' => AllComputed(r)'
    <3>1. ASSUME NEW i \in DOMAIN program.batches, i < batchIndex
          PROVE  Answered(i)'
      <4>1. i # batchIndex
        BY <2>4, <2>5, <3>1
      <4>2. ReadbacksOf(i)' = ReadbacksOf(i)
        BY <2>7, <4>1 DEF ReadbacksOf
      <4> QED
        BY <2>1, <2>3, <3>1, <4>2
    <3>2. ASSUME NEW r \in readbacks', r.batch < batchIndex
          PROVE  AllComputed(r)'
      <4>1. r \in readbacks
        BY <2>5, <2>7, <3>2
      <4> QED
        BY <2>1, <2>2, <3>2, <4>1
    <3> QED
      BY <1>3, <2>7, <3>1, <3>2
  <2>8. CASE /\ Seal /\ BoundaryClean
             /\ batchIndex' = batchIndex + 1 /\ UNCHANGED readbacks
    <3>1. Answered(batchIndex) /\ \A r \in ReadbacksOf(batchIndex) : AllComputed(r)
      BY <2>8, SealedAnswered
    <3>2. \A i : ReadbacksOf(i)' = ReadbacksOf(i)
      BY <2>8 DEF ReadbacksOf
    <3>3. ASSUME NEW i \in DOMAIN program.batches, i < batchIndex + 1
          PROVE  Answered(i)'
      <4>1. i < batchIndex \/ i = batchIndex
        BY <2>4, <2>5, <3>3
      <4>2. Answered(i)
        BY <2>1, <3>1, <4>1
      <4> QED
        BY <2>3, <3>2, <4>2
    <3>4. ASSUME NEW r \in readbacks, r.batch < batchIndex + 1
          PROVE  AllComputed(r)'
      <4>1. r.batch < batchIndex \/ r.batch = batchIndex
        BY <2>5, <3>4
      <4>2. AllComputed(r)
        BY <2>1, <3>1, <4>1 DEF ReadbacksOf
      <4> QED
        BY <2>2, <4>2
    <3> QED
      BY <1>3, <2>8, <3>3, <3>4
  <2> QED
    BY <1>1, <1>3, <2>6, <2>7, <2>8, CollectingSteps
<1> QED
  BY <1>1, <1>2, <1>3, CollectingSteps

-----------------------------------------------------------------------------
\* What execute returns.

\* Success is reported by Finish alone, and stays until the next call.
LEMMA SuccessSteps ==
  ASSUME PlaceInv, [Next]_vars, result' = "ok"
  PROVE  /\ UNCHANGED <<program, readbacks, calls, pllVerified, workPhase>>
         /\ result = "ok" \/ pc = "finish"
<1>0. result = "ok" => pc = "idle"
  BY DEF PlaceInv
<1>1. CASE Call
  BY <1>1
  DEF Call, Open, Close, ClearWeightResidency, ExecuteRefused, Execute,
      NewCall, BeginClose
<1>2. CASE Closing
  BY <1>0, <1>2
  DEF Closing, DriverCancel, Join, DrainRead, DrainEmpty, DrainError,
      DrainAppend, DrainDeliver, DrainDelivered, DriverClose, DrainOnly
<1>3. CASE Opening
  BY <1>0, <1>3
  DEF Opening, OpenFails, OpenDriver, SessionStarts, SessionFails,
      SessionTimeout, BeginClose
<1>4. CASE Begin
  BY <1>0, <1>4 DEF Begin, Fault, Return
<1>5. CASE ConfigurePhase
  BY <1>0, <1>5
  DEF ConfigurePhase, PhaseAborted, PhaseKept, PLLEchoed, PLLPortMissing,
      PLLFails, MustConfigure, Fault, Return
<1>6. CASE Operations
  BY <1>0, <1>6
  DEF Operations, EnterWork, InvalidOperation, WeightHit, StartOperation,
      OperationsDone, Fault, Return
<1>7. CASE Write
  BY <1>0, <1>7 DEF Write, WriteChunk, WriteFails, Fault, Return
<1>8. CASE Readback
  BY <1>0, <1>8
  DEF Readback, StartBatch, Arm, TakeResponse, NoResponse, Seal, BatchesDone,
      Finish, ReadbackOnly, ExecuteOnly, FaultReadback, Fault, Return
<1>9. CASE Reader
  BY <1>9
  DEF Reader, ReaderStart, ReaderCheck, ReaderRead, ReaderReadNothing,
      ReaderReadError, ReaderAppend, ReaderDeliver, ReaderDelivered,
      ReaderOnly
<1>10. CASE Environment
  BY <1>10 DEF Environment, BoardSend, BoardSpoil, LinkDrop
<1>11. CASE UNCHANGED vars
  BY <1>11
<1> QED
  BY <1>1, <1>2, <1>3, <1>4, <1>5, <1>6, <1>7, <1>8, <1>9, <1>10, <1>11
  DEF Next, Caller

\* What is returned is complete and computed as asked.
Returned ==
    /\ \A i \in DOMAIN program.batches : Answered(i)
    /\ \A r \in readbacks : AllComputed(r)
ReturnedInv == BoardQuiet /\ result = "ok" => Returned

\* What was returned stays, and success returns what was read back in order.
LEMMA ReturnedStep ==
  ASSUME IInv, PlaceInv, DoneInv, ReturnedInv, [Next]_vars
  PROVE  ReturnedInv'
<1> SUFFICES ASSUME BoardQuiet, result' = "ok" PROVE Returned'
  BY DEF ReturnedInv
<1>1. /\ UNCHANGED <<program, readbacks, calls, pllVerified, workPhase>>
      /\ result = "ok" \/ pc = "finish"
  BY SuccessSteps
<1>2. Returned
  <2>1. CASE pc = "finish"
    <3>1. Collecting /\ ~Awaiting /\ CallerType /\ program \in Programs
      BY <2>1
      DEF Collecting, Awaiting, IInv, TypeOK, ControlOK, CallerType, ExecutePlaces
    <3>2. program \in Program
      BY <3>1, ProgramsAssumption DEF ProgramAssumption
    <3>3. \A i \in DOMAIN program.batches : i < batchIndex
      <4>1. batchIndex > Len(program.batches) /\ batchIndex \in Int
        BY <2>1, <3>1 DEF PlaceInv, CallerType
      <4> QED
        BY <3>2, <4>1 DEF Program
    <3>4. \A r \in readbacks : r.batch < batchIndex
      BY <3>1 DEF PlaceInv
    <3> QED
      BY <3>1, <3>3, <3>4 DEF DoneInv, Returned
  <2> QED
    BY <1>1, <2>1 DEF ReturnedInv
<1>3. \A r : AllComputed(r)' <=> AllComputed(r)
  BY <1>1 DEF AllComputed, Computed, Configures
<1>4. \A i : ReadbacksOf(i)' = ReadbacksOf(i)
  BY <1>1 DEF ReadbacksOf
<1>5. \A i : Answered(i)' <=> Answered(i)
  BY <1>1, <1>4, Zenon DEF Answered
<1> QED
  BY <1>1, <1>2, <1>3, <1>5 DEF Returned

-----------------------------------------------------------------------------
\* The theorems.

\* All of it together is inductive.
AnswersInv ==
    /\ BudgetInv /\ PlaceInv /\ SelectedInv /\ KeysInv /\ SilentInv
    /\ BoardQuiet => FlowInv /\ SightInv
    /\ DoneInv /\ ReturnedInv

LEMMA AnswersRight == Spec => [](IInv /\ AnswersInv)
<1>1. Init => AnswersInv
  BY DEF Init, AnswersInv, BudgetInv, PlaceInv, SelectedInv, KeysInv, SilentInv,
         FlowInv, SightInv, DoneInv, ReturnedInv, InBatch, Awaiting, Collecting,
         InReadback, Session, ExecutePlaces, ReadbackPlaces
<1>2. ASSUME IInv, PhaseInv, WorkInv, AnswersInv, [Next]_vars PROVE AnswersInv'
  <2>1. /\ TypeOK /\ ControlOK /\ CallerType /\ FlagType
        /\ BudgetInv /\ PlaceInv /\ SelectedInv /\ KeysInv /\ SilentInv
        /\ BoardQuiet => FlowInv /\ SightInv
        /\ DoneInv /\ ReturnedInv
    BY <1>2 DEF IInv, TypeOK, AnswersInv
  <2>2. BudgetInv'
    BY <1>2, <2>1, BudgetStep
  <2>3. PlaceInv' /\ SelectedInv'
    BY <1>2, <2>1, PlaceStep, SelectedStep
  <2>4. KeysInv'
    BY <1>2, <2>1, KeysStep
  <2>5. SilentInv'
    BY <1>2, <2>1, SilentStep
  <2>6. BoardQuiet => FlowInv' /\ SightInv'
    BY <1>2, <2>1, FlowStep, SightStep
  <2>7. DoneInv' /\ ReturnedInv'
    BY <1>2, <2>1, DoneStep, ReturnedStep
  <2> QED
    BY <2>2, <2>3, <2>4, <2>5, <2>6, <2>7 DEF AnswersInv
<1> QED
  BY <1>1, <1>2, OperationsRight, PTL DEF Spec

(***************************************************************************)
(* Where no reply to an earlier session is left when a driver opens, an    *)
(* execute that succeeds returns, per target, one whole packet of the      *)
(* reply this call asked for under the Macro of its batch -- whatever was  *)
(* lost, damaged, split or interleaved (executeReadback, appendReceived).  *)
(***************************************************************************)
THEOREM AnswersCorrect ==
  ASSUME BoardQuiet
  PROVE  Spec => []AnswersComplete
<1>1. IInv /\ AnswersInv => AnswersComplete
  BY DEF AnswersInv, ReturnedInv, Returned, Answered, AnswersComplete
<1> QED
  BY <1>1, AnswersRight, PTL

(***************************************************************************)
(* There, what it returns was computed in this call, from the weights its  *)
(* program asks for, hits of the residency table included, and under the   *)
(* clocks pllVerified reports (execute, writeFlits, configurePhase).       *)
(***************************************************************************)
THEOREM ComputationCorrect ==
  ASSUME BoardQuiet
  PROVE  Spec => []ComputedAsAsked
<1>1. IInv /\ AnswersInv => ComputedAsAsked
  BY DEF AnswersInv, ReturnedInv, Returned, AllComputed, Computed, ComputedAsAsked
<1> QED
  BY <1>1, AnswersRight, PTL

-----------------------------------------------------------------------------
\* An undisturbed session.

\* Nothing failed so far, and nobody executes a malformed program.
Calm ==
    /\ BoardQuiet
    /\ mishaps = 0 /\ timedOut = FALSE
    /\ \A p \in Programs : WellFormed(p)

\* While the session is open and close has not joined it there is a reader.
ReaderInv ==
    /\ opened = TRUE
    /\ pc \notin {"drain", "drainAppend", "drainDeliver", "driverClose"}
    => reader # "none"

\* A part of a record was read only if the rest of it is still to come.
HalfInv ==
    /\ wireHalf = TRUE => wire # <<>>
    /\ codecHalf = TRUE => reader = "append" \/ wireHalf = TRUE
    /\ reader = "append" /\ chunkHalf = TRUE => wireHalf = TRUE

\* No flit is damaged, on its way, in a partial packet or in the queue.
SoundFlits(flits) == \A j \in DOMAIN flits : flits[j].damage = "sound"
SoundRecords(records) == \A i \in DOMAIN records : records[i].flit.damage = "sound"
AllSound(records, packets, queue) ==
    /\ SoundRecords(records)
    /\ \A c \in Channels : SoundFlits(packets[c])
    /\ \A i \in DOMAIN queue : SoundFlits(queue[i])

(***************************************************************************)
(* Where a reply is between the board that owes it and the caller that     *)
(* takes it: it enters the stream with its first flit.                     *)
(***************************************************************************)
Places(replies, records, packets, queue) ==
    ({"owed"} \X replies)
        \cup ({"stream"} \X {i \in DOMAIN records : records[i].flit.place = 1})
        \cup ({"partial"} \X {c \in Channels : packets[c] # <<>>})
        \cup ({"queue"} \X DOMAIN queue)
KeyAt(records, packets, queue, place) ==
    CASE place[1] = "owed" -> place[2].key
      [] place[1] = "stream" -> records[place[2]].flit.reply.key
      [] place[1] = "partial" -> packets[place[2]][1].reply.key
      [] place[1] = "queue" -> queue[place[2]][1].reply.key

\* Each of the keys has a reply in one place at most, and no other key has.
Once(keys, replies, records, packets, queue) ==
    /\ \A place \in Places(replies, records, packets, queue) :
          KeyAt(records, packets, queue, place) \in keys
    /\ \A p, q \in Places(replies, records, packets, queue) :
          KeyAt(records, packets, queue, p) = KeyAt(records, packets, queue, q) => p = q

\* Each awaited target is asked for and in one place at most, or not yet.
KeysOnce ==
    /\ Once(wanted \cap asked, owed, Stream, partial, responses)
    /\ Targets(CurrentBatch) \ asked \subseteq wanted
    /\ \A c \in Channels : sending[c] # None => sending[c].place # 1

\* Of an awaited batch everything is still to come, sound and once.
Expectant == Slack = 0 /\ AllSound(Stream, partial, responses) /\ KeysOnce

Faultless ==
    /\ linkUp = TRUE /\ faulted = FALSE /\ receiveError = None
    /\ pc \notin {"drainAppend", "drainDeliver"}
    /\ pc = "openDriver" => wireHalf = FALSE

Undisturbed ==
    /\ Faultless
    /\ reader # "none" => HalfInv
    /\ IF Awaiting THEN Expectant ELSE Silent

(***************************************************************************)
(* While nothing fails, every reply that is asked for comes, once and      *)
(* sound, and nothing else does.                                           *)
(***************************************************************************)
CalmInv == Calm => Undisturbed

\* The open session has a reader.
LEMMA ReaderStays ==
  ASSUME CallerType, FlagType, DriverInv, ReaderInv, [Next]_vars
  PROVE  ReaderInv'
<1> USE DEF ReaderInv, DriverInv, ExecutePlaces, ReadbackPlaces, ClosePlaces
<1>1. CASE Call
  BY <1>1
  DEF Call, Open, Close, ClearWeightResidency, ExecuteRefused, Execute,
      NewCall, BeginClose
<1>2. CASE Closing
  BY <1>2
  DEF Closing, DriverCancel, Join, DrainRead, DrainEmpty, DrainError,
      DrainAppend, DrainDeliver, DrainDelivered, DriverClose, DrainOnly
<1>3. CASE Opening
  BY <1>3
  DEF Opening, OpenFails, OpenDriver, SessionStarts, SessionFails,
      SessionTimeout, BeginClose
<1>4. CASE Begin
  BY <1>4 DEF Begin, Fault, Return, ExecuteOnly
<1>5. CASE ConfigurePhase
  BY <1>5
  DEF ConfigurePhase, PhaseAborted, PhaseKept, PLLEchoed, PLLPortMissing,
      PLLFails, MustConfigure, AfterPhase, PLLOnly, ExecuteOnly, Fault, Return
<1>6. CASE Operations
  BY <1>6
  DEF Operations, EnterWork, InvalidOperation, WeightHit, StartOperation,
      OperationsDone, StartWrite, OperationOnly, ExecuteOnly, Fault, Return
<1>7. CASE Write
  BY <1>7 DEF Write, WriteChunk, WriteFails, WriteOnly, Fault, Return
<1>8. CASE Readback
  BY <1>8
  DEF Readback, StartBatch, Arm, TakeResponse, NoResponse, Seal, BatchesDone,
      Finish, ReadbackOnly, ExecuteOnly, FaultReadback, StartWrite, Fault, Return
<1>9. CASE Reader
  BY <1>9
  DEF Reader, ReaderStart, ReaderCheck, ReaderRead, ReaderReadNothing,
      ReaderReadError, ReaderAppend, ReaderDeliver, ReaderDelivered,
      ReaderOnly
<1>10. CASE Environment
  BY <1>10 DEF Environment, BoardSend, BoardSpoil, LinkDrop
<1>11. CASE UNCHANGED vars
  BY <1>11
<1> QED
  BY <1>1, <1>2, <1>3, <1>4, <1>5, <1>6, <1>7, <1>8, <1>9, <1>10, <1>11
  DEF Next, Caller

\* No part of a record is left where nothing is on its way.
LEMMA NoHalfLeft ==
  ASSUME FlagType, DriverInv, ChunkInv, ReaderInv, HalfInv,
         wire = <<>>, reader = "append" => chunk = <<>>
  PROVE  codecHalf = FALSE /\ reader # "append"
<1>1. wireHalf # TRUE
  BY DEF HalfInv
<1>2. reader # "append"
  BY <1>1 DEF ChunkInv, HalfInv
<1> QED
  BY <1>1, <1>2 DEF HalfInv, FlagType

\* A silent session passes every check that nothing is left.
LEMMA SilentClean ==
  ASSUME TypeOK, DriverInv, ChunkInv, ReaderInv, Undisturbed,
         ~Awaiting, pc \in ExecutePlaces
  PROVE  BoundaryClean
<1>1. HalfInv /\ Silent /\ receiveError = None
  BY DEF Undisturbed, Faultless, Expectant, DriverInv, ReaderInv, ExecutePlaces, ReadbackPlaces,
         TypeOK, FlagType
<1>2. wire = <<>> /\ (reader = "append" => chunk = <<>>)
  BY <1>1 DEF Silent, Stream, Loose, TypeOK, ReceiveType
<1>3. codecHalf = FALSE
  BY <1>1, <1>2, NoHalfLeft DEF TypeOK
<1> QED
  BY <1>1, <1>3 DEF BoundaryClean, HasPendingResponse, Silent

\* What is left of the budget when it is all that can come.
LEMMA BudgetLeft ==
  ASSUME IInv, FlowInv, Undisturbed, Awaiting
  PROVE  /\ Len(wire) <= remaining /\ Unbudgeted <= remaining
         /\ remaining = 0 => wire = <<>> /\ \A c \in Channels : sending[c] = None
<1>1. /\ TypeOK /\ ControlOK /\ BoardType /\ InBatch /\ Slack = 0 /\ IsFiniteSet(owed)
      /\ wire \in Seq(Record) /\ remaining \in Nat
  BY DEF IInv, TypeOK, ReceiveType, Undisturbed, Faultless, Expectant, FlowInv, Awaiting, InBatch
<1> DEFINE due == Demand(CurrentBatch, asked, owed)
           rest == Total(RestHeight(sending))
<1>2. /\ due \in Nat /\ rest \in Nat /\ Len(wire) \in Nat /\ Unbudgeted \in Nat
      /\ remaining - (due + rest + Len(wire) + Unbudgeted) = 0
  BY <1>1, SupplyType DEF Slack, Supply
<1> HIDE DEF due, rest
<1>3. /\ Len(wire) <= remaining /\ Unbudgeted <= remaining
      /\ remaining = 0 => rest = 0 /\ Len(wire) = 0
  BY <1>1, <1>2
<1>4. ASSUME rest = 0, NEW c \in Channels PROVE sending[c] = None
  <2>1. RestHeight(sending)[c] = 0
    BY <1>1, <1>4, RestHeightType, TotalZero DEF rest
  <2>2. sending[c] # None => sending[c].place \in 1..PacketFlits
    BY <1>1 DEF BoardType
  <2> QED
    BY <2>1, <2>2, ConstantAssumption DEF RestHeight
<1> QED
  BY <1>1, <1>3, <1>4

\* A batch that got all its packets leaves nothing behind.
LEMMA SealClean ==
  ASSUME IInv, BudgetInv, FlowInv, ReaderInv, Undisturbed, pc = "seal", LockFree
  PROVE  BoundaryClean
<1>1. /\ TypeOK /\ ControlOK /\ ReceiveType /\ FlagType /\ DriverInv /\ ChunkInv
      /\ Awaiting /\ InBatch /\ reader # "deliver"
      /\ wanted = {} /\ Balance /\ receiveError = None /\ HalfInv
  BY DEF IInv, TypeOK, LockFree, Awaiting, InBatch, BudgetInv, Undisturbed, Faultless, Expectant,
         DriverInv, ReaderInv, ExecutePlaces, ReadbackPlaces, FlagType
<1> DEFINE n == Len(CurrentBatch.targets)
<1>2. n \in Nat /\ Cardinality(wanted) = 0 /\ Len(responses) \in Nat
  BY <1>1, BatchKnown, TargetsFinite, FS_EmptySet DEF ReceiveType, TypeOK
<1>3. Held \in Int /\ remaining \in Nat /\ InPartialPackets \in Nat
      /\ Held = remaining + 0 + InPartialPackets
  BY <1>1, PartialCounted, CellsFinite, HeldType DEF Held, InDelivery, ReceiveType
<1>4. remaining = 0 /\ InPartialPackets = 0 /\ Len(responses) = 0
  <2>1. Held + PacketFlits * (Len(responses) + n - 0) = PacketFlits * n
    BY <1>1, <1>2 DEF Balance
  <2> DEFINE m == Len(responses)
  <2>2. m \in Nat
    BY <1>2
  <2> HIDE DEF n, m
  <2>3. PacketFlits * (m + n - 0) = PacketFlits * m + PacketFlits * n
        /\ PacketFlits * m \in Nat /\ PacketFlits * n \in Nat
    BY <1>2, <2>2, ConstantAssumption
  <2>4. Held + PacketFlits * m = 0
    BY <1>3, <2>1, <2>3 DEF m
  <2>5. remaining = 0 /\ InPartialPackets = 0 /\ PacketFlits * m = 0
    <3>1. \A a, b, c \in Nat : (a + 0 + b) + c = 0 => a = 0 /\ b = 0 /\ c = 0
      OBVIOUS
    <3>2. (remaining + 0 + InPartialPackets) + PacketFlits * m = 0
      BY <1>3, <2>4, Zenon
    <3> QED
      BY <1>3, <2>3, <3>1, <3>2, Zenon
  <2>6. m = 0
    BY <2>2, <2>5, ConstantAssumption
  <2> QED
    BY <2>5, <2>6 DEF m
<1>5. codecHalf = FALSE
  <2>1. wire = <<>> /\ Unbudgeted <= 0
    BY <1>1, <1>4, BudgetLeft
  <2>2. reader = "append" => chunk = <<>>
    BY <1>1, <2>1 DEF Unbudgeted, ReceiveType
  <2> QED
    BY <1>1, <2>1, <2>2, NoHalfLeft
<1>6. ASSUME NEW c \in Channels PROVE partial[c] = <<>>
  <2>1. PartialHeight \in Heights /\ Total(PartialHeight) = 0
    BY <1>1, <1>4, PartialCounted
  <2>2. PartialHeight[c] = 0
    BY <2>1, TotalZero
  <2> QED
    BY <1>1, <2>2 DEF PartialHeight, ReceiveType
<1> QED
  BY <1>1, <1>4, <1>5, <1>6 DEF BoundaryClean, HasPendingResponse, ReceiveType

\* While a target waits, a packet or a record of one is still to come.
LEMMA TakeWaits ==
  ASSUME IInv, BudgetInv, FlowInv, Undisturbed, pc = "take", LockFree, responses = <<>>
  PROVE  remaining # 0
<1> SUFFICES ASSUME remaining = 0 PROVE FALSE
  OBVIOUS
<1>1. /\ TypeOK /\ ControlOK /\ ReceiveType /\ BoardType /\ Awaiting /\ InBatch
      /\ reader # "deliver" /\ wanted # {} /\ wanted \subseteq Targets(CurrentBatch)
      /\ Balance /\ Aligned
  BY DEF IInv, TypeOK, LockFree, Awaiting, InBatch, BudgetInv, Undisturbed, Faultless,
         Expectant, FlowInv
<1>2. wire = <<>> /\ Unbudgeted <= 0 /\ \A c \in Channels : sending[c] = None
  BY <1>1, BudgetLeft
<1>3. Stream = <<>>
  <2>1. Loose = <<>>
    BY <1>1, <1>2 DEF Loose, Unbudgeted, ReceiveType
  <2> QED
    BY <1>2, <2>1 DEF Stream
<1>4. DecoderAt(partial) = sending
  <2>1. Carries(DecoderAt(partial), <<>>, sending)
    BY <1>1, <1>3, Zenon DEF Aligned
  <2> QED
    BY <2>1, CarriesNothing, Zenon
<1>5. ASSUME NEW c \in Channels PROVE partial[c] = <<>>
  <2> SUFFICES ASSUME partial[c] # <<>> PROVE FALSE
    OBVIOUS
  <2>1. /\ Len(partial[c]) + 1 \in 1..PacketFlits /\ partial[c][1] \in Flit
    BY <1>1, ConstantAssumption DEF ReceiveType
  <2>2. Cursor(partial[c]) \in [reply : Reply, place : 1..PacketFlits]
    BY <2>1 DEF Cursor, Flit
  <2>3. Cursor(partial[c]) = None
    BY <1>2, <1>4 DEF DecoderAt
  <2> QED
    BY <2>2, <2>3, SendingAssumption
<1>6. InPartialPackets = 0
  <2>1. \A c \in Channels : PartialHeight[c] = 0
    BY <1>5 DEF PartialHeight
  <2> QED
    BY <1>1, <2>1, PartialCounted, TotalZero
<1>7. Held = 0
  BY <1>1, <1>6 DEF Held, InDelivery
<1> DEFINE n == Len(CurrentBatch.targets)
           w == Cardinality(wanted)
<1>8. /\ n \in Nat /\ w \in Nat /\ w # 0 /\ Len(responses) = 0
  <2>1. IsFiniteSet(wanted)
    BY <1>1, BatchKnown, TargetsFinite, FS_Subset DEF TypeOK
  <2> QED
    BY <1>1, <2>1, BatchKnown, TargetsFinite, FS_CardinalityType, FS_EmptySet DEF TypeOK
<1>9. 0 + PacketFlits * (0 + n - w) = PacketFlits * n
  BY <1>1, <1>7, <1>8 DEF Balance
<1> HIDE DEF n, w
<1>10. PacketFlits * (0 + n - w) = PacketFlits * n - PacketFlits * w
       /\ PacketFlits * n \in Int /\ PacketFlits * w \in Int
  BY <1>8, ConstantAssumption
<1>11. PacketFlits * w = 0
  BY <1>9, <1>10
<1> QED
  BY <1>8, <1>11, ConstantAssumption

\* The packet at the head of the queue is one the caller waits for.
LEMMA TakeAccepts ==
  ASSUME IInv, Undisturbed, Awaiting, responses # <<>>
  PROVE  Acceptable(Head(responses))
<1>1. /\ responses \in Seq(Packet) /\ AllSound(Stream, partial, responses) /\ KeysOnce
  BY DEF IInv, TypeOK, ReceiveType, Undisturbed, Faultless, Expectant
<1>2. 1 \in DOMAIN responses /\ Head(responses) = responses[1] /\ responses[1] \in Packet
  BY <1>1
<1>3. \A i \in 1..PacketFlits : Head(responses)[i].damage = "sound"
  BY <1>1, <1>2 DEF AllSound, SoundFlits, Packet
<1>4. Head(responses)[1].reply.key \in wanted
  <2>1. <<"queue", 1>> \in Places(owed, Stream, partial, responses)
    BY <1>2 DEF Places
  <2>2. KeyAt(Stream, partial, responses, <<"queue", 1>>) = responses[1][1].reply.key
    BY DEF KeyAt
  <2> QED
    BY <1>1, <1>2, <2>1, <2>2 DEF KeysOnce, Once
<1> QED
  BY <1>3, <1>4, ConstantAssumption DEF Acceptable

\* What the reader read is accepted.
LEMMA AppendAccepts ==
  ASSUME IInv, FlowInv, Undisturbed, reader = "append"
  PROVE  Refusal = None
<1>1. chunk \in Seq(Record) /\ wire \in Seq(Record) /\ remaining \in Nat /\ Loose = chunk
  BY DEF IInv, TypeOK, ReceiveType, Loose
<1>2. CASE Awaiting
  <2>1. Len(chunk) <= remaining
    BY <1>2, BudgetLeft DEF Unbudgeted
  <2>2. ASSUME NEW i \in DOMAIN chunk PROVE chunk[i].flit.damage # "record"
    <3>1. i \in DOMAIN (chunk \o wire) /\ (chunk \o wire)[i] = chunk[i]
      BY <1>1, <2>2
    <3>2. Stream = chunk \o wire
      BY <1>1 DEF Stream
    <3> QED
      BY <1>2, <3>1, <3>2 DEF Undisturbed, Faultless, Expectant, AllSound, SoundRecords
  <2> QED
    BY <1>1, <2>1, <2>2 DEF Refusal
<1>3. CASE ~Awaiting
  <2>1. chunk = <<>>
    BY <1>1, <1>3 DEF Undisturbed, Faultless, Expectant, Silent, Stream
  <2> QED
    BY <1>1, <2>1 DEF Refusal
<1> QED
  BY <1>2, <1>3

\* The operations of a well formed program are valid where they come.
LEMMA OperationValid ==
  ASSUME CallerType, ControlOK, FlagType, WorkInv, \A p \in Programs : WellFormed(p),
         pc = "operation", OperationsLeft, ~EntersWork
  PROVE  Valid
<1>1. /\ program \in Programs /\ opIndex \in DOMAIN program.operations
      /\ DOMAIN program.operations = 1..Len(program.operations)
      /\ OperationInv
  BY OperationAt DEF ControlOK, ExecutePlaces, WorkInv
<1>2. WellFormed(program)
  BY <1>1
<1>3. ASSUME CurrentOp.phase = "Configuration", workPhase = TRUE PROVE FALSE
  <2>1. WorkDone
    BY <1>1, <1>3 DEF OperationInv
  <2>2. PICK k \in DOMAIN program.operations :
           k < opIndex /\ program.operations[k].phase = "Work"
    BY <2>1 DEF WorkDone
  <2>3. k \in 1..opIndex - 1
    BY <1>1, <2>2
  <2> QED
    BY <1>1, <1>2, <1>3, <2>2, <2>3 DEF WellFormed, CurrentOp
<1> QED
  BY <1>1, <1>2, <1>3 DEF Valid, WellFormed, CurrentOp, FlagType

-----------------------------------------------------------------------------
\* Replies that move.

\* Replies that are asked for, each for a key of its own.
LEMMA OnceAsked ==
  ASSUME NEW keys, NEW replies, NEW records, NEW packets, NEW queue,
         NEW new, NEW more, keys \cap new = {},
         \A r \in more : r.key \in new,
         \A r, s \in more : r.key = s.key => r = s,
         Once(keys, replies, records, packets, queue)
  PROVE  Once(keys \cup new, replies \cup more, records, packets, queue)
<1> DEFINE now == Places(replies, records, packets, queue)
           added == {"owed"} \X more
           Key(place) == KeyAt(records, packets, queue, place)
<1>1. Places(replies \cup more, records, packets, queue) = now \cup added
  BY DEF Places
<1>2. \A place \in added : place[2] \in more /\ place = <<"owed", place[2]>>
  OBVIOUS
<1>3. \A place \in added : Key(place) = place[2].key
  BY DEF KeyAt
<1>4. \A place \in added : Key(place) \in new
  BY <1>2, <1>3
<1>5. \A p, q \in added : Key(p) = Key(q) => p = q
  BY <1>2, <1>3
<1>6. /\ \A place \in now : Key(place) \in keys
      /\ \A p, q \in now : Key(p) = Key(q) => p = q
  BY DEF Once
<1> HIDE DEF now, added, Key
<1>7. /\ \A place \in now \cup added : Key(place) \in keys \cup new
      /\ \A p, q \in now \cup added : Key(p) = Key(q) => p = q
  BY <1>4, <1>5, <1>6
<1> QED
  BY <1>1, <1>7, Zenon DEF Once, Key

\* The caller takes the first packet of the queue.
LEMMA OnceTaken ==
  ASSUME NEW keys, NEW replies, NEW records, NEW packets, NEW queue \in Seq(Packet),
         queue # <<>>, Once(keys, replies, records, packets, queue)
  PROVE  /\ queue[1][1].reply.key \in keys
         /\ Once(keys \ {queue[1][1].reply.key}, replies, records, packets, Tail(queue))
<1> DEFINE rest == Tail(queue)
           first == <<"queue", 1>>
           now == Places(replies, records, packets, queue)
           then == Places(replies, records, packets, rest)
           From(place) == IF place[1] = "queue" THEN <<"queue", place[2] + 1>> ELSE place
           Key(place) == KeyAt(records, packets, queue, place)
           KeyThen(place) == KeyAt(records, packets, rest, place)
<1>1. /\ Len(queue) \in Nat \ {0} /\ DOMAIN queue = 1..Len(queue)
      /\ DOMAIN rest = 1..Len(queue) - 1
      /\ \A i \in 1..Len(queue) - 1 : rest[i] = queue[i + 1]
  OBVIOUS
<1>2. first \in now /\ Key(first) = queue[1][1].reply.key
  BY <1>1 DEF Places, KeyAt
<1>3. ASSUME NEW place \in then
      PROVE  From(place) \in now /\ From(place) # first /\ Key(From(place)) = KeyThen(place)
  <2>1. CASE place[1] = "queue"
    <3>1. PICK i \in DOMAIN rest : place = <<"queue", i>>
      BY <2>1 DEF Places
    <3>2. i + 1 \in DOMAIN queue /\ i + 1 # 1 /\ rest[i] = queue[i + 1]
      BY <1>1
    <3> HIDE DEF rest
    <3> QED
      BY <3>1, <3>2 DEF Places, KeyAt
  <2>2. CASE place[1] # "queue"
    BY <2>2 DEF Places, KeyAt
  <2> QED
    BY <2>1, <2>2
<1>4. ASSUME NEW p \in then, NEW q \in then, From(p) = From(q)
      PROVE  p = q
  <2>1. CASE p[1] = "queue" /\ q[1] = "queue"
    <3>1. PICK i \in DOMAIN rest, j \in DOMAIN rest : p = <<"queue", i>> /\ q = <<"queue", j>>
      BY <2>1 DEF Places
    <3> HIDE DEF rest
    <3> QED
      BY <1>1, <1>4, <3>1
  <2>2. CASE p[1] # "queue" \/ q[1] # "queue"
    BY <1>4, <2>2
  <2> QED
    BY <2>1, <2>2
<1>5. /\ \A place \in now : Key(place) \in keys
      /\ \A p, q \in now : Key(p) = Key(q) => p = q
  BY DEF Once
<1> DEFINE k == queue[1][1].reply.key
<1>6. Key(first) = k
  BY <1>2
<1> HIDE DEF now, then, first, From, Key, KeyThen, k
<1>7. /\ \A place \in then : KeyThen(place) \in keys \ {k}
      /\ \A p, q \in then : KeyThen(p) = KeyThen(q) => p = q
  BY <1>2, <1>3, <1>4, <1>5, <1>6
<1> QED
  BY <1>2, <1>5, <1>6, <1>7, Zenon DEF Once, then, KeyThen, k, rest

\* A sequence just appended to is not empty.
LEMMA NeverEmpty ==
  ASSUME NEW S, NEW seq \in Seq(S), NEW elt \in S
  PROVE  Append(seq, elt) # <<>>
BY AppendProperties, Zenon

(***************************************************************************)
(* Delivering a record moves its reply from the stream to a partial packet *)
(* or on to the queue, and shifts the rest of the stream.                  *)
(***************************************************************************)
LEMMA OnceDelivered ==
  ASSUME NEW keys, NEW replies, NEW records \in Seq(Record), records # <<>>,
         NEW packets \in [Channels -> Seq(Flit)], NEW queue \in Seq(Packet),
         NEW c \in Channels, c = Head(records).channel, Head(records).flit \in Flit,
         packets[c] = <<>> <=> Head(records).flit.place = 1,
         NEW packetsThen, NEW queueThen,
         \/ /\ packetsThen = [packets EXCEPT ![c] = <<>>]
            /\ queueThen = Append(queue, Append(packets[c], Head(records).flit))
         \/ /\ packetsThen = [packets EXCEPT ![c] = Append(packets[c], Head(records).flit)]
            /\ queueThen = queue,
         Once(keys, replies, records, packets, queue)
  PROVE  Once(keys, replies, Tail(records), packetsThen, queueThen)
<1> DEFINE flit == Head(records).flit
           packet == Append(packets[c], flit)
           rest == Tail(records)
           now == Places(replies, records, packets, queue)
           then == Places(replies, rest, packetsThen, queueThen)
           begun == IF packets[c] = <<>> THEN <<"stream", 1>> ELSE <<"partial", c>>
           landed == IF packetsThen[c] = <<>> THEN <<"queue", Len(queue) + 1>>
                     ELSE <<"partial", c>>
           From(place) ==
              IF place[1] = "stream" THEN <<"stream", place[2] + 1>>
              ELSE IF place = <<"partial", c>> \/ place = <<"queue", Len(queue) + 1>>
                   THEN begun ELSE place
           Back(place) ==
              IF place = begun THEN landed
              ELSE IF place[1] = "stream" THEN <<"stream", place[2] - 1>> ELSE place
           Key(place) == KeyAt(records, packets, queue, place)
           KeyThen(place) == KeyAt(rest, packetsThen, queueThen, place)
<1>1. /\ Len(records) \in Nat \ {0} /\ DOMAIN records = 1..Len(records)
      /\ DOMAIN rest = 1..Len(records) - 1 /\ records[1].flit = flit
      /\ \A i \in 1..Len(records) - 1 : rest[i] = records[i + 1]
  OBVIOUS
<1>0. /\ flit \in Flit /\ packets[c] = <<>> <=> flit.place = 1
      /\ \/ packetsThen = [packets EXCEPT ![c] = <<>>] /\ queueThen = Append(queue, packet)
         \/ packetsThen = [packets EXCEPT ![c] = packet] /\ queueThen = queue
  OBVIOUS
<1> HIDE DEF flit
<1>2. /\ packet # <<>>
      /\ packets[c] = <<>> => packet[1] = flit
      /\ packets[c] # <<>> => packet[1] = packets[c][1]
  <2> DEFINE held == packets[c]
  <2>1. held \in Seq(Flit) /\ flit \in Flit
    BY <1>0
  <2> HIDE DEF held
  <2>2. Append(held, flit) # <<>>
    BY <2>1, NeverEmpty
  <2>3. held = <<>> => Append(held, flit)[1] = flit
    BY <2>1
  <2>4. held # <<>> => Append(held, flit)[1] = held[1]
    BY <2>1
  <2> QED
    BY <2>2, <2>3, <2>4 DEF held
<1> HIDE DEF packet
<1>3. begun \in now /\ Key(begun) = packet[1].reply.key
  BY <1>1, <1>2, <1>0 DEF Places, KeyAt
<1>4. /\ Len(queue) \in Nat /\ DOMAIN queue = 1..Len(queue)
      /\ \A d \in Channels : d # c => packetsThen[d] = packets[d]
      /\ packetsThen[c] = <<>> =>
            /\ DOMAIN queueThen = 1..Len(queue) + 1
            /\ queueThen[Len(queue) + 1] = packet
            /\ \A i \in 1..Len(queue) : queueThen[i] = queue[i]
      /\ packetsThen[c] # <<>> => queueThen = queue /\ packetsThen[c] = packet
  <2>1. Len(queue) \in Nat /\ DOMAIN queue = 1..Len(queue)
    OBVIOUS
  <2>2. \A d \in Channels : d # c => packetsThen[d] = packets[d]
    BY <1>0
  <2>3. /\ DOMAIN Append(queue, packet) = 1..Len(queue) + 1
        /\ Append(queue, packet)[Len(queue) + 1] = packet
        /\ \A i \in 1..Len(queue) : Append(queue, packet)[i] = queue[i]
    OBVIOUS
  <2>4. [packets EXCEPT ![c] = <<>>][c] = <<>> /\ [packets EXCEPT ![c] = packet][c] = packet
    OBVIOUS
  <2> QED
    BY <1>2, <1>0, <2>1, <2>2, <2>3, <2>4
<1>5. begun = <<"stream", 1>> \/ begun = <<"partial", c>>
  OBVIOUS
<1>6. packetsThen[c] = <<>> => landed = <<"queue", Len(queue) + 1>>
  OBVIOUS
<1>7. packetsThen[c] # <<>> => landed = <<"partial", c>>
  OBVIOUS
<1>8. /\ \A r \in replies : <<"owed", r>> \in now /\ Key(<<"owed", r>>) = r.key
      /\ \A i \in DOMAIN records : records[i].flit.place = 1 =>
            <<"stream", i>> \in now /\ Key(<<"stream", i>>) = records[i].flit.reply.key
      /\ \A d \in Channels : packets[d] # <<>> =>
            <<"partial", d>> \in now /\ Key(<<"partial", d>>) = packets[d][1].reply.key
      /\ \A i \in DOMAIN queue :
            <<"queue", i>> \in now /\ Key(<<"queue", i>>) = queue[i][1].reply.key
  BY DEF Places, KeyAt
<1>9. /\ \A r \in replies : KeyThen(<<"owed", r>>) = r.key
      /\ \A i : KeyThen(<<"stream", i>>) = rest[i].flit.reply.key
      /\ \A d : KeyThen(<<"partial", d>>) = packetsThen[d][1].reply.key
      /\ \A i : KeyThen(<<"queue", i>>) = queueThen[i][1].reply.key
  BY DEF KeyAt
<1>10. ASSUME NEW place \in then
       PROVE  \/ \E r \in replies : place = <<"owed", r>>
              \/ \E i \in DOMAIN rest : place = <<"stream", i>> /\ rest[i].flit.place = 1
              \/ \E d \in Channels : place = <<"partial", d>> /\ packetsThen[d] # <<>>
              \/ \E i \in DOMAIN queueThen : place = <<"queue", i>>
  BY <1>10 DEF Places
<1> DEFINE Moved(place) ==
              /\ From(place) \in now /\ Key(From(place)) = KeyThen(place)
              /\ Back(From(place)) = place
<1> HIDE DEF begun, landed, rest, now, then, Key, KeyThen
<1>11. ASSUME NEW r \in replies PROVE Moved(<<"owed", r>>)
  <2>1. From(<<"owed", r>>) = <<"owed", r>> /\ Back(<<"owed", r>>) = <<"owed", r>>
    BY <1>5
  <2> QED
    BY <2>1, <1>8, <1>9
<1>12. ASSUME NEW i \in DOMAIN rest, rest[i].flit.place = 1 PROVE Moved(<<"stream", i>>)
  <2>1. i + 1 \in DOMAIN records /\ rest[i] = records[i + 1] /\ (i + 1) - 1 = i /\ i + 1 # 1
    BY <1>1
  <2>2. /\ From(<<"stream", i>>) = <<"stream", i + 1>>
        /\ Back(<<"stream", i + 1>>) = <<"stream", i>>
    BY <1>5, <2>1
  <2>3. <<"stream", i + 1>> \in now /\ Key(<<"stream", i + 1>>) = rest[i].flit.reply.key
    BY <1>12, <1>8, <2>1
  <2>4. KeyThen(<<"stream", i>>) = rest[i].flit.reply.key
    BY <1>9
  <2> HIDE DEF From, Back
  <2> QED
    BY <2>2, <2>3, <2>4
<1>13. ASSUME NEW d \in Channels, packetsThen[d] # <<>> PROVE Moved(<<"partial", d>>)
  <2>1. CASE d = c
    <3>1. packetsThen[c] = packet /\ landed = <<"partial", c>>
      BY <1>4, <1>7, <1>13, <2>1
    <3>2. From(<<"partial", d>>) = begun /\ Back(begun) = <<"partial", d>>
      BY <2>1, <3>1
    <3>3. KeyThen(<<"partial", d>>) = packetsThen[d][1].reply.key
      BY <1>13, <1>8, <1>9
    <3> HIDE DEF From, Back
    <3> QED
      BY <1>3, <2>1, <3>1, <3>2, <3>3
  <2>2. CASE d # c
    <3>1. From(<<"partial", d>>) = <<"partial", d>> /\ Back(<<"partial", d>>) = <<"partial", d>>
      BY <1>5, <2>2
    <3>2. /\ <<"partial", d>> \in now
          /\ Key(<<"partial", d>>) = packetsThen[d][1].reply.key
      BY <1>4, <1>13, <1>8, <2>2
    <3>3. KeyThen(<<"partial", d>>) = packetsThen[d][1].reply.key
      BY <1>9
    <3> HIDE DEF From, Back
    <3> QED
      BY <3>1, <3>2, <3>3
  <2> QED
    BY <2>1, <2>2
<1>14. ASSUME NEW i \in DOMAIN queueThen PROVE Moved(<<"queue", i>>)
  <2>1. CASE i = Len(queue) + 1
    <3>1. packetsThen[c] = <<>>
      BY <1>4, <2>1
    <3>2. queueThen[i] = packet /\ landed = <<"queue", i>>
      BY <1>4, <1>6, <2>1, <3>1
    <3>3. From(<<"queue", i>>) = begun /\ Back(begun) = <<"queue", i>>
      BY <2>1, <3>2
    <3>4. KeyThen(<<"queue", i>>) = queueThen[i][1].reply.key
      BY <1>9
    <3> HIDE DEF From, Back
    <3> QED
      BY <1>3, <3>2, <3>3, <3>4
  <2>2. CASE i # Len(queue) + 1
    <3>1. i \in DOMAIN queue /\ queueThen[i] = queue[i]
      BY <1>4, <2>2
    <3>2. From(<<"queue", i>>) = <<"queue", i>> /\ Back(<<"queue", i>>) = <<"queue", i>>
      BY <1>5, <2>2
    <3> QED
      BY <3>1, <3>2, <1>8, <1>9
  <2> QED
    BY <2>1, <2>2
<1> HIDE DEF From, Back
<1>15. \A place \in then : Moved(place)
  <2> HIDE DEF Moved
  <2> SUFFICES ASSUME NEW place \in then PROVE Moved(place)
    OBVIOUS
  <2>1. CASE \E r \in replies : place = <<"owed", r>>
    BY <1>11, <2>1, Zenon
  <2>2. CASE \E i \in DOMAIN rest : place = <<"stream", i>> /\ rest[i].flit.place = 1
    BY <1>12, <2>2, Zenon
  <2>3. CASE \E d \in Channels : place = <<"partial", d>> /\ packetsThen[d] # <<>>
    BY <1>13, <2>3, Zenon
  <2>4. CASE \E i \in DOMAIN queueThen : place = <<"queue", i>>
    BY <1>14, <2>4, Zenon
  <2> QED
    BY <1>10, <2>1, <2>2, <2>3, <2>4, Zenon
<1>16. /\ \A place \in now : Key(place) \in keys
       /\ \A p, q \in now : Key(p) = Key(q) => p = q
  BY DEF Once, now, Key
<1>17. /\ \A place \in then : KeyThen(place) \in keys
       /\ \A p, q \in then : KeyThen(p) = KeyThen(q) => p = q
  <2>1. ASSUME NEW place \in then PROVE KeyThen(place) \in keys
    <3>1. Moved(place)
      BY <1>15, Zenon
    <3> QED
      BY <1>16, <3>1
  <2>2. ASSUME NEW p \in then, NEW q \in then, KeyThen(p) = KeyThen(q) PROVE p = q
    <3>1. Moved(p) /\ Moved(q)
      BY <1>15, Zenon
    <3>2. From(p) = From(q)
      BY <1>16, <2>2, <3>1
    <3> QED
      BY <3>1, <3>2
  <2> QED
    BY <2>1, <2>2
<1> QED
  BY <1>17, Zenon DEF Once, then, KeyThen, rest

\* The first flit of an owed reply enters the stream, another one follows it.
LEMMA OnceSent ==
  ASSUME NEW keys, NEW replies, NEW records \in Seq(Record),
         NEW packets, NEW queue, NEW record \in Record, NEW repliesThen,
         \/ record.flit.place # 1 /\ repliesThen = replies
         \/ /\ record.flit.place = 1 /\ record.flit.reply \in replies
            /\ repliesThen = replies \ {record.flit.reply},
         Once(keys, replies, records, packets, queue)
  PROVE  Once(keys, repliesThen, Append(records, record), packets, queue)
<1> DEFINE longer == Append(records, record)
           last == <<"stream", Len(records) + 1>>
           now == Places(replies, records, packets, queue)
           then == Places(repliesThen, longer, packets, queue)
           From(place) == IF place = last THEN <<"owed", record.flit.reply>> ELSE place
           Key(place) == KeyAt(records, packets, queue, place)
           KeyThen(place) == KeyAt(longer, packets, queue, place)
<1>1. /\ Len(records) \in Nat /\ DOMAIN records = 1..Len(records)
      /\ DOMAIN longer = 1..Len(records) + 1 /\ longer[Len(records) + 1] = record
      /\ \A i \in 1..Len(records) : longer[i] = records[i]
  OBVIOUS
<1> HIDE DEF longer
<1>2. ASSUME NEW place \in then
      PROVE  From(place) \in now /\ Key(From(place)) = KeyThen(place)
  <2>1. CASE place[1] = "stream"
    <3>1. PICK i \in DOMAIN longer : place = <<"stream", i>> /\ longer[i].flit.place = 1
      BY <2>1 DEF Places
    <3>2. CASE i = Len(records) + 1
      BY <1>1, <3>1, <3>2 DEF Places, KeyAt
    <3>3. CASE i # Len(records) + 1
      <4>1. i \in DOMAIN records /\ longer[i] = records[i] /\ From(place) = place
        BY <1>1, <3>1, <3>3
      <4> QED
        BY <3>1, <4>1 DEF Places, KeyAt
    <3> QED
      BY <3>2, <3>3
  <2>2. CASE place[1] # "stream"
    <3>1. From(place) = place
      BY <2>2
    <3> QED
      BY <2>2, <3>1 DEF Places, KeyAt
  <2> QED
    BY <2>1, <2>2
<1>3. <<"owed", record.flit.reply>> \notin then \/ last \notin then
  BY <1>1 DEF Places
<1>4. ASSUME NEW p \in then, NEW q \in then, From(p) = From(q)
      PROVE  p = q
  BY <1>3, <1>4
<1>5. /\ \A place \in now : Key(place) \in keys
      /\ \A p, q \in now : Key(p) = Key(q) => p = q
  BY DEF Once
<1> HIDE DEF now, then, From, Key, KeyThen
<1>6. /\ \A place \in then : KeyThen(place) \in keys
      /\ \A p, q \in then : KeyThen(p) = KeyThen(q) => p = q
  <2>1. ASSUME NEW place \in then PROVE KeyThen(place) \in keys
    BY <1>2, <1>5, Zenon
  <2>2. ASSUME NEW p \in then, NEW q \in then, KeyThen(p) = KeyThen(q) PROVE p = q
    <3>1. From(p) = From(q)
      BY <1>2, <1>5, <2>2
    <3> QED
      BY <1>4, <3>1
  <2> QED
    BY <2>1, <2>2
<1> QED
  BY <1>6, Zenon DEF Once, then, KeyThen, longer

\* What is sound stays so when it is taken or delivered.
LEMMA SoundTaken ==
  ASSUME NEW records, NEW packets, NEW queue \in Seq(Packet), queue # <<>>,
         AllSound(records, packets, queue)
  PROVE  AllSound(records, packets, Tail(queue))
  BY DEF AllSound

\* A flit that is sent undamaged leaves the rest sound.
LEMMA SoundSent ==
  ASSUME NEW records \in Seq(Record), NEW packets, NEW queue,
         NEW record \in Record, record.flit.damage = "sound",
         AllSound(records, packets, queue)
  PROVE  AllSound(Append(records, record), packets, queue)
  BY DEF AllSound, SoundRecords

\* The record that is delivered was sound, and so are the rest and its packet.
LEMMA SoundDelivered ==
  ASSUME NEW records \in Seq(Record), records # <<>>,
         NEW packets \in [Channels -> Seq(Flit)], NEW queue \in Seq(Packet),
         NEW c \in Channels, NEW packet, packet = Append(packets[c], Head(records).flit),
         NEW packetsThen, NEW queueThen,
         \/ /\ packetsThen = [packets EXCEPT ![c] = <<>>]
            /\ queueThen = Append(queue, packet)
         \/ packetsThen = [packets EXCEPT ![c] = packet] /\ queueThen = queue,
         AllSound(records, packets, queue)
  PROVE  AllSound(Tail(records), packetsThen, queueThen)
<1>1. /\ SoundRecords(Tail(records)) /\ Head(records).flit.damage = "sound"
      /\ Head(records).flit \in Flit
  <2>1. /\ Len(records) \in Nat \ {0} /\ DOMAIN records = 1..Len(records)
        /\ DOMAIN Tail(records) = 1..Len(records) - 1 /\ Head(records) = records[1]
        /\ \A i \in 1..Len(records) - 1 : Tail(records)[i] = records[i + 1]
    OBVIOUS
  <2>2. \A i \in 1..Len(records) : records[i].flit.damage = "sound"
    BY <2>1 DEF AllSound, SoundRecords
  <2>3. Head(records) \in Record
    OBVIOUS
  <2> QED
    BY <2>1, <2>2, <2>3 DEF SoundRecords, Record
<1>2. SoundFlits(packet)
  BY <1>1 DEF AllSound, SoundFlits
<1>3. SoundFlits(<<>>)
  BY DEF SoundFlits
<1>4. \A d \in Channels : SoundFlits(packetsThen[d])
  BY <1>2, <1>3 DEF AllSound
<1>5. \A i \in DOMAIN Append(queue, packet) : SoundFlits(Append(queue, packet)[i])
  <2>1. /\ DOMAIN Append(queue, packet) = 1..Len(queue) + 1
        /\ Append(queue, packet)[Len(queue) + 1] = packet
        /\ \A i \in 1..Len(queue) : Append(queue, packet)[i] = queue[i]
    OBVIOUS
  <2> QED
    BY <1>2, <2>1 DEF AllSound
<1> QED
  BY <1>1, <1>4, <1>5 DEF AllSound

-----------------------------------------------------------------------------
\* The steps of an undisturbed session.

\* What fails is counted, and what waited too long is noted for good.
LEMMA FailuresCounted ==
  ASSUME CallerType, FlagType, [Next]_vars
  PROVE  /\ UNCHANGED mishaps \/ Mishap
         /\ timedOut = TRUE => timedOut' = TRUE
<1>1. CASE Call
  BY <1>1
  DEF Call, Open, Close, ClearWeightResidency, ExecuteRefused, Execute
<1>2. CASE Closing
  BY <1>2
  DEF Closing, DriverCancel, Join, DrainRead, DrainEmpty, DrainError,
      DrainAppend, DrainDeliver, DrainDelivered, DriverClose, Mishap
<1>3. CASE Opening
  BY <1>3
  DEF Opening, OpenFails, OpenDriver, SessionStarts, SessionFails, SessionTimeout
<1>4. CASE Begin
  BY <1>4 DEF Begin
<1>5. CASE ConfigurePhase
  BY <1>5
  DEF ConfigurePhase, PhaseAborted, PhaseKept, PLLEchoed, PLLPortMissing,
      PLLFails, Mishap
<1>6. CASE Operations
  BY <1>6
  DEF Operations, EnterWork, InvalidOperation, WeightHit, StartOperation,
      OperationsDone, OperationOnly
<1>7. CASE Write
  BY <1>7 DEF Write, WriteChunk, WriteFails, Mishap
<1>8. CASE Readback
  BY <1>8
  DEF Readback, StartBatch, Arm, TakeResponse, NoResponse, Seal, BatchesDone, Finish
<1>9. CASE Reader
  BY <1>9
  DEF Reader, ReaderStart, ReaderCheck, ReaderRead, ReaderReadNothing,
      ReaderReadError, ReaderAppend, ReaderDeliver, ReaderDelivered, Mishap
<1>10. CASE Environment
  BY <1>10 DEF Environment, BoardSend, BoardSpoil, LinkDrop, Mishap
<1>11. CASE UNCHANGED vars
  BY <1>11
<1> QED
  BY <1>1, <1>2, <1>3, <1>4, <1>5, <1>6, <1>7, <1>8, <1>9, <1>10, <1>11
  DEF Next, Caller

(***************************************************************************)
(* No check fails while nothing else does: each is passed with what the    *)
(* session holds at that point.                                            *)
(***************************************************************************)
LEMMA NoCheckFails ==
  ASSUME IInv, WorkInv, BudgetInv, FlowInv, ReaderInv, Undisturbed,
         \A p \in Programs : WellFormed(p),
         [Next]_vars, ~Mishap, timedOut' = FALSE
  PROVE  Faultless' /\ ~DrainRead
<1> USE DEF Faultless
<1>1. /\ TypeOK /\ CallerType /\ FlagType /\ ReceiveType /\ ControlOK /\ DriverInv /\ ChunkInv
      /\ linkUp = TRUE /\ faulted = FALSE /\ receiveError = None
      /\ pc \notin {"drainAppend", "drainDeliver"}
      /\ ~Awaiting => Silent
  BY DEF IInv, TypeOK, Undisturbed, Faultless, Expectant
<1>2. ~DrainRead
  <2> SUFFICES ASSUME DrainRead PROVE FALSE
    OBVIOUS
  <2>1. Silent
    BY <1>1 DEF DrainRead, Awaiting
  <2>2. wire = <<>>
    BY <1>1, <2>1 DEF Silent, Stream, Loose, ReceiveType
  <2>3. PICK n \in 0..ReadRecords, half \in BOOLEAN :
           n <= Len(wire) /\ (half => n < Len(wire)) /\ (n > 0 \/ (half /\ ~wireHalf))
    BY DEF DrainRead, TakeFromWire
  <2> QED
    BY <2>2, <2>3
<1> SUFFICES Faultless'
  BY <1>2
<1>3. ASSUME pc \in ExecutePlaces, ~Awaiting PROVE BoundaryClean
  BY <1>1, <1>3, SilentClean
<1>4. CASE Call
  BY <1>1, <1>4
  DEF Call, Open, Close, ClearWeightResidency, ExecuteRefused, Execute,
      NewCall, BeginClose
<1>5. CASE Closing
  BY <1>1, <1>2, <1>5
  DEF Closing, DriverCancel, Join, DrainEmpty, DrainError,
      DrainAppend, DrainDeliver, DrainDelivered, DriverClose, DrainOnly
<1>6. CASE Opening
  BY <1>1, <1>6
  DEF Opening, OpenFails, OpenDriver, SessionStarts, SessionFails,
      SessionTimeout, BeginClose
<1>7. CASE Begin
  <2>1. BoundaryClean
    BY <1>3, <1>7 DEF Begin, ExecutePlaces, ReadbackPlaces, Awaiting
  <2> QED
    BY <1>1, <1>7, <2>1 DEF Begin, ExecuteOnly
<1>8. CASE ConfigurePhase
  BY <1>1, <1>8
  DEF ConfigurePhase, PhaseAborted, PhaseKept, PLLEchoed, PLLPortMissing,
      PLLFails, MustConfigure, AfterPhase, PLLOnly, ExecuteOnly
<1>9. CASE Operations
  <2>1. ~InvalidOperation
    BY <1>1, OperationValid DEF InvalidOperation
  <2> QED
    BY <1>1, <1>9, <2>1
    DEF Operations, EnterWork, WeightHit, StartOperation,
        OperationsDone, StartWrite, OperationOnly, ExecuteOnly
<1>10. CASE Write
  BY <1>1, <1>10
  DEF Write, WriteChunk, WriteFails, WriteOnly, CallerType
<1>11. CASE Readback
  <2>1. ASSUME StartBatch PROVE WellFormedBatch(CurrentBatch) /\ BoundaryClean
    <3>1. pc \in ExecutePlaces /\ ~Awaiting /\ batchIndex \in 1..Len(program.batches)
      BY <1>1, <2>1
      DEF StartBatch, BatchesLeft, CallerType, ExecutePlaces, ReadbackPlaces, Awaiting
    <3>2. program \in Programs /\ program \in Program
      BY <1>1, <3>1, ProgramsAssumption DEF ControlOK, ProgramAssumption
    <3>3. batchIndex \in DOMAIN program.batches
      BY <3>1, <3>2 DEF Program
    <3> QED
      BY <1>3, <3>1, <3>2, <3>3 DEF WellFormed, CurrentBatch
  <2>2. ASSUME Arm \/ Finish PROVE BoundaryClean
    BY <1>3, <2>2 DEF Arm, Finish, ExecutePlaces, ReadbackPlaces, Awaiting
  <2>3. ASSUME Seal PROVE BoundaryClean
    BY <2>3, SealClean DEF Seal
  <2>4. ASSUME TakeResponse PROVE Acceptable(Head(responses))
    BY <2>4, TakeAccepts DEF TakeResponse, Awaiting
  <2>5. ~NoResponse
    BY <1>1, TakeWaits DEF NoResponse
  <2>6. CASE StartBatch
    BY <1>1, <2>1, <2>6 DEF StartBatch, StartWrite, ReadbackOnly, ExecuteOnly
  <2>7. CASE Arm
    BY <1>1, <2>2, <2>7 DEF Arm, StartWrite, ExecuteOnly
  <2>8. CASE TakeResponse
    BY <1>1, <2>4, <2>8 DEF TakeResponse, ReadbackOnly, ExecuteOnly
  <2>9. CASE Seal
    BY <1>1, <2>3, <2>9 DEF Seal, ReadbackOnly, ExecuteOnly
  <2>10. CASE BatchesDone
    BY <1>1, <2>10 DEF BatchesDone, ReadbackOnly, ExecuteOnly
  <2>11. CASE Finish
    BY <1>1, <2>2, <2>11 DEF Finish, Return, ReadbackOnly, ExecuteOnly
  <2> QED
    BY <1>11, <2>5, <2>6, <2>7, <2>8, <2>9, <2>10, <2>11 DEF Readback
<1>12. CASE Reader
  <2>1. ASSUME reader = "append" PROVE Refusal = None
    BY <2>1, AppendAccepts
  <2> QED
    BY <1>1, <1>12, <2>1
    DEF Reader, ReaderStart, ReaderCheck, ReaderRead, ReaderReadNothing,
        ReaderReadError, ReaderAppend, AcceptChunk, RefuseChunk, TakeFromWire,
        ReaderDeliver, DeliverRecord, ReaderDelivered, ReaderOnly, DriverInv
<1>13. CASE Environment
  BY <1>1, <1>13
  DEF Environment, BoardSend, BoardSpoil, LinkDrop, Undisturbed, Faultless, Expectant
<1>14. CASE UNCHANGED vars
  BY <1>1, <1>14 DEF Undisturbed, Faultless, Expectant
<1> QED
  BY <1>2, <1>4, <1>5, <1>6, <1>7, <1>8, <1>9, <1>10, <1>11, <1>12, <1>13, <1>14
  DEF Next, Caller

\* A part of a record is left only where the rest of it is still to come.
LEMMA HalfStep ==
  ASSUME CallerType, FlagType, ReceiveType, DriverInv, reader # "none" => HalfInv,
         pc = "openDriver" => wireHalf = FALSE,
         [Next]_vars, receiveError' = None
  PROVE  reader' # "none" => HalfInv'
<1> USE DEF HalfInv
<1> DEFINE Kept == UNCHANGED <<reader, wire, wireHalf, codecHalf, chunkHalf>>
<1>1. ASSUME Call PROVE Kept
  BY <1>1
  DEF Call, Open, Close, ClearWeightResidency, ExecuteRefused, Execute,
      NewCall, BeginClose
<1>2. CASE Closing
  BY <1>2
  DEF Closing, DriverCancel, Join, DrainRead, DrainEmpty, DrainError,
      DrainAppend, DrainDeliver, DrainDelivered, DriverClose, DrainOnly, DriverInv
<1>3. CASE Opening
  <2>1. CASE OpenDriver
    BY <2>1 DEF OpenDriver
  <2>2. ASSUME ~OpenDriver PROVE Kept
    BY <1>3, <2>2
    DEF Opening, OpenFails, SessionStarts, SessionFails, SessionTimeout, BeginClose
  <2> QED
    BY <2>1, <2>2
<1>4. ASSUME Begin PROVE Kept
  BY <1>4 DEF Begin, ExecuteOnly
<1>5. ASSUME ConfigurePhase PROVE Kept
  BY <1>5
  DEF ConfigurePhase, PhaseAborted, PhaseKept, PLLEchoed, PLLPortMissing,
      PLLFails, MustConfigure, PLLOnly, ExecuteOnly
<1>6. ASSUME Operations PROVE Kept
  BY <1>6
  DEF Operations, EnterWork, InvalidOperation, WeightHit, StartOperation,
      OperationsDone, OperationOnly, ExecuteOnly
<1>7. ASSUME Write PROVE Kept
  BY <1>7 DEF Write, WriteChunk, WriteFails, WriteOnly
<1>8. ASSUME Readback PROVE Kept
  BY <1>8
  DEF Readback, StartBatch, Arm, TakeResponse, NoResponse, Seal, BatchesDone,
      Finish, ReadbackOnly, ExecuteOnly
<1>9. CASE Reader
  <2>1. CASE ReaderRead
    <3>1. PICK n \in 0..ReadRecords, half \in BOOLEAN :
             /\ n <= Len(wire) /\ (half => n < Len(wire))
             /\ chunkHalf' = half /\ wireHalf' = half
             /\ wire' = SubSeq(wire, n + 1, Len(wire))
      BY <2>1 DEF ReaderRead, TakeFromWire
    <3>2. half = TRUE => wire' # <<>>
      <4>1. wire \in Seq(Record) /\ n \in Nat
        BY ConstantAssumption DEF ReceiveType
      <4>2. half = TRUE => Len(wire') > 0
        BY <3>1, <4>1
      <4> QED
        BY <4>2
    <3> QED
      BY <2>1, <3>1, <3>2 DEF ReaderRead
  <2>2. CASE ReaderAppend
    <3>1. AcceptChunk /\ reader = "append" /\ reader' = "deliver" /\ UNCHANGED <<wire, wireHalf>>
      BY <2>2 DEF ReaderAppend, RefuseChunk
    <3> QED
      BY <3>1 DEF AcceptChunk
  <2>3. CASE ~ReaderRead /\ ~ReaderAppend
    BY <1>9, <2>3
    DEF Reader, ReaderStart, ReaderCheck, ReaderReadNothing, ReaderReadError,
        ReaderDeliver, DeliverRecord, ReaderDelivered
  <2> QED
    BY <2>1, <2>2, <2>3
<1>10. CASE Environment
  <2>1. ASSUME NEW c \in Channels, NEW reply, NEW place, NEW damage,
               wire' = Append(wire, NextFlit(c, reply, place, damage))
        PROVE  wire' # <<>>
    BY <2>1, AppendProperties DEF ReceiveType
  <2>2. UNCHANGED <<reader, wireHalf, codecHalf, chunkHalf>> /\ (wire # <<>> => wire' # <<>>)
    BY <1>10, <2>1 DEF Environment, BoardSend, BoardSpoil, LinkDrop
  <2> QED
    BY <2>2
<1>11. ASSUME UNCHANGED vars PROVE Kept
  BY <1>11
<1> QED
  BY <1>1, <1>2, <1>3, <1>4, <1>5, <1>6, <1>7, <1>8, <1>9, <1>10, <1>11
  DEF Next, Caller

\* Nothing comes where nothing is awaited, in or out of a session.
LEMMA StaysQuiet ==
  ASSUME CallerType, FlagType, ReceiveType, DriverInv, BoardQuiet, Silent,
         ~Awaiting, ~Awaiting', pc \notin {"drainAppend", "drainDeliver"},
         [Next]_vars, ~DrainRead, faulted' = FALSE
  PROVE  Silent'
<1> DEFINE Kept == UNCHANGED <<owed, sending, responses, partial, reader, chunk, wire>>
<1>1. /\ owed = {} /\ \A c \in Channels : sending[c] = None /\ partial[c] = <<>>
      /\ responses = <<>> /\ Loose = <<>> /\ wire = <<>>
  BY DEF Silent, Stream, Loose, ReceiveType
<1>2. ASSUME Call PROVE Kept
  BY <1>2
  DEF Call, Open, Close, ClearWeightResidency, ExecuteRefused, Execute,
      NewCall, BeginClose
<1>3. CASE Closing
  <2>1. CASE DriverClose \/ Join
    <3>1. /\ UNCHANGED <<owed, sending, responses, partial, chunk>>
          /\ wire' = <<>> /\ (reader' = reader \/ reader' = "none")
      BY <1>1, <2>1 DEF DriverClose, Join
    <3>2. Stream' = <<>>
      BY <1>1, <3>1 DEF Stream, Loose
    <3> QED
      BY <1>1, <3>1, <3>2 DEF Silent
  <2>2. ASSUME ~DriverClose, ~Join PROVE Kept
    BY <1>3, <2>2
    DEF Closing, DriverCancel, DrainEmpty, DrainError, DrainAppend, DrainDeliver,
        DrainDelivered, DrainOnly
  <2> QED
    BY <2>1, <2>2, SilentStays
<1>4. CASE Opening
  <2>1. CASE OpenDriver
    <3>1. /\ owed' = {} /\ sending' = [c \in Channels |-> None]
          /\ partial' = [c \in Channels |-> <<>>] /\ responses' = <<>>
          /\ Stream' = <<>>
      BY <2>1 DEF OpenDriver, Stream, Loose
    <3> QED
      BY <3>1 DEF Silent
  <2>2. ASSUME ~OpenDriver PROVE Kept
    BY <1>4, <2>2
    DEF Opening, OpenFails, SessionStarts, SessionFails, SessionTimeout, BeginClose
  <2> QED
    BY <2>1, <2>2, SilentStays
<1>5. ASSUME Begin PROVE Kept
  BY <1>5 DEF Begin, ExecuteOnly
<1>6. ASSUME ConfigurePhase PROVE Kept
  BY <1>6
  DEF ConfigurePhase, PhaseAborted, PhaseKept, PLLEchoed, PLLPortMissing,
      PLLFails, MustConfigure, PLLOnly, ExecuteOnly
<1>7. ASSUME Operations PROVE Kept
  BY <1>7
  DEF Operations, EnterWork, InvalidOperation, WeightHit, StartOperation,
      OperationsDone, OperationOnly, ExecuteOnly
<1>8. ASSUME Write PROVE Kept
  <2>1. WriteChunk /\ job # "request"
    BY <1>8 DEF Write, WriteChunk, WriteFails, Fault, Awaiting
  <2> QED
    BY <2>1
    DEF WriteChunk, WriteOnly, Lands, OperationLands, SelectionLands
<1>9. ASSUME Readback PROVE Kept
  BY <1>9
  DEF Readback, StartBatch, Arm, TakeResponse, NoResponse, Seal, BatchesDone,
      Finish, ReadbackOnly, ExecuteOnly, Awaiting
<1>10. ASSUME UNCHANGED vars PROVE Kept
  BY <1>10
<1> QED
  BY <1>2, <1>3, <1>4, <1>5, <1>6, <1>7, <1>8, <1>9, <1>10, SilentStays, Zenon
  DEF Next, Caller

\* A batch is armed with every target to come.
LEMMA ArmExpects ==
  ASSUME IInv, PlaceInv, BudgetInv, Silent, Arm, BoundaryClean
  PROVE  Expectant'
<1>1. Slack' = 0
  BY ArmFlows
<1>2. /\ asked' = {} /\ wanted' = Targets(CurrentBatch)
      /\ UNCHANGED <<program, batchIndex, owed, sending, responses, partial, reader, chunk, wire>>
  BY DEF Arm, ExecuteOnly
<1>3. /\ owed' = {} /\ \A c \in Channels : sending'[c] = None /\ partial'[c] = <<>>
      /\ responses' = <<>>
  BY <1>2 DEF Silent
<1>4. Stream' = <<>>
  BY <1>2 DEF Silent, Stream, Loose
<1>5. AllSound(Stream', partial', responses')
  BY <1>3, <1>4 DEF AllSound, SoundRecords, SoundFlits
<1>6. Places(owed', Stream', partial', responses') = {}
  BY <1>3, <1>4 DEF Places
<1>7. Targets(CurrentBatch)' \ asked' \subseteq wanted'
  BY <1>2 DEF CurrentBatch
<1> QED
  BY <1>1, <1>3, <1>5, <1>6, <1>7, Zenon DEF Expectant, KeysOnce, Once

\* Every step that keeps the batch awaited keeps what is to come of it.
LEMMA ExpectantStep ==
  ASSUME IInv, FlowInv, Expectant, Undisturbed, [Next]_vars, ~Mishap,
         Awaiting, Awaiting', receiveError' = None
  PROVE  Expectant'
<1>1. /\ TypeOK /\ ControlOK /\ ReceiveType /\ BoardType /\ InBatch /\ IsFiniteSet(owed)
      /\ Slack = 0 /\ AllSound(Stream, partial, responses) /\ KeysOnce /\ Aligned
  BY DEF IInv, TypeOK, Awaiting, InBatch, FlowInv, Expectant
<1>2. UNCHANGED <<program, batchIndex>>
  BY <1>1, StreamSteps
<1> DEFINE keys == wanted \cap asked
           known == Targets(CurrentBatch)
<1>3. /\ Once(keys, owed, Stream, partial, responses)
      /\ known \ asked \subseteq wanted
      /\ \A c \in Channels : sending[c] # None => sending[c].place # 1
      /\ known' = known
  BY <1>1, <1>2 DEF KeysOnce, CurrentBatch
<1>4. ASSUME Slack' = 0, AllSound(Stream', partial', responses'),
             Once(wanted' \cap asked', owed', Stream', partial', responses'),
             known \ asked' \subseteq wanted',
             \A c \in Channels : sending'[c] # None => sending'[c].place # 1
      PROVE  Expectant'
  BY <1>3, <1>4, Zenon DEF Expectant, KeysOnce, known
<1> HIDE DEF known
<1>5. CASE WriteChunk /\ job = "request"
  <2>1. /\ UNCHANGED <<wanted, remaining, reader, chunk, wire, sending, partial, responses>>
        /\ RequestLands(chunksLeft' = 0)
    BY <1>5 DEF WriteChunk, WriteOnly, Lands
  <2>2. PICK new \in SUBSET (known \ asked) :
           asked' = asked \cup new /\ owed' = owed \cup Answers(new)
    BY <2>1 DEF RequestLands, Answers, known
  <2>3. CurrentBatch \in Batch
    BY <1>1, BatchKnown DEF TypeOK
  <2>4. \A r \in owed : r.key \in keys
    <3>1. ASSUME NEW r \in owed
          PROVE  /\ <<"owed", r>> \in Places(owed, Stream, partial, responses)
                 /\ KeyAt(Stream, partial, responses, <<"owed", r>>) = r.key
      BY DEF Places, KeyAt
    <3>2. \A place \in Places(owed, Stream, partial, responses) :
             KeyAt(Stream, partial, responses, place) \in keys
      BY <1>3, Zenon DEF Once
    <3> HIDE DEF keys
    <3> QED
      BY <3>1, <3>2
  <2>5. Slack' = Slack + 0
    <3>1. Demand(CurrentBatch, asked', owed') = Demand(CurrentBatch, asked, owed)
      BY <1>1, <2>2, <2>3, <2>4, RequestExact DEF Demand, known
    <3>2. /\ Demand(CurrentBatch, asked, owed) \in Int
          /\ Total(RestHeight(sending)) \in Int /\ Len(wire) \in Int
      BY <1>1, SupplyType
    <3> DEFINE due == Demand(CurrentBatch, asked, owed)
               rest == Total(RestHeight(sending))
               length == Len(wire)
    <3>3. /\ due = Demand(CurrentBatch, asked', owed')
          /\ rest = Total(RestHeight(sending')) /\ length = Len(wire')
      BY <2>1, <3>1
    <3>4. due \in Int /\ rest \in Int /\ length \in Int /\ 0 \in Int
      BY <3>2
    <3> HIDE DEF due, rest, length
    <3>5. due + rest + length + 0 = due + rest + length
      BY <3>4
    <3> QED
      BY <1>1, <1>2, <2>1, <3>3, <3>4, <3>5, SlackOwed DEF due, rest, length
  <2>6. Slack' = 0
    <3>1. Slack + 0 = 0
      BY <1>1
    <3> QED
      BY <2>5, <3>1, Zenon
  <2>7. Stream' = Stream
    BY <2>1 DEF Stream, Loose
  <2>8. Once(keys \cup new, owed \cup Answers(new), Stream, partial, responses)
    <3>1. /\ keys \cap new = {}
          /\ \A r \in Answers(new) : r.key \in new
          /\ \A r, s \in Answers(new) : r.key = s.key => r = s
      BY DEF Answers
    <3> QED
      BY <1>3, <3>1, OnceAsked
  <2>9. wanted' \cap asked' = keys \cup new /\ known \ asked' \subseteq wanted'
    BY <1>3, <2>1, <2>2
  <2> HIDE DEF keys
  <2> QED
    BY <1>1, <1>3, <1>4, <2>1, <2>2, <2>6, <2>7, <2>8, <2>9, Zenon
<1>6. CASE TakeResponse /\ Acceptable(Head(responses))
  <2> DEFINE key == responses[1][1].reply.key
  <2>1. /\ responses # <<>> /\ responses' = Tail(responses) /\ wanted' = wanted \ {key}
        /\ UNCHANGED <<partial, asked, owed, sending, remaining, reader, chunk, wire>>
    <3>1. /\ responses # <<>> /\ responses' = Tail(responses)
          /\ wanted' = wanted \ {Head(responses)[1].reply.key}
          /\ UNCHANGED <<partial, asked, owed, sending, remaining, reader, chunk, wire>>
      BY <1>6, Zenon DEF TakeResponse, ReadbackOnly, ExecuteOnly
    <3>2. Head(responses) = responses[1]
      BY <1>1, <3>1 DEF ReceiveType
    <3> QED
      BY <3>1, <3>2
  <2>2. Stream' = Stream
    BY <2>1 DEF Stream, Loose
  <2>3. Slack' = Slack
    BY <1>2, <2>1, Zenon DEF Slack, Supply, CurrentBatch, Unbudgeted
  <2>4. responses \in Seq(Packet)
    BY <1>1 DEF ReceiveType
  <2>5. AllSound(Stream, partial, Tail(responses))
    BY <1>1, <2>1, <2>4, SoundTaken
  <2>6. key \in keys /\ Once(keys \ {key}, owed, Stream, partial, Tail(responses))
    BY <1>3, <2>1, <2>4, OnceTaken
  <2>7. wanted' \cap asked' = keys \ {key} /\ known \ asked' \subseteq wanted'
    BY <1>3, <2>1, <2>6
  <2> HIDE DEF key, keys
  <2> QED
    BY <1>1, <1>3, <1>4, <2>1, <2>2, <2>3, <2>5, <2>6, <2>7, Zenon
<1>7. CASE ReaderDeliver
  <2> DEFINE c == Head(chunk).channel
             flit == Head(chunk).flit
             packet == Append(partial[c], flit)
  <2>1. /\ reader = "deliver" /\ reader' = "deliver"
        /\ UNCHANGED <<asked, wanted, owed, sending, remaining, wire>>
        /\ \/ /\ partial' = [partial EXCEPT ![c] = <<>>]
              /\ responses' = Append(responses, packet)
           \/ partial' = [partial EXCEPT ![c] = packet] /\ responses' = responses
    BY <1>7 DEF ReaderDeliver, DeliverRecord, ReaderOnly
  <2>2. Unbudgeted' = Unbudgeted
    BY <2>1 DEF Unbudgeted
  <2>3. Slack' = Slack
    BY <1>2, <2>1, <2>2, Zenon DEF Slack, Supply, CurrentBatch
  <2>4. /\ Stream # <<>> /\ Head(Stream) = Head(chunk) /\ Stream' = Tail(Stream)
        /\ Head(chunk) \in Record /\ Stream \in Seq(Record)
    BY <1>1, <1>7, DeliverTakesFirst, StreamType
  <2>5. /\ c \in Channels /\ flit \in Flit
        /\ partial \in [Channels -> Seq(Flit)] /\ responses \in Seq(Packet)
    BY <1>1, <2>4 DEF Record, ReceiveType
  <2>6. partial[c] = <<>> <=> flit.place = 1
    <3>1. Fits(DecoderAt(partial), Head(chunk))
      BY <1>1, <2>4, CarriesFirst DEF Aligned
    <3>2. CASE partial[c] = <<>>
      <4>1. DecoderAt(partial)[c] = None
        BY <2>5, <3>2 DEF DecoderAt, Cursor
      <4> QED
        BY <3>1, <3>2, <4>1 DEF Fits
    <3>3. CASE partial[c] # <<>>
      <4>1. Len(partial[c]) \in 1..PacketFlits - 1 /\ partial[c][1] \in Flit
        BY <1>1, <2>5, <3>3, ConstantAssumption DEF ReceiveType
      <4>2. DecoderAt(partial)[c] = [reply |-> partial[c][1].reply, place |-> Len(partial[c]) + 1]
        BY <2>5, <3>3 DEF DecoderAt, Cursor
      <4>3. DecoderAt(partial)[c] \in [reply : Reply, place : 1..PacketFlits]
        BY <4>1, <4>2, ConstantAssumption DEF Flit
      <4>4. flit.place = Len(partial[c]) + 1
        BY <3>1, <4>2, <4>3, SendingAssumption DEF Fits
      <4> QED
        BY <3>3, <4>1, <4>4
    <3> QED
      BY <3>2, <3>3
  <2>7. PICK partialThen, responsesThen : partialThen = partial' /\ responsesThen = responses'
    OBVIOUS
  <2>8. /\ \/ /\ partialThen = [partial EXCEPT ![c] = <<>>]
              /\ responsesThen = Append(responses, packet)
           \/ partialThen = [partial EXCEPT ![c] = packet] /\ responsesThen = responses
        /\ c = Head(Stream).channel /\ flit = Head(Stream).flit
    BY <2>1, <2>4, <2>7
  <2>12. packet = Append(partial[c], flit)
    OBVIOUS
  <2>13. /\ Head(Stream).flit \in Flit /\ c = Head(Stream).channel
         /\ partial[c] = <<>> <=> Head(Stream).flit.place = 1
         /\ \/ /\ partialThen = [partial EXCEPT ![c] = <<>>]
               /\ responsesThen = Append(responses, Append(partial[c], Head(Stream).flit))
            \/ /\ partialThen = [partial EXCEPT ![c] = Append(partial[c], Head(Stream).flit)]
               /\ responsesThen = responses
    BY <2>4, <2>5, <2>6, <2>8
  <2> HIDE DEF c, flit, packet, keys
  <2>9. Once(keys, owed, Tail(Stream), partialThen, responsesThen)
    BY <1>3, <2>4, <2>5, <2>6, <2>13, OnceDelivered
  <2>10. AllSound(Tail(Stream), partialThen, responsesThen)
    BY <1>1, <2>4, <2>5, <2>8, <2>12, SoundDelivered
  <2>11. wanted' \cap asked' = keys /\ known \ asked' \subseteq wanted'
    BY <1>3, <2>1 DEF keys
  <2> QED
    BY <1>1, <1>3, <1>4, <2>1, <2>3, <2>4, <2>7, <2>9, <2>10, <2>11, Zenon
<1>8. ~(ReaderAppend /\ RefuseChunk) /\ ~LinkDrop
  BY DEF ReaderAppend, RefuseChunk, LinkDrop
<1>9. CASE Quiet
  <2>1. /\ wanted' \cap asked' = keys /\ known \ asked' \subseteq wanted'
        /\ UNCHANGED <<owed, sending, partial, responses>>
        /\ Stream' = Stream /\ Slack' = Slack
    BY <1>3, <1>9 DEF Quiet
  <2> HIDE DEF keys
  <2> QED
    BY <1>1, <1>3, <1>4, <2>1, Zenon
<1>10. ASSUME NEW c \in Channels, NEW reply \in InFlight, NEW place \in 1..PacketFlits,
              NEW damage \in Damage, Sends(c, reply, place, damage), damage = "sound",
              UNCHANGED <<asked, partial, responses, readbacks, wanted, remaining,
                          reader, chunk>>
       PROVE  Expectant'
  <2> DEFINE record == NextFlit(c, reply, place, damage)
  <2>1. /\ TakeFlit(c, reply, place) /\ wire' = Append(wire, record)
        /\ sending' = [sending EXCEPT ![c] = Rest(reply, place)]
        /\ \/ sending[c] # None /\ place = sending[c].place /\ owed' = owed
           \/ place = 1 /\ reply \in owed /\ owed' = owed \ {reply}
    BY <1>10 DEF Sends, TakeFlit
  <2>2. reply \in Reply
    BY <1>1 DEF InFlight, BoardType
  <2>3. /\ record \in Record /\ record.flit.damage = "sound"
        /\ record.flit.reply = reply /\ record.flit.place = place
    BY <1>10, <2>2 DEF NextFlit, Record, Flit
  <2>4. Stream' = Append(Stream, record) /\ Stream \in Seq(Record)
    BY <1>1, <1>10, <2>1, <2>3, SendAppends, StreamType
  <2>5. Slack' = Slack + (1 - 1)
    <3>1. BoardType'
      BY <1>1, BoardStep DEF IInv, TypeOK
    <3>2. Len(wire') = Len(wire) + 1
      BY <1>1, <2>1, <2>3 DEF ReceiveType
    <3> QED
      BY <1>1, <1>2, <1>10, <2>1, <3>1, <3>2, SlackSent
  <2>6. Slack' = 0
    <3>1. Slack + (1 - 1) = 0
      BY <1>1
    <3> QED
      BY <2>5, <3>1, Zenon
  <2>7. \A d \in Channels : sending'[d] # None => sending'[d].place # 1
    BY <1>1, <1>3, <2>1, ConstantAssumption DEF Rest, BoardType
  <2>8. PICK owedThen : owedThen = owed'
    OBVIOUS
  <2>9. \/ record.flit.place # 1 /\ owedThen = owed
        \/ /\ record.flit.place = 1 /\ record.flit.reply \in owed
           /\ owedThen = owed \ {record.flit.reply}
    BY <1>3, <2>1, <2>3, <2>8
  <2> HIDE DEF record, keys
  <2>10. Once(keys, owedThen, Append(Stream, record), partial, responses)
    BY <1>3, <2>3, <2>4, <2>9, OnceSent
  <2>11. AllSound(Append(Stream, record), partial, responses)
    BY <1>1, <2>3, <2>4, SoundSent
  <2>12. /\ wanted' \cap asked' = keys /\ known \ asked' \subseteq wanted'
         /\ UNCHANGED <<partial, responses>>
    BY <1>3, <1>10 DEF keys
  <2> QED
    BY <1>4, <2>4, <2>6, <2>7, <2>8, <2>10, <2>11, <2>12, Zenon
<1> QED
  BY <1>1, <1>5, <1>6, <1>7, <1>8, <1>9, <1>10, StreamSteps

\* Only Seal ends the wait for a batch without a fault.
LEMMA AwaitEnds ==
  ASSUME CallerType, [Next]_vars, Awaiting, ~Awaiting', faulted' = FALSE
  PROVE  Seal /\ BoundaryClean
<1> USE DEF Awaiting
<1>1. ASSUME Call PROVE FALSE
  BY <1>1
  DEF Call, Open, Close, ClearWeightResidency, ExecuteRefused, Execute, NewCall
<1>2. ASSUME Closing PROVE FALSE
  BY <1>2
  DEF Closing, DriverCancel, Join, DrainRead, DrainEmpty, DrainError,
      DrainAppend, DrainDeliver, DrainDelivered, DriverClose
<1>3. ASSUME Opening PROVE FALSE
  BY <1>3
  DEF Opening, OpenFails, OpenDriver, SessionStarts, SessionFails, SessionTimeout
<1>4. ASSUME Begin \/ ConfigurePhase \/ Operations PROVE FALSE
  BY <1>4
  DEF Begin, ConfigurePhase, PhaseAborted, PhaseKept, PLLEchoed, PLLPortMissing,
      PLLFails, MustConfigure, Operations, EnterWork, InvalidOperation, WeightHit,
      StartOperation, OperationsDone
<1>5. ASSUME Write PROVE FALSE
  BY <1>5 DEF Write, WriteChunk, WriteFails, WriteOnly, Fault
<1>6. ASSUME Readback PROVE Seal /\ BoundaryClean
  BY <1>6
  DEF Readback, StartBatch, Arm, TakeResponse, NoResponse, Seal, BatchesDone,
      Finish, ReadbackOnly, ExecuteOnly, FaultReadback, Fault, StartWrite
<1>7. ASSUME Reader PROVE FALSE
  BY <1>7
  DEF Reader, ReaderStart, ReaderCheck, ReaderRead, ReaderReadNothing,
      ReaderReadError, ReaderAppend, ReaderDeliver, ReaderDelivered, ReaderOnly
<1>8. ASSUME Environment PROVE FALSE
  BY <1>8 DEF Environment, BoardSend, BoardSpoil, LinkDrop
<1>9. ASSUME UNCHANGED vars PROVE FALSE
  BY <1>9
<1> QED
  BY <1>1, <1>2, <1>3, <1>4, <1>5, <1>6, <1>7, <1>8, <1>9 DEF Next, Caller

\* An undisturbed session stays so.
LEMMA CalmStep ==
  ASSUME IInv, WorkInv, AnswersInv, ReaderInv, CalmInv, [Next]_vars
  PROVE  CalmInv'
<1> SUFFICES ASSUME Calm' PROVE Undisturbed'
  BY DEF CalmInv
<1>1. /\ TypeOK /\ CallerType /\ FlagType /\ ReceiveType /\ DriverInv
      /\ BudgetInv /\ PlaceInv /\ (BoardQuiet => FlowInv)
  BY DEF IInv, TypeOK, AnswersInv
<1>2. /\ BoardQuiet /\ \A p \in Programs : WellFormed(p)
      /\ mishaps' = 0 /\ timedOut' = FALSE
  BY DEF Calm
<1>3. mishaps = 0 /\ timedOut = FALSE /\ ~Mishap
  <2>1. ~Mishap
    BY <1>1, <1>2 DEF Mishap, CallerType
  <2> QED
    BY <1>1, <1>2, <2>1, FailuresCounted DEF FlagType
<1>4. Undisturbed /\ FlowInv
  BY <1>1, <1>2, <1>3 DEF CalmInv, Calm
<1>5. Faultless' /\ ~DrainRead
  BY <1>1, <1>2, <1>3, <1>4, NoCheckFails
<1>6. faulted' = FALSE /\ receiveError' = None
  BY <1>5 DEF Faultless
<1>7. reader' # "none" => HalfInv'
  BY <1>1, <1>4, <1>6, HalfStep DEF Undisturbed, Faultless
<1>8. Awaiting' => Expectant'
  <2> SUFFICES ASSUME Awaiting' PROVE Expectant'
    OBVIOUS
  <2>1. CASE Arm /\ BoundaryClean
    <3>1. Silent
      BY <1>4, <2>1 DEF Undisturbed, Arm, Awaiting
    <3> QED
      BY <1>1, <2>1, <3>1, ArmExpects
  <2>2. CASE Awaiting
    BY <1>3, <1>4, <1>6, <2>2, ExpectantStep DEF Undisturbed
  <2> QED
    BY <1>1, <2>1, <2>2, AwaitingSteps
<1>9. ~Awaiting' => Silent'
  <2> SUFFICES ASSUME ~Awaiting' PROVE Silent'
    OBVIOUS
  <2>1. CASE Awaiting
    <3>1. Seal /\ BoundaryClean
      BY <1>1, <1>6, <2>1, AwaitEnds
    <3>2. UNCHANGED <<owed, sending, responses, partial, reader, chunk, wire>>
      BY <3>1 DEF Seal, ReadbackOnly, ExecuteOnly
    <3> QED
      BY <1>1, <1>4, <3>1, <3>2, SealedEmpty, SilentStays
  <2>2. CASE ~Awaiting
    BY <1>1, <1>2, <1>4, <1>5, <1>6, <2>2, StaysQuiet DEF Undisturbed, Faultless
  <2> QED
    BY <2>1, <2>2
<1> QED
  BY <1>5, <1>7, <1>8, <1>9, Zenon DEF Undisturbed

(***************************************************************************)
(* The checks have no false alarm: while no call of the driver and no wait *)
(* failed, the link held and the programs are well formed, no replies,     *)
(* however they interleave with the calls and with each other, make        *)
(* execute fault or the receive thread stop (IUsbDriver contract,          *)
(* checkReceiveBoundary, appendReceived, executeReadback).                 *)
(***************************************************************************)
THEOREM NoAlarmIsFalse == Spec => []NoFalseAlarm
<1>1. Init => ReaderInv /\ CalmInv
  BY DEF Init, ReaderInv, CalmInv, Undisturbed, Faultless, HalfInv, Silent, Stream,
         Loose, Awaiting
<1>2. ASSUME IInv, WorkInv, AnswersInv, ReaderInv, CalmInv, [Next]_vars
      PROVE  ReaderInv' /\ CalmInv'
  <2>1. CallerType /\ FlagType /\ DriverInv
    BY <1>2 DEF IInv, TypeOK
  <2> QED
    BY <1>2, <2>1, ReaderStays, CalmStep
<1>3. IInv /\ CalmInv => NoFalseAlarm
  BY DEF IInv, TypeOK, FlagType, CalmInv, Calm, Undisturbed, Faultless, NoFalseAlarm
<1> QED
  BY <1>1, <1>2, <1>3, OperationsRight, AnswersRight, PTL DEF Spec
=============================================================================
