------------------------- MODULE LeCroyTransferProof -------------------------
(***************************************************************************)
(* For any number of queries, any samples and any descriptors: what the    *)
(* transport and the calls on it return is of its type, the time axis fits *)
(* what was acquired last, and every step is a step of ReplyDelivery.  The *)
(* argument is that the frames not read continue each other, from the last *)
(* cell read to the last cell sent; a read that gave up breaks this only   *)
(* when it left a reply in the middle.                                     *)
(***************************************************************************)
EXTENDS LeCroyTransfer, SequenceTheorems, TLAPS

LEMMA ConstantTypes ==
  /\ MaxQueries \in Nat /\ MaxTotal \in Nat /\ DescLen = 2
  /\ \A d \in Descriptors : d.total \in 0..MaxTotal /\ d.count \in Nat \ {0}
BY BoundAssumption, DescriptorAssumption DEF DescLen

LEMMA ReplyTypes ==
  ASSUME NEW r \in Reply
  PROVE  /\ Length(r) \in 0..(DescLen + MaxTotal)
         /\ r.kind = "none" <=> Length(r) = 0
         /\ Length(r) >= DescLen => r.kind = "wave"
         /\ r.kind = "wave" => r.desc \in Descriptors /\ Length(r) = DescLen + r.desc.total
         /\ r.desc \in Descriptors \cup {NoDescriptor}
<1>1. CASE r \in [kind : {"wave"}, desc : Descriptors]
  BY <1>1, ConstantTypes DEF Length
<1>2. CASE r \in [kind : {"short", "none"}, desc : {NoDescriptor}]
  BY <1>2, ConstantTypes DEF Length
<1> QED BY <1>1, <1>2 DEF Reply

(* A part of a sequence, and a part of a reply *)
LEMMA PartOfSequence ==
  ASSUME NEW S, NEW s \in Seq(S), NEW a \in Nat, NEW b \in Nat, a >= 1, b <= Len(s)
  PROVE  /\ SubSeq(s, a, b) \in Seq(S)
         /\ Len(SubSeq(s, a, b)) = IF a <= b THEN b - a + 1 ELSE 0
         /\ \A i \in 1..Len(SubSeq(s, a, b)) : SubSeq(s, a, b)[i] = s[a + i - 1]
BY SubSeqProperties

LEMMA PieceTypes ==
  ASSUME NEW q \in 0..MaxQueries, NEW a \in Nat, NEW b \in Nat,
         a >= 1, a <= b + 1, b <= DescLen + MaxTotal
  PROVE  /\ Piece(q, a, b) \in Seq(Cell) /\ Len(Piece(q, a, b)) = b - a + 1
         /\ \A i \in 1..(b - a + 1) : Piece(q, a, b)[i] = [query |-> q, pos |-> a + i - 1]
<1>1. b - a + 1 \in Nat
  OBVIOUS
<1>2. \A i \in 1..(b - a + 1) : [query |-> q, pos |-> a + i - 1] \in Cell
  BY ConstantTypes DEF Cell
<1>3. Piece(q, a, b) \in [1..(b - a + 1) -> Cell]
  BY <1>2 DEF Piece
<1>4. Piece(q, a, b) \in Seq(Cell)
  BY <1>1, <1>3, SeqDef
<1>5. Len(Piece(q, a, b)) = b - a + 1
  BY <1>1, <1>3, <1>4, LenProperties
<1> QED BY <1>4, <1>5 DEF Piece

LEMMA WholePiece ==
  ASSUME NEW q \in 0..MaxQueries, NEW b \in 0..(DescLen + MaxTotal)
  PROVE  /\ Piece(q, 1, b) \in Seq(Cell) /\ Len(Piece(q, 1, b)) = b
         /\ \A i \in 1..b : Piece(q, 1, b)[i] = [query |-> q, pos |-> i]
<1>1. b \in Nat /\ 1 <= b + 1 /\ b <= DescLen + MaxTotal /\ b - 1 + 1 = b
      /\ \A i \in 1..b : 1 + i - 1 = i
  BY ConstantTypes
<1> QED BY <1>1, PieceTypes
----------------------------------------------------------------------------
(* Type correctness: whatever has been sent is a part of a reply there is. *)

Queued == /\ \A i \in 1..Len(inbox) : replies[inbox[i]].kind # "none"
          /\ inbox # << >> => sent <= Length(replies[Head(inbox)])
          /\ inbox = << >> => sent = 0

Sendable(f) == /\ f.query \in 1..Len(replies)
               /\ f.first <= f.last + 1 /\ f.last <= Length(replies[f.query])
               /\ f.eoi => f.last = Length(replies[f.query])

Streamed == \A i \in 1..Len(stream) : Sendable(stream[i])
Received == \A i \in 1..Len(msg) : msg[i].query \in 1..Len(replies)

TypeInv == TypeOK /\ Queued /\ Streamed /\ Received

LEMMA InitTyped == Init => TypeInv
<1> SUFFICES ASSUME Init PROVE TypeInv
  OBVIOUS
<1>1. /\ replies = << >> /\ inbox = << >> /\ stream = << >> /\ msg = << >> /\ sent = 0
      /\ Len(replies) = 0 /\ Len(inbox) = 0 /\ Len(stream) = 0 /\ Len(msg) = 0
  BY DEF Init
<1>2. Queued /\ Streamed /\ Received
  BY <1>1 DEF Queued, Streamed, Received
<1>3. TypeOK
  <2>1. answer \in [status : {"none", "ok", "error"}, parts : Seq(Seq(Cell))]
    BY DEF Init
  <2>2. skew \in Skews /\ pc \in {"idle", "read"} /\ call \in Calls
    BY DEF Init, Skews, Calls
  <2>3. sent \in 0..(DescLen + MaxTotal)
    BY <1>1, ConstantTypes
  <2> QED BY <1>1, <2>1, <2>2, <2>3, ConstantTypes DEF TypeOK, Init
<1> QED BY <1>2, <1>3 DEF TypeInv

(* The replies so far stay what they are when another is added. *)
LEMMA AskReplies ==
  ASSUME TypeInv, NEW c \in Calls, NEW r \in RepliesTo(c), Len(replies) < MaxQueries,
         replies' = Append(replies, r)
  PROVE  /\ r \in Reply
         /\ replies' \in Seq(Reply) /\ Len(replies') = Len(replies) + 1
         /\ Len(replies) \in Nat /\ Len(replies') <= MaxQueries
         /\ replies'[Len(replies')] = r
         /\ \A q \in 1..Len(replies) : replies'[q] = replies[q]
<1>1. replies \in Seq(Reply) /\ Len(replies) \in Nat /\ r \in Reply
  BY DEF TypeInv, TypeOK, RepliesTo
<1> QED BY <1>1, ConstantTypes, AppendProperties

LEMMA AskTyped ==
  ASSUME TypeInv, NEW c \in Calls, Ask(c)
  PROVE  TypeInv'
<1> DEFINE new == Len(replies) + 1
<1>1. PICK r \in RepliesTo(c) :
        /\ replies' = Append(replies, r)
        /\ inbox' = IF r.kind = "none" THEN inbox ELSE Append(inbox, new)
  BY DEF Ask
<1>2. /\ r \in Reply
      /\ replies' \in Seq(Reply) /\ Len(replies') = Len(replies) + 1
      /\ Len(replies) \in Nat /\ Len(replies') <= MaxQueries
      /\ replies'[Len(replies')] = r
      /\ \A q \in 1..Len(replies) : replies'[q] = replies[q]
  BY <1>1, AskReplies DEF Ask
<1>3. /\ UNCHANGED <<sent, stream, skew, wd>> /\ msg' = << >> /\ pc' = "read" /\ call' = c
      /\ answer' = [status |-> "none", parts |-> << >>]
  BY DEF Ask
<1>4. inbox \in Seq(1..Len(replies)) /\ inbox \in Seq(1..Len(replies')) /\ new \in 1..Len(replies')
  BY <1>2 DEF TypeInv, TypeOK
<1>5. inbox' \in Seq(1..Len(replies'))
  BY <1>1, <1>4, AppendProperties
<1>6. Queued'
  <2>1. \A i \in 1..Len(inbox) : inbox[i] \in 1..Len(replies) /\ replies'[inbox[i]].kind # "none"
    BY <1>2, <1>4, ElementOfSeq DEF TypeInv, Queued
  <2>2. inbox # << >> => Head(inbox) = inbox[1] /\ Len(inbox) >= 1
    BY <1>4
  <2>3. inbox # << >> => sent <= Length(replies'[Head(inbox)])
    BY <1>2, <2>1, <2>2 DEF TypeInv, Queued
  <2>4. CASE r.kind = "none"
    BY <1>1, <1>3, <2>1, <2>3, <2>4 DEF TypeInv, Queued
  <2>5. CASE r.kind # "none"
    <3>1. /\ inbox' = Append(inbox, new) /\ inbox' # << >> /\ Len(inbox') = Len(inbox) + 1
          /\ Len(inbox) \in Nat
          /\ inbox'[Len(inbox')] = new /\ \A i \in 1..Len(inbox) : inbox'[i] = inbox[i]
      BY <1>1, <1>4, <2>5, AppendProperties
    <3>2. \A i \in 1..Len(inbox') : replies'[inbox'[i]].kind # "none"
      BY <1>2, <2>1, <2>5, <3>1
    <3>3. sent' <= Length(replies'[Head(inbox')])
      <4>1. CASE inbox = << >>
        <5>1. Head(inbox') = new /\ sent' = 0
          BY <1>3, <3>1, <4>1 DEF TypeInv, Queued
        <5> QED BY <1>2, <5>1, ReplyTypes
      <4>2. CASE inbox # << >>
        <5>1. Head(inbox') = Head(inbox)
          BY <1>4, <3>1, <4>2
        <5> QED BY <1>3, <2>3, <4>2, <5>1
      <4> QED BY <4>1, <4>2
    <3> QED BY <3>1, <3>2, <3>3 DEF Queued
  <2> QED BY <2>4, <2>5
<1>7. Streamed'
  <2>1. \A i \in 1..Len(stream) : stream[i].query \in 1..Len(replies) /\ Sendable(stream[i])
    BY DEF TypeInv, Streamed, Sendable
  <2> QED BY <1>2, <1>3, <2>1 DEF Streamed, Sendable
<1>8. Received'
  BY <1>3 DEF Received
<1>9. answer' \in [status : {"none", "ok", "error"}, parts : Seq(Seq(Cell))]
  BY <1>3
<1>10. TypeOK'
  BY <1>2, <1>3, <1>5, <1>9 DEF TypeInv, TypeOK
<1> QED BY <1>6, <1>7, <1>8, <1>10 DEF TypeInv

LEMMA SendTyped ==
  ASSUME TypeInv, SendFrame
  PROVE  TypeInv'
<1> DEFINE q == Head(inbox)
           size == Length(replies[q])
<1>1. PICK upTo \in sent..size, eoi \in BOOLEAN :
        /\ eoi => upTo = size
        /\ upTo = sent => eoi
        /\ stream' = Append(stream, [query |-> q, first |-> sent + 1, last |-> upTo, eoi |-> eoi])
        /\ sent' = IF eoi THEN 0 ELSE upTo
        /\ inbox' = IF eoi THEN Tail(inbox) ELSE inbox
  BY DEF SendFrame
<1>2. inbox # << >> /\ UNCHANGED <<replies, skew, pc, call, msg, wd, answer>>
  BY DEF SendFrame
<1>3. /\ inbox \in Seq(1..Len(replies)) /\ q \in 1..Len(replies) /\ q = inbox[1]
      /\ Tail(inbox) \in Seq(1..Len(replies)) /\ Len(inbox) \in Nat \ {0}
      /\ Len(Tail(inbox)) = Len(inbox) - 1
      /\ \A i \in 1..Len(Tail(inbox)) : Tail(inbox)[i] = inbox[i + 1]
  BY <1>2, HeadTailProperties, EmptySeq, LenProperties DEF TypeInv, TypeOK
<1>4. /\ replies \in Seq(Reply) /\ replies[q] \in Reply /\ Len(replies) \in Nat
      /\ Len(replies) <= MaxQueries
  BY <1>3, ElementOfSeq DEF TypeInv, TypeOK
<1>5. size \in 1..(DescLen + MaxTotal) /\ sent \in 0..size
  <2>1. replies[q].kind # "none" /\ sent <= size /\ sent \in Nat
    BY <1>2, <1>3 DEF TypeInv, TypeOK, Queued
  <2> QED BY <1>4, <2>1, ReplyTypes, ConstantTypes
<1> DEFINE f == [query |-> q, first |-> sent + 1, last |-> upTo, eoi |-> eoi]
<1>6. upTo \in 1..size
  BY <1>1, <1>5
<1>7. f \in Frame /\ Sendable(f)
  BY <1>1, <1>3, <1>4, <1>5, <1>6, ConstantTypes DEF Frame, Sendable
<1>8. stream \in Seq(Frame) /\ stream' = Append(stream, f)
  BY <1>1 DEF TypeInv, TypeOK
<1> HIDE DEF f
<1>9. /\ stream' \in Seq(Frame) /\ Len(stream') = Len(stream) + 1 /\ Len(stream) \in Nat
      /\ stream'[Len(stream')] = f /\ \A i \in 1..Len(stream) : stream'[i] = stream[i]
  BY <1>7, <1>8, AppendProperties
<1>10. Streamed'
  BY <1>2, <1>7, <1>9 DEF TypeInv, Streamed, Sendable
<1>11. Queued'
  <2>1. CASE eoi
    <3>1. inbox' = Tail(inbox) /\ sent' = 0
      BY <1>1, <2>1
    <3>2. \A i \in 1..Len(inbox') : replies'[inbox'[i]].kind # "none"
      BY <1>2, <1>3, <3>1 DEF TypeInv, Queued
    <3>3. inbox' # << >> => 0 <= Length(replies'[Head(inbox')])
      <4> SUFFICES ASSUME inbox' # << >> PROVE 0 <= Length(replies[Head(inbox')])
        BY <1>2
      <4>1. Head(inbox') \in 1..Len(replies)
        BY <1>3, <3>1, HeadTailProperties, EmptySeq
      <4>2. replies[Head(inbox')] \in Reply
        BY <1>4, <4>1, ElementOfSeq
      <4> QED BY <4>2, ReplyTypes, ConstantTypes
    <3> QED BY <3>1, <3>2, <3>3 DEF Queued
  <2>2. CASE ~eoi
    BY <1>1, <1>2, <1>6, <2>2 DEF TypeInv, Queued
  <2> QED BY <2>1, <2>2
<1>12. Received'
  BY <1>2 DEF TypeInv, Received
<1>13. inbox' \in Seq(1..Len(replies')) /\ sent' \in 0..(DescLen + MaxTotal)
  <2>1. inbox' \in {inbox, Tail(inbox)} /\ sent' \in {0, upTo}
    BY <1>1
  <2>2. inbox' \in Seq(1..Len(replies'))
    BY <1>2, <1>3, <2>1
  <2>3. sent' \in 0..(DescLen + MaxTotal)
    <3>1. size \in Int /\ size <= DescLen + MaxTotal /\ upTo \in 0..size
      BY <1>5, <1>6, ConstantTypes
    <3> QED BY <2>1, <3>1, ConstantTypes
  <2> QED BY <2>2, <2>3
<1>14. TypeOK'
  BY <1>2, <1>9, <1>13 DEF TypeInv, TypeOK
<1> QED BY <1>10, <1>11, <1>12, <1>14 DEF TypeInv

----------------------------------------------------------------------------
(* What the calls make of a message *)

LEMMA SamplesRead ==
  ASSUME NEW m \in Seq(Cell), NEW d, d.total \in Nat, Readable(m, d)
  PROVE  /\ Samples(m, d) \in Seq(Cell) /\ Len(Samples(m, d)) = d.total
         /\ \A i \in 1..d.total : Samples(m, d)[i] = m[DescLen + i]
<1>1. /\ DescLen = 2 /\ d.total > 0 /\ DescLen + d.total <= Len(m)
      /\ DescLen + 1 \in Nat /\ DescLen + d.total \in Nat /\ DescLen + 1 >= 1
  BY DEF Readable, DescLen
<1> DEFINE s == SubSeq(m, DescLen + 1, DescLen + d.total)
<1>2. /\ s \in Seq(Cell)
      /\ Len(s) = IF DescLen + 1 <= DescLen + d.total
                    THEN DescLen + d.total - (DescLen + 1) + 1 ELSE 0
      /\ \A i \in 1..Len(s) : s[i] = m[DescLen + 1 + i - 1]
  BY <1>1, PartOfSequence
<1>3. s = Samples(m, d)
  BY DEF Samples
<1> HIDE DEF s
<1>4. Len(s) = d.total
  BY <1>1, <1>2
<1>5. \A i \in 1..d.total : s[i] = m[DescLen + i]
  <2> SUFFICES ASSUME NEW i \in 1..d.total PROVE s[i] = m[DescLen + i]
    OBVIOUS
  <2>1. DescLen + 1 + i - 1 = DescLen + i
    BY <1>1
  <2> QED BY <1>2, <1>4, <2>1
<1> QED BY <1>2, <1>3, <1>4, <1>5

LEMMA EqualSegments ==
  ASSUME NEW total \in Nat, NEW count \in Nat, count >= 1, total % count = 0
  PROVE  /\ total \div count \in Nat
         /\ count * (total \div count) = total
         /\ (total \div count) * count = total
         /\ \A s \in 1..count : /\ (s - 1) * (total \div count) \in Nat
                                /\ s * (total \div count) \in Nat
                                /\ s * (total \div count) <= total
                                /\ s * (total \div count)
                                     = (s - 1) * (total \div count) + (total \div count)
<1> DEFINE n == total \div count
<1>1. n \in Nat /\ total = count * n + (total % count)
  OBVIOUS
<1>2. count * n = total /\ n * count = total
  BY <1>1
<1> HIDE DEF n
<1>3. ASSUME NEW s \in 1..count
      PROVE  (s - 1) * n \in Nat /\ s * n \in Nat /\ s * n <= total /\ s * n = (s - 1) * n + n
  <2>1. (s - 1) * n \in Nat /\ s * n \in Nat /\ (count - s) * n \in Nat
    BY <1>1
  <2>2. s * n = (s - 1) * n + n /\ count * n = s * n + (count - s) * n
    BY <1>1
  <2> QED BY <1>2, <2>1, <2>2
<1> QED BY <1>1, <1>2, <1>3 DEF n

LEMMA SegmentsRead ==
  ASSUME NEW m \in Seq(Cell), NEW d, d.total \in Nat, d.count \in Nat,
         Readable(m, d), Splits(d)
  PROVE  /\ SplitSegments(m, d) \in Seq(Seq(Cell))
         /\ Len(SplitSegments(m, d)) = d.count
         /\ \A s \in 1..d.count :
              /\ Len(SplitSegments(m, d)[s]) = PerSegment(d)
              /\ \A i \in 1..PerSegment(d) :
                   SplitSegments(m, d)[s][i] = m[DescLen + (s - 1) * PerSegment(d) + i]
<1> DEFINE n == PerSegment(d)
           a == Samples(m, d)
           Segment(s) == SubSeq(a, (s - 1) * n + 1, s * n)
           all == SplitSegments(m, d)
<1>1. d.count >= 1 /\ d.total % d.count = 0
  BY DEF Splits
<1>2. /\ n \in Nat
      /\ \A s \in 1..d.count : /\ (s - 1) * n \in Nat /\ s * n \in Nat
                               /\ s * n <= d.total /\ s * n = (s - 1) * n + n
  <2>1. PICK total \in Nat : total = d.total
    OBVIOUS
  <2>2. PICK count \in Nat : count = d.count
    OBVIOUS
  <2>3. n = total \div count /\ count >= 1 /\ total % count = 0
    BY <1>1, <2>1, <2>2 DEF PerSegment
  <2>4. /\ total \div count \in Nat
        /\ \A s \in 1..count : /\ (s - 1) * (total \div count) \in Nat
                               /\ s * (total \div count) \in Nat
                               /\ s * (total \div count) <= total
                               /\ s * (total \div count)
                                    = (s - 1) * (total \div count) + (total \div count)
    BY <2>3, EqualSegments
  <2> QED BY <2>1, <2>2, <2>3, <2>4
<1>3. /\ a \in Seq(Cell) /\ Len(a) = d.total
      /\ \A i \in 1..d.total : a[i] = m[DescLen + i]
  BY SamplesRead
<1>4. all = [s \in 1..d.count |-> Segment(s)]
  BY DEF SplitSegments
<1> HIDE DEF n, a, all
<1>5. ASSUME NEW s \in 1..d.count
      PROVE  /\ Segment(s) \in Seq(Cell) /\ Len(Segment(s)) = n
             /\ \A i \in 1..n : Segment(s)[i] = m[DescLen + (s - 1) * n + i]
  <2>1. PICK before \in Nat : before = (s - 1) * n
    BY <1>2
  <2>2. PICK end \in Nat : end = s * n /\ end = before + n /\ end <= Len(a)
    BY <1>2, <1>3, <2>1
  <2>3. Segment(s) = SubSeq(a, before + 1, end)
    BY <2>1, <2>2
  <2> HIDE DEF Segment
  <2>4. before + 1 \in Nat /\ before + 1 >= 1
    BY <2>1
  <2>5. /\ SubSeq(a, before + 1, end) \in Seq(Cell)
        /\ Len(SubSeq(a, before + 1, end))
             = IF before + 1 <= end THEN end - (before + 1) + 1 ELSE 0
        /\ \A i \in 1..Len(SubSeq(a, before + 1, end)) :
             SubSeq(a, before + 1, end)[i] = a[before + 1 + i - 1]
    BY <1>3, <2>2, <2>4, PartOfSequence
  <2>6. Len(Segment(s)) = n
    BY <1>2, <2>2, <2>3, <2>5
  <2>7. ASSUME NEW i \in 1..n PROVE Segment(s)[i] = m[DescLen + before + i]
    <3>1. before + i \in 1..d.total /\ before + 1 + i - 1 = before + i
      BY <1>2, <1>3, <2>2
    <3>2. Segment(s)[i] = a[before + i]
      BY <2>3, <2>5, <2>6, <3>1
    <3>3. DescLen + (before + i) = DescLen + before + i
      BY DEF DescLen
    <3> QED BY <1>3, <3>1, <3>2, <3>3
  <2> QED BY <2>1, <2>3, <2>5, <2>6, <2>7
<1> HIDE DEF Segment
<1>6. all \in [1..d.count -> Seq(Cell)]
  BY <1>4, <1>5
<1>7. all \in Seq(Seq(Cell)) /\ Len(all) = d.count
  <2>1. all \in Seq(Seq(Cell))
    BY <1>6, SeqDef
  <2> QED BY <1>6, <2>1, LenProperties
<1>8. \A s \in 1..d.count : all[s] = Segment(s)
  BY <1>4
<1>9. \A s \in 1..d.count : /\ Len(all[s]) = n
                            /\ \A i \in 1..n : all[s][i] = m[DescLen + (s - 1) * n + i]
  BY <1>5, <1>8
<1> QED BY <1>7, <1>9 DEF n, all

LEMMA DecodedTypes ==
  ASSUME TypeInv, NEW m \in Seq(Cell), Len(m) >= DescLen,
         \A i \in 1..Len(m) : m[i].query \in 0..Len(replies),
         NEW d \in Decoded(m)
  PROVE  d \in Descriptors \cup {NoDescriptor} /\ d.total \in Nat /\ d.count \in Nat
<1>1. d \in Descriptors \cup {NoDescriptor}
  <2>1. CASE m[1].pos = 1 /\ m[1].query # 0
    <3>1. m[1].query \in 1..Len(replies)
      BY <2>1, ConstantTypes, LenProperties
    <3>2. replies[m[1].query] \in Reply
      BY <3>1, ElementOfSeq DEF TypeInv, TypeOK
    <3> QED BY <2>1, <3>2, ReplyTypes DEF Decoded
  <2>2. CASE ~(m[1].pos = 1 /\ m[1].query # 0)
    BY <2>2 DEF Decoded
  <2> QED BY <2>1, <2>2
<1> QED BY <1>1, ConstantTypes DEF NoDescriptor

LEMMA FinishTyped ==
  ASSUME TypeInv, NEW m \in Seq(Cell), UNCHANGED call,
         \A i \in 1..Len(m) : m[i].query \in 0..Len(replies),
         Finish(m)
  PROVE  /\ pc' = "idle" /\ msg' = << >>
         /\ wd' \in Descriptors \cup {NoDescriptor}
         /\ answer' \in [status : {"none", "ok", "error"}, parts : Seq(Seq(Cell))]
         /\ AxisFits'
<1>1. call \in Calls /\ wd \in Descriptors \cup {NoDescriptor} /\ Len(m) \in Nat
  BY LenProperties DEF TypeInv, TypeOK
<1>2. CASE Raise /\ wd' \in Descriptors \cup {NoDescriptor}
  BY <1>2 DEF Raise, Answer, AxisFits
<1>3. CASE call = "query"
  <2>1. Answer("ok", <<m>>) /\ UNCHANGED wd
    BY <1>3 DEF Finish
  <2>2. <<m>> \in Seq(Seq(Cell))
    OBVIOUS
  <2> QED BY <1>1, <1>3, <2>1, <2>2 DEF Answer, AxisFits
<1>4. CASE call # "query" /\ Len(m) < DescLen
  <2>1. Raise /\ UNCHANGED wd
    <3>1. call # "query" /\ Len(m) < DescLen /\ ~(Len(m) >= DescLen)
      BY <1>1, <1>4, ConstantTypes
    <3> QED BY ONLY <3>1, Finish(m), Zenon DEF Finish
  <2> QED BY <1>1, <1>2, <2>1
<1>5. CASE call # "query" /\ Len(m) >= DescLen
  <2>1. Waveform(m)
    BY <1>1, <1>5, ConstantTypes DEF Finish
  <2>2. PICK d \in Decoded(m) :
          /\ wd' = IF call = "axis" THEN wd ELSE d
          /\ CASE call = "acquire" /\ Readable(m, d) -> Answer("ok", <<Samples(m, d)>>)
               [] call = "sequence" /\ Splits(d) /\ Readable(m, d)
                    -> Answer("ok", SplitSegments(m, d))
               [] call = "axis" /\ (d.count > 1 => Splits(d)) -> Answer("ok", << >>)
               [] OTHER -> Raise
    BY <2>1 DEF Waveform
  <2>3. d \in Descriptors \cup {NoDescriptor} /\ d.total \in Nat /\ d.count \in Nat
    BY <1>5, DecodedTypes
  <2>4. wd' \in Descriptors \cup {NoDescriptor}
    BY <1>1, <2>2, <2>3
  <2>5. CASE call = "acquire" /\ Readable(m, d)
    <3>1. Answer("ok", <<Samples(m, d)>>) /\ wd' = d
      BY <2>2, <2>5
    <3>2. Samples(m, d) \in Seq(Cell) /\ Len(Samples(m, d)) = d.total
      BY <2>3, <2>5, SamplesRead
    <3>3. /\ <<Samples(m, d)>> \in Seq(Seq(Cell))
          /\ Len(<<Samples(m, d)>>) = 1 /\ <<Samples(m, d)>>[1] = Samples(m, d)
      BY <3>2
    <3>4. AxisFits'
      BY <2>5, <3>1, <3>2, <3>3 DEF AxisFits, AxisLength, Answer
    <3> QED BY <2>4, <3>1, <3>3, <3>4 DEF Answer
  <2>6. CASE call = "sequence" /\ Splits(d) /\ Readable(m, d)
    <3>1. Answer("ok", SplitSegments(m, d)) /\ wd' = d
      BY <2>2, <2>6
    <3>2. /\ SplitSegments(m, d) \in Seq(Seq(Cell))
          /\ Len(SplitSegments(m, d)) = d.count
          /\ \A s \in 1..d.count : Len(SplitSegments(m, d)[s]) = PerSegment(d)
      BY <2>3, <2>6, SegmentsRead
    <3>3. d.count > 1
      BY <2>3, <2>6 DEF Splits
    <3>4. AxisFits'
      BY <2>6, <3>1, <3>2, <3>3 DEF AxisFits, AxisLength, Answer
    <3> QED BY <2>4, <3>1, <3>2, <3>4 DEF Answer
  <2>7. CASE call = "axis"
    <3>1. Answer("ok", << >>) \/ Raise
      BY <2>2, <2>7
    <3>2. << >> \in Seq(Seq(Cell))
      OBVIOUS
    <3>3. AxisFits'
      BY <2>7 DEF AxisFits
    <3>4. \E status \in {"ok", "error"} : Answer(status, << >>)
      BY <3>1 DEF Raise
    <3> QED BY <2>4, <3>2, <3>3, <3>4 DEF Answer
  <2>8. CASE /\ ~(call = "acquire" /\ Readable(m, d)) /\ call # "axis"
             /\ ~(call = "sequence" /\ Splits(d) /\ Readable(m, d))
    BY <1>2, <2>2, <2>4, <2>8
  <2> QED BY <2>5, <2>6, <2>7, <2>8
<1> QED BY <1>1, <1>3, <1>4, <1>5, ConstantTypes

(* The frame read next continues a message of cells there are. *)
LEMMA JoinedTypes ==
  ASSUME TypeInv, stream # << >>
  PROVE  LET f == Head(stream)
         IN  /\ f \in Frame /\ Sendable(f) /\ f = stream[1] /\ 1 \in 1..Len(stream)
             /\ Joined(f) \in Seq(Cell)
             /\ \A i \in 1..Len(Joined(f)) : Joined(f)[i].query \in 1..Len(replies)
             /\ Len(Joined(f)) = Len(msg) + (f.last - f.first + 1)
             /\ \A i \in 1..Len(Joined(f)) :
                  Joined(f)[i] = IF i <= Len(msg) THEN msg[i]
                                 ELSE [query |-> f.query, pos |-> f.first + (i - Len(msg)) - 1]
             /\ Tail(stream) \in Seq(Frame) /\ Len(Tail(stream)) = Len(stream) - 1
             /\ \A i \in 1..Len(Tail(stream)) : Tail(stream)[i] = stream[i + 1]
<1> DEFINE f == Head(stream)
<1>1. stream \in Seq(Frame) /\ Len(stream) \in Nat \ {0} /\ f = stream[1] /\ f \in Frame
  BY EmptySeq, HeadTailProperties DEF TypeInv, TypeOK
<1>2. Sendable(f)
  BY <1>1 DEF TypeInv, Streamed
<1>3. /\ f.query \in 0..MaxQueries /\ f.query \in 1..Len(replies)
      /\ f.first \in Nat /\ f.last \in Nat /\ f.first >= 1
      /\ f.first <= f.last + 1 /\ f.last <= DescLen + MaxTotal
  BY <1>1, <1>2, ConstantTypes DEF Frame, Sendable
<1> DEFINE piece == Piece(f.query, f.first, f.last)
<1> HIDE DEF f
<1>4. /\ piece \in Seq(Cell) /\ Len(piece) = f.last - f.first + 1
      /\ \A i \in 1..(f.last - f.first + 1) :
           piece[i] = [query |-> f.query, pos |-> f.first + i - 1]
  BY <1>3, PieceTypes
<1>5. msg \in Seq(Cell) /\ Len(msg) \in Nat
  BY LenProperties DEF TypeInv, TypeOK
<1>6. Joined(f) = msg \o piece
  BY DEF Joined
<1> HIDE DEF piece
<1>7. /\ Joined(f) \in Seq(Cell) /\ Len(Joined(f)) = Len(msg) + (f.last - f.first + 1)
      /\ \A i \in 1..Len(Joined(f)) :
           Joined(f)[i] = IF i <= Len(msg) THEN msg[i] ELSE piece[i - Len(msg)]
  <2>1. /\ msg \o piece \in Seq(Cell)
        /\ Len(msg \o piece) = Len(msg) + Len(piece)
        /\ \A i \in 1..(Len(msg) + Len(piece)) :
             (msg \o piece)[i] = IF i <= Len(msg) THEN msg[i] ELSE piece[i - Len(msg)]
    BY <1>4, <1>5, ConcatProperties
  <2> QED BY <1>4, <1>6, <2>1
<1>8. \A i \in 1..Len(Joined(f)) :
        Joined(f)[i] = IF i <= Len(msg) THEN msg[i]
                       ELSE [query |-> f.query, pos |-> f.first + (i - Len(msg)) - 1]
  <2> SUFFICES ASSUME NEW i \in 1..Len(Joined(f)), ~(i <= Len(msg))
               PROVE  piece[i - Len(msg)]
                        = [query |-> f.query, pos |-> f.first + (i - Len(msg)) - 1]
    BY <1>7
  <2>1. i - Len(msg) \in 1..(f.last - f.first + 1)
    BY <1>3, <1>5, <1>7
  <2> QED BY <1>4, <2>1
<1>9. \A i \in 1..Len(Joined(f)) : Joined(f)[i].query \in 1..Len(replies)
  <2> SUFFICES ASSUME NEW i \in 1..Len(Joined(f)) PROVE Joined(f)[i].query \in 1..Len(replies)
    OBVIOUS
  <2>1. CASE i <= Len(msg)
    <3>1. Joined(f)[i] = msg[i] /\ i \in 1..Len(msg)
      BY <1>5, <1>7, <1>8, <2>1
    <3>2. msg[i].query \in 1..Len(replies)
      BY <3>1 DEF TypeInv, Received
    <3> QED BY <3>1, <3>2
  <2>2. CASE ~(i <= Len(msg))
    <3>1. Joined(f)[i] = [query |-> f.query, pos |-> f.first + (i - Len(msg)) - 1]
      BY <1>8, <2>2
    <3> QED BY <1>3, <3>1
  <2> QED BY <2>1, <2>2
<1>10. /\ Tail(stream) \in Seq(Frame) /\ Len(Tail(stream)) = Len(stream) - 1
       /\ \A i \in 1..Len(Tail(stream)) : Tail(stream)[i] = stream[i + 1]
  BY <1>1, HeadTailProperties
<1> QED BY <1>1, <1>2, <1>7, <1>8, <1>9, <1>10 DEF f

(* A turn of read_raw, and a read that makes what it may of bytes out of place *)
LEMMA ReadTyped ==
  ASSUME TypeInv, AxisFits, ReadFrame \/ ReadGarbage
  PROVE  TypeInv' /\ AxisFits'
<1>1. CASE ReadFrame
  <2> DEFINE f == Head(stream)
             m == Joined(f)
  <2>1. pc = "read" /\ stream # << >> /\ stream' = Tail(stream) /\ UNCHANGED <<scopeVars, skew, call>>
    BY <1>1 DEF ReadFrame
  <2>2. /\ m \in Seq(Cell) /\ \A i \in 1..Len(m) : m[i].query \in 1..Len(replies)
        /\ Tail(stream) \in Seq(Frame) /\ Len(Tail(stream)) = Len(stream) - 1
        /\ \A i \in 1..Len(Tail(stream)) : Tail(stream)[i] = stream[i + 1]
    BY <2>1, JoinedTypes
  <2>3. \/ f.eoi /\ Finish(m)
        \/ msg' = m /\ UNCHANGED <<pc, wd, answer>>
    BY <1>1 DEF ReadFrame
  <2> HIDE DEF f, m
  <2>4. Len(stream) \in Nat
    BY LenProperties DEF TypeInv, TypeOK
  <2>5. Streamed' /\ Queued'
    BY <2>1, <2>2, <2>4 DEF TypeInv, Streamed, Sendable, Queued, scopeVars
  <2>6. CASE Finish(m)
    <3>1. \A i \in 1..Len(m) : m[i].query \in 0..Len(replies)
      BY <2>2
    <3>2. /\ pc' = "idle" /\ msg' = << >>
          /\ wd' \in Descriptors \cup {NoDescriptor}
          /\ answer' \in [status : {"none", "ok", "error"}, parts : Seq(Seq(Cell))]
          /\ AxisFits'
      BY <2>1, <2>2, <2>6, <3>1, FinishTyped
    <3>3. Received'
      BY <3>2 DEF Received
    <3>4. TypeOK'
      BY <2>1, <2>2, <3>2 DEF TypeInv, TypeOK, scopeVars
    <3> QED BY <2>5, <3>2, <3>3, <3>4 DEF TypeInv
  <2>7. CASE msg' = m /\ UNCHANGED <<pc, wd, answer>>
    <3>1. Received' /\ TypeOK'
      BY <2>1, <2>2, <2>7 DEF TypeInv, TypeOK, Received, scopeVars
    <3>2. AxisFits'
      BY <2>1, <2>7 DEF AxisFits, AxisLength, PerSegment
    <3> QED BY <2>5, <3>1, <3>2 DEF TypeInv
  <2> QED BY <2>3, <2>6, <2>7
<1>2. CASE ReadGarbage
  <2>1. PICK length \in 0..(DescLen + MaxTotal) : Finish([i \in 1..length |-> Garbage])
    BY <1>2 DEF ReadGarbage
  <2> DEFINE m == [i \in 1..length |-> Garbage]
  <2>2. UNCHANGED <<scopeVars, stream, skew, call>>
    BY <1>2 DEF ReadGarbage
  <2>3. m \in Seq(Cell) /\ Len(m) = length
    <3>1. Garbage \in Cell /\ length \in Nat
      BY ConstantTypes DEF Garbage, Cell
    <3> QED BY <3>1
  <2>4. \A i \in 1..Len(m) : m[i].query \in 0..Len(replies)
    <3>1. Len(replies) \in Nat
      BY LenProperties DEF TypeInv, TypeOK
    <3> QED BY <2>3, <3>1 DEF Garbage
  <2> HIDE DEF m
  <2>5. /\ pc' = "idle" /\ msg' = << >>
        /\ wd' \in Descriptors \cup {NoDescriptor}
        /\ answer' \in [status : {"none", "ok", "error"}, parts : Seq(Seq(Cell))]
        /\ AxisFits'
    BY <2>1, <2>2, <2>3, <2>4, FinishTyped DEF m
  <2>6. Streamed' /\ Queued' /\ Received'
    BY <2>2, <2>5 DEF TypeInv, Streamed, Sendable, Queued, Received, scopeVars
  <2>7. TypeOK'
    BY <2>2, <2>5 DEF TypeInv, TypeOK, scopeVars
  <2> QED BY <2>5, <2>6, <2>7 DEF TypeInv
<1> QED BY <1>1, <1>2

LEMMA GiveUpTyped ==
  ASSUME TypeInv, GiveUp \/ GiveUpInFrame
  PROVE  TypeInv' /\ AxisFits'
<1>1. /\ pc' = "idle" /\ msg' = << >> /\ answer' = [status |-> "error", parts |-> << >>]
      /\ UNCHANGED <<scopeVars, stream, call, wd>>
  BY DEF GiveUp, GiveUpInFrame, Raise, Answer
<1>2. skew' \in Skews
  BY DEF GiveUp, GiveUpInFrame, TypeInv, TypeOK, Skews
<1>3. answer' \in [status : {"none", "ok", "error"}, parts : Seq(Seq(Cell))] /\ AxisFits'
  BY <1>1 DEF AxisFits
<1>4. Streamed' /\ Queued' /\ Received'
  BY <1>1 DEF TypeInv, Streamed, Sendable, Queued, Received, scopeVars
<1>5. TypeOK'
  BY <1>1, <1>2, <1>3 DEF TypeInv, TypeOK, scopeVars
<1> QED BY <1>3, <1>4, <1>5 DEF TypeInv

LEMMA ReconnectTyped ==
  ASSUME TypeInv, Reconnect
  PROVE  TypeInv' /\ AxisFits'
<1>1. /\ replies' = << >> /\ inbox' = << >> /\ sent' = 0 /\ stream' = << >> /\ msg' = << >>
      /\ wd' = NoDescriptor /\ answer' = [status |-> "none", parts |-> << >>]
      /\ skew' = "none" /\ UNCHANGED <<pc, call, msg>>
  BY DEF Reconnect, TypeInv, TypeOK
<1>2. Streamed' /\ Queued' /\ Received' /\ AxisFits'
  <2>1. Len(stream') = 0 /\ Len(inbox') = 0 /\ Len(msg') = 0
    BY <1>1
  <2> QED BY <1>1, <2>1 DEF Streamed, Queued, Received, AxisFits
<1>3. replies' \in Seq(Reply) /\ Len(replies') <= MaxQueries /\ inbox' \in Seq(1..Len(replies'))
  BY <1>1, ConstantTypes
<1>4. /\ stream' \in Seq(Frame) /\ sent' \in 0..(DescLen + MaxTotal)
      /\ answer' \in [status : {"none", "ok", "error"}, parts : Seq(Seq(Cell))]
  BY <1>1, ConstantTypes
<1>5. TypeOK'
  BY <1>1, <1>3, <1>4 DEF TypeInv, TypeOK, Skews
<1> QED BY <1>2, <1>5 DEF TypeInv

LEMMA TypeInductive == TypeInv /\ AxisFits /\ [Next]_vars => TypeInv' /\ AxisFits'
<1> SUFFICES ASSUME TypeInv, AxisFits, [Next]_vars PROVE TypeInv' /\ AxisFits'
  OBVIOUS
<1>1. CASE UNCHANGED vars
  <2>1. TypeOK' /\ AxisFits'
    BY <1>1 DEF TypeInv, TypeOK, AxisFits, AxisLength, PerSegment, vars, scopeVars
  <2> QED BY <1>1, <2>1 DEF TypeInv, Streamed, Sendable, Queued, Received, vars, scopeVars
<1>2. CASE \E c \in Calls : Ask(c)
  <2>1. TypeInv'
    BY <1>2, AskTyped
  <2>2. AxisFits'
    BY <1>2 DEF Ask, AxisFits
  <2> QED BY <2>1, <2>2
<1>3. CASE SendFrame
  <2>1. TypeInv'
    BY <1>3, SendTyped
  <2>2. AxisFits'
    BY <1>3 DEF SendFrame, AxisFits, AxisLength, PerSegment
  <2> QED BY <2>1, <2>2
<1>4. CASE Read
  BY <1>4, ReadTyped, GiveUpTyped DEF Read
<1>5. CASE Reconnect
  BY <1>5, ReconnectTyped
<1> QED BY <1>1, <1>2, <1>3, <1>4, <1>5 DEF Next

LEMMA InitFits == Init => AxisFits
BY DEF Init, AxisFits

(***************************************************************************)
(* Everything the transport and the calls on it hold is of its type: in    *)
(* particular a call returns cells of replies, in whole sequences of them, *)
(* and wd is a descriptor the scope sent.                                  *)
(***************************************************************************)
THEOREM TypeCorrect == Spec => []TypeOK
<1>1. Init => TypeInv /\ AxisFits
  BY InitTyped, InitFits
<1>2. TypeInv /\ AxisFits /\ [Next]_vars => TypeInv' /\ AxisFits'
  BY TypeInductive
<1>3. TypeInv => TypeOK
  BY DEF TypeInv
<1> QED BY <1>1, <1>2, <1>3, PTL DEF Spec

(***************************************************************************)
(* After an acquisition that returned, time_array() has one instant for    *)
(* each sample of what it returned, for every descriptor there may be and  *)
(* also when the bytes were out of place.                                  *)
(***************************************************************************)
THEOREM AxesFit == Spec => []AxisFits
<1>1. Init => TypeInv /\ AxisFits
  BY InitTyped, InitFits
<1>2. TypeInv /\ AxisFits /\ [Next]_vars => TypeInv' /\ AxisFits'
  BY TypeInductive
<1> QED BY <1>1, <1>2, PTL DEF Spec

----------------------------------------------------------------------------
(* The frames not read continue each other, up to where the scope is ...    *)

Chained ==
  \A i \in 1..(Len(stream) - 1) :
    IF stream[i].eoi THEN stream[i + 1].first = 1
    ELSE stream[i + 1].query = stream[i].query /\ stream[i + 1].first = stream[i].last + 1

LastSent ==
  stream # << >> =>
    LET f == stream[Len(stream)]
    IN  IF f.eoi THEN sent = 0
        ELSE inbox # << >> /\ Head(inbox) = f.query /\ sent = f.last

(* ... and, unless a read has left a reply in the middle, they continue the *)
(* message, which is the beginning of one reply.                            *)
MessageOf(q) == \A i \in 1..Len(msg) : msg[i] = [query |-> q, pos |-> i]

InStep ==
  skew \in {"none", "late"} =>
    /\ msg # << >> => MessageOf(msg[1].query)
    /\ stream # << >> => /\ stream[1].first = Len(msg) + 1
                         /\ msg # << >> => stream[1].query = msg[1].query
    /\ stream = << >> => /\ sent = Len(msg)
                         /\ msg # << >> => inbox # << >> /\ Head(inbox) = msg[1].query

(* As long as no read has given up nothing but the reply to the last query  *)
(* is under way, and its end comes last.                                    *)
OneReply ==
  skew = "none" =>
    /\ pc = "idle" => stream = << >> /\ inbox = << >>
    /\ \A i \in 1..Len(stream) : stream[i].query = Len(replies)
    /\ \/ inbox = <<Len(replies)>> /\ \A i \in 1..Len(stream) : ~stream[i].eoi
       \/ inbox = << >> /\ \A i \in 1..Len(stream) : stream[i].eoi => i = Len(stream)

DeliveryInv == TypeInv /\ AxisFits /\ Chained /\ LastSent /\ InStep /\ OneReply

LEMMA QueueTypes ==
  ASSUME TypeInv
  PROVE  /\ Len(replies) \in Nat /\ Len(stream) \in Nat /\ Len(inbox) \in Nat /\ Len(msg) \in Nat
         /\ stream # << >> => Len(stream) >= 1
         /\ \A i \in 1..Len(stream) : stream[i] \in Frame
         /\ inbox # << >> => Len(inbox) >= 1 /\ Head(inbox) = inbox[1]
         /\ \A i \in 1..Len(inbox) : inbox[i] \in 1..Len(replies)
         /\ sent \in Nat
<1>1. /\ replies \in Seq(Reply) /\ inbox \in Seq(1..Len(replies)) /\ stream \in Seq(Frame)
      /\ msg \in Seq(Cell) /\ sent \in 0..(DescLen + MaxTotal)
  BY DEF TypeInv, TypeOK
<1> QED BY <1>1, ConstantTypes, LenProperties, EmptySeq, ElementOfSeq

LEMMA AskDelivers ==
  ASSUME DeliveryInv, NEW c \in Calls, Ask(c)
  PROVE  Chained' /\ LastSent' /\ InStep' /\ OneReply'
<1> DEFINE new == Len(replies) + 1
<1>1. PICK r \in RepliesTo(c) :
        /\ replies' = Append(replies, r)
        /\ inbox' = IF r.kind = "none" THEN inbox ELSE Append(inbox, new)
  BY DEF Ask
<1>2. Len(replies') = new /\ Len(replies) \in Nat
  <2>1. /\ r \in Reply
        /\ replies' \in Seq(Reply) /\ Len(replies') = Len(replies) + 1
        /\ Len(replies) \in Nat /\ Len(replies') <= MaxQueries
        /\ replies'[Len(replies')] = r
        /\ \A q \in 1..Len(replies) : replies'[q] = replies[q]
    BY <1>1, AskReplies DEF Ask, DeliveryInv
  <2> QED BY <2>1
<1>3. /\ UNCHANGED <<sent, stream, skew>> /\ msg = << >> /\ msg' = << >>
      /\ pc = "idle" /\ pc' = "read"
  BY DEF Ask, DeliveryInv, TypeInv, TypeOK
<1>4. inbox # << >> => inbox' # << >> /\ Head(inbox') = Head(inbox)
  <2>1. inbox \in Seq(1..Len(replies)) /\ inbox \in Seq(Int) /\ new \in Int
    BY <1>2 DEF DeliveryInv, TypeInv, TypeOK
  <2> QED BY <1>1, <2>1
<1>5. Chained'
  BY <1>3 DEF DeliveryInv, Chained
<1>6. LastSent'
  BY <1>3, <1>4 DEF DeliveryInv, LastSent
<1>7. InStep'
  BY <1>3, <1>4 DEF DeliveryInv, InStep
<1>8. OneReply'
  <2> SUFFICES ASSUME skew = "none"
               PROVE  /\ \A i \in 1..Len(stream') : stream'[i].query = Len(replies')
                      /\ \/ inbox' = <<Len(replies')>> /\ \A i \in 1..Len(stream') : ~stream'[i].eoi
                         \/ /\ inbox' = << >>
                            /\ \A i \in 1..Len(stream') : stream'[i].eoi => i = Len(stream')
    BY <1>3 DEF OneReply
  <2>1. stream' = << >> /\ Len(stream') = 0 /\ inbox = << >>
    BY <1>3 DEF DeliveryInv, OneReply
  <2>2. inbox' = << >> \/ inbox' = <<new>>
    BY <1>1, <2>1
  <2> QED BY <1>2, <2>1, <2>2
<1> QED BY <1>5, <1>6, <1>7, <1>8

LEMMA SendDelivers ==
  ASSUME DeliveryInv, SendFrame
  PROVE  Chained' /\ LastSent' /\ InStep' /\ OneReply'
<1> DEFINE q == Head(inbox)
           size == Length(replies[q])
<1>1. PICK upTo \in sent..size, eoi \in BOOLEAN :
        /\ stream' = Append(stream, [query |-> q, first |-> sent + 1, last |-> upTo, eoi |-> eoi])
        /\ sent' = IF eoi THEN 0 ELSE upTo
        /\ inbox' = IF eoi THEN Tail(inbox) ELSE inbox
  BY DEF SendFrame
<1> DEFINE f == [query |-> q, first |-> sent + 1, last |-> upTo, eoi |-> eoi]
<1>2. inbox # << >> /\ UNCHANGED <<replies, skew, pc, msg>>
  BY DEF SendFrame
<1>3. /\ f.query = q /\ f.first = sent + 1 /\ f.last = upTo /\ f.eoi = eoi
      /\ stream' = Append(stream, f)
  BY <1>1
<1>4. stream \in Seq(Frame) /\ inbox \in Seq(1..Len(replies))
  BY DEF DeliveryInv, TypeInv, TypeOK
<1> HIDE DEF f, q
<1>5. /\ Len(stream') = Len(stream) + 1 /\ Len(stream) \in Nat /\ stream' # << >>
      /\ stream'[Len(stream')] = f /\ \A i \in 1..Len(stream) : stream'[i] = stream[i]
      /\ stream # << >> => Len(stream) >= 1
  <2> DEFINE S == Frame \cup {f}
  <2>1. stream \in Seq(S) /\ f \in S
    BY <1>4, SeqMonotonic
  <2> HIDE DEF S
  <2>2. /\ Len(Append(stream, f)) = Len(stream) + 1 /\ Len(stream) \in Nat
        /\ \A i \in 1..Len(stream) : Append(stream, f)[i] = stream[i]
        /\ Append(stream, f)[Len(stream) + 1] = f
    BY <2>1, AppendProperties
  <2>3. stream # << >> => Len(stream) >= 1
    BY <1>4, EmptySeq
  <2> QED BY <1>3, <2>2, <2>3
<1>6. stream # << >> => IF stream[Len(stream)].eoi THEN sent = 0
                        ELSE q = stream[Len(stream)].query /\ sent = stream[Len(stream)].last
  BY DEF DeliveryInv, LastSent, q
<1>7. Chained'
  <2> SUFFICES ASSUME NEW i \in 1..(Len(stream') - 1)
               PROVE  IF stream'[i].eoi THEN stream'[i + 1].first = 1
                      ELSE /\ stream'[i + 1].query = stream'[i].query
                           /\ stream'[i + 1].first = stream'[i].last + 1
    BY DEF Chained
  <2>1. i \in 1..Len(stream) /\ stream'[i] = stream[i]
    BY <1>5
  <2>2. CASE i = Len(stream)
    <3>1. stream'[i + 1] = f /\ stream # << >>
      BY <1>5, <2>1, <2>2
    <3> QED BY <1>3, <1>6, <2>1, <2>2, <3>1
  <2>3. CASE i # Len(stream)
    <3>1. i \in 1..(Len(stream) - 1) /\ i + 1 \in 1..Len(stream)
      BY <1>5, <2>1, <2>3
    <3>2. stream'[i + 1] = stream[i + 1]
      BY <1>5, <3>1
    <3> QED BY <2>1, <3>1, <3>2 DEF DeliveryInv, Chained
  <2> QED BY <2>2, <2>3
<1>8. LastSent'
  <2>1. CASE eoi
    BY <1>1, <1>3, <1>5, <2>1 DEF LastSent
  <2>2. CASE ~eoi
    BY <1>1, <1>2, <1>3, <1>5, <2>2 DEF LastSent, q
  <2> QED BY <2>1, <2>2
<1>9. InStep'
  <2> SUFFICES ASSUME skew \in {"none", "late"}
               PROVE  /\ msg' # << >> => MessageOf(msg[1].query)'
                      /\ stream'[1].first = Len(msg') + 1
                      /\ msg' # << >> => stream'[1].query = msg'[1].query
    BY <1>2, <1>5 DEF InStep, MessageOf
  <2>1. msg' # << >> => MessageOf(msg[1].query)'
    BY <1>2 DEF DeliveryInv, InStep, MessageOf
  <2>2. CASE stream = << >>
    <3>1. stream'[1] = f
      BY <1>5, <2>2
    <3>2. sent = Len(msg) /\ (msg # << >> => q = msg[1].query)
      BY <2>2 DEF DeliveryInv, InStep, q
    <3> QED BY <1>2, <1>3, <2>1, <3>1, <3>2
  <2>3. CASE stream # << >>
    <3>1. stream'[1] = stream[1]
      BY <1>5, <2>3
    <3> QED BY <1>2, <2>1, <2>3, <3>1 DEF DeliveryInv, InStep
  <2> QED BY <2>2, <2>3
<1>10. OneReply'
  <2> SUFFICES ASSUME skew = "none"
               PROVE  /\ pc # "idle"
                      /\ \A i \in 1..Len(stream') : stream'[i].query = Len(replies)
                      /\ \/ inbox' = <<Len(replies)>> /\ \A i \in 1..Len(stream') : ~stream'[i].eoi
                         \/ /\ inbox' = << >>
                            /\ \A i \in 1..Len(stream') : stream'[i].eoi => i = Len(stream')
    BY <1>2 DEF OneReply
  <2>1. /\ pc # "idle" /\ inbox = <<Len(replies)>>
        /\ \A i \in 1..Len(stream) : ~stream[i].eoi /\ stream[i].query = Len(replies)
    BY <1>2 DEF DeliveryInv, OneReply
  <2>2. q = Len(replies) /\ Tail(inbox) = << >>
    BY <2>1 DEF q
  <2>3. \A i \in 1..Len(stream') : IF i = Len(stream') THEN stream'[i] = f
                                   ELSE i \in 1..Len(stream) /\ stream'[i] = stream[i]
    BY <1>5
  <2>4. \A i \in 1..Len(stream') : stream'[i].query = Len(replies)
    BY <1>3, <2>1, <2>2, <2>3
  <2>5. \A i \in 1..Len(stream') : stream'[i].eoi => i = Len(stream') /\ eoi
    BY <1>3, <2>1, <2>3
  <2> QED BY <1>1, <2>1, <2>2, <2>4, <2>5
<1> QED BY <1>7, <1>8, <1>9, <1>10

(* What a frame read leaves for the next read *)
LEMMA FrameRead ==
  ASSUME DeliveryInv, ReadFrame
  PROVE  LET f == Head(stream)
         IN  /\ Chained' /\ LastSent' /\ OneReply'
             /\ skew \in {"none", "late"} =>
                  \A i \in 1..Len(Joined(f)) : Joined(f)[i] = [query |-> f.query, pos |-> i]
             /\ skew \in {"none", "late"} => Len(Joined(f)) = f.last
             /\ skew \in {"none", "late"} /\ ~f.eoi => InStep'
             /\ skew \in {"none", "late"} /\ f.eoi /\ msg' = << >> => InStep'
             /\ skew = "none" => f.query = Len(replies)
             /\ skew = "none" /\ f.eoi => stream' = << >> /\ inbox = << >>
<1> DEFINE f == Head(stream)
           m == Joined(f)
<1>1. /\ stream # << >> /\ stream' = Tail(stream) /\ UNCHANGED <<scopeVars, skew, call>>
      /\ pc = "read" /\ (~f.eoi => msg' = m)
      /\ ~f.eoi => UNCHANGED pc
  BY DEF ReadFrame
<1>2. TypeInv
  BY DEF DeliveryInv
<1>3. /\ f \in Frame /\ Sendable(f) /\ f = stream[1]
      /\ m \in Seq(Cell) /\ Len(m) = Len(msg) + (f.last - f.first + 1)
      /\ \A i \in 1..Len(m) :
           m[i] = IF i <= Len(msg) THEN msg[i]
                  ELSE [query |-> f.query, pos |-> f.first + (i - Len(msg)) - 1]
      /\ Len(Tail(stream)) = Len(stream) - 1
      /\ \A i \in 1..Len(Tail(stream)) : Tail(stream)[i] = stream[i + 1]
  BY <1>1, <1>2, JoinedTypes
<1>4. Len(stream) \in Nat /\ Len(stream) >= 1 /\ Len(msg) \in Nat /\ msg \in Seq(Cell)
  BY <1>1, <1>2, QueueTypes DEF TypeInv, TypeOK
<1> DEFINE rest == Tail(stream)
<1>5. rest # << >> => Len(rest) >= 1
  BY <1>1, <1>2, EmptySeq, HeadTailProperties DEF TypeInv, TypeOK
<1> HIDE DEF f, m, rest
<1>6. f.first \in Nat /\ f.first >= 1 /\ f.last \in Nat /\ f.first <= f.last + 1
  BY <1>3, ConstantTypes DEF Frame, Sendable
<1>7. /\ stream' = rest /\ Len(rest) = Len(stream) - 1
      /\ \A i \in 1..Len(rest) : rest[i] = stream[i + 1] /\ i + 1 \in 1..Len(stream)
  BY <1>1, <1>3, <1>4 DEF rest
<1>8. rest # << >> => /\ Len(stream) >= 2 /\ rest[Len(rest)] = stream[Len(stream)]
                      /\ rest[1] = stream[2]
                      /\ IF f.eoi THEN rest[1].first = 1
                         ELSE rest[1].query = f.query /\ rest[1].first = f.last + 1
  <2> SUFFICES ASSUME rest # << >>
               PROVE  /\ Len(stream) >= 2 /\ rest[Len(rest)] = stream[Len(stream)]
                      /\ rest[1] = stream[2]
                      /\ IF f.eoi THEN rest[1].first = 1
                         ELSE rest[1].query = f.query /\ rest[1].first = f.last + 1
    OBVIOUS
  <2>1. /\ Len(stream) >= 2 /\ 1 \in 1..Len(rest) /\ Len(rest) \in 1..Len(rest)
        /\ Len(rest) + 1 = Len(stream) /\ 1 \in 1..(Len(stream) - 1)
    BY <1>4, <1>5, <1>7
  <2>2. rest[Len(rest)] = stream[Len(stream)] /\ rest[1] = stream[1 + 1]
    BY <1>7, <2>1
  <2>3. IF stream[1].eoi THEN stream[1 + 1].first = 1
        ELSE stream[1 + 1].query = stream[1].query /\ stream[1 + 1].first = stream[1].last + 1
    BY <2>1 DEF DeliveryInv, Chained
  <2> QED BY <1>3, <2>1, <2>2, <2>3
<1>a. Len(stream) = 1 => rest = << >>
  BY <1>8
<1>9. rest = << >> => stream[Len(stream)] = f
  <2> SUFFICES ASSUME rest = << >> PROVE Len(stream) = 1
    BY <1>3
  <2>1. Len(rest) = 0
    OBVIOUS
  <2> QED BY <1>4, <1>7, <2>1
<1>10. Chained'
  <2> SUFFICES ASSUME NEW i \in 1..(Len(rest) - 1)
               PROVE  IF rest[i].eoi THEN rest[i + 1].first = 1
                      ELSE rest[i + 1].query = rest[i].query /\ rest[i + 1].first = rest[i].last + 1
    BY <1>7 DEF Chained
  <2>1. i \in 1..Len(rest) /\ i + 1 \in 1..Len(rest) /\ i + 1 \in 1..(Len(stream) - 1)
    BY <1>4, <1>7
  <2>2. rest[i] = stream[i + 1] /\ rest[i + 1] = stream[i + 1 + 1]
    BY <1>7, <2>1
  <2> QED BY <2>1, <2>2 DEF DeliveryInv, Chained
<1>11. LastSent'
  BY <1>1, <1>7, <1>8 DEF DeliveryInv, LastSent, scopeVars
<1>12. OneReply'
  <2> SUFFICES ASSUME skew = "none"
               PROVE  /\ pc' = "idle" => rest = << >> /\ inbox = << >>
                      /\ \A i \in 1..Len(rest) : rest[i].query = Len(replies)
                      /\ \/ inbox = <<Len(replies)>> /\ \A i \in 1..Len(rest) : ~rest[i].eoi
                         \/ inbox = << >> /\ \A i \in 1..Len(rest) : rest[i].eoi => i = Len(rest)
    BY <1>1, <1>7 DEF OneReply, scopeVars
  <2>1. /\ \A i \in 1..Len(stream) : stream[i].query = Len(replies)
        /\ \/ inbox = <<Len(replies)>> /\ \A i \in 1..Len(stream) : ~stream[i].eoi
           \/ inbox = << >> /\ \A i \in 1..Len(stream) : stream[i].eoi => i = Len(stream)
    BY DEF DeliveryInv, OneReply
  <2>2. f.eoi => rest = << >> /\ inbox = << >>
    <3> SUFFICES ASSUME f.eoi PROVE rest = << >> /\ inbox = << >>
      OBVIOUS
    <3>1. 1 \in 1..Len(stream)
      BY <1>4
    <3>2. inbox = << >> /\ 1 = Len(stream)
      BY <1>3, <2>1, <3>1
    <3> QED BY <1>a, <3>2
  <2>3. pc' = "idle" => f.eoi
    BY <1>1
  <2>4. \A i \in 1..Len(rest) : rest[i].eoi => i + 1 = Len(stream) \/ inbox # << >>
    BY <1>7, <2>1
  <2>5. \A i \in 1..Len(rest) : i + 1 = Len(stream) => i = Len(rest)
    BY <1>4, <1>7
  <2> QED BY <1>7, <2>1, <2>2, <2>3, <2>4, <2>5
<1>13. ASSUME skew \in {"none", "late"}
       PROVE  /\ \A i \in 1..Len(m) : m[i] = [query |-> f.query, pos |-> i]
              /\ Len(m) = f.last
  <2>1. /\ f.first = Len(msg) + 1 /\ (msg # << >> => f.query = msg[1].query)
        /\ \A i \in 1..Len(msg) : msg # << >> => msg[i] = [query |-> msg[1].query, pos |-> i]
    BY <1>1, <1>3, <1>13 DEF DeliveryInv, InStep, MessageOf
  <2>2. Len(m) = f.last
    BY <1>3, <1>4, <1>6, <2>1
  <2>3. ASSUME NEW i \in 1..Len(m) PROVE m[i] = [query |-> f.query, pos |-> i]
    <3>1. CASE i <= Len(msg)
      <4>1. i \in 1..Len(msg) /\ msg # << >>
        BY <1>4, <2>2, <3>1, <1>6
      <4> QED BY <1>3, <2>1, <3>1, <4>1
    <3>2. CASE ~(i <= Len(msg))
      <4>1. f.first + (i - Len(msg)) - 1 = i
        BY <1>4, <1>6, <2>1, <2>2
      <4> QED BY <1>3, <3>2, <4>1
    <3> QED BY <3>1, <3>2
  <2> QED BY <2>2, <2>3
<1>14. ASSUME skew \in {"none", "late"}, ~f.eoi
       PROVE  InStep'
  <2>1. msg' = m /\ UNCHANGED skew /\ UNCHANGED <<inbox, sent>>
    BY <1>1, <1>14 DEF scopeVars
  <2>2. m # << >> => m[1].query = f.query /\ \A i \in 1..Len(m) : m[i] = [query |-> f.query, pos |-> i]
    <3>1. m # << >> => 1 \in 1..Len(m)
      BY <1>3, EmptySeq
    <3>2. \A i \in 1..Len(m) : m[i] = [query |-> f.query, pos |-> i]
      BY <1>13, <1>14
    <3>3. m # << >> => m[1] = [query |-> f.query, pos |-> 1]
      BY <3>1, <3>2
    <3> QED BY <3>2, <3>3
  <2>3. msg' # << >> => MessageOf(msg[1].query)'
    BY <2>1, <2>2 DEF MessageOf
  <2>4. rest # << >> => rest[1].first = Len(m) + 1 /\ rest[1].query = f.query
    BY <1>8, <1>13, <1>14
  <2>5. rest = << >> => inbox # << >> /\ Head(inbox) = f.query /\ sent = Len(m)
    <3>1. stream # << >> /\ Len(m) = f.last
      BY <1>1, <1>13, <1>14
    <3> QED BY <1>9, <1>14, <3>1 DEF DeliveryInv, LastSent
  <2> QED BY <1>7, <2>1, <2>2, <2>3, <2>4, <2>5 DEF InStep
<1>15. ASSUME skew \in {"none", "late"}, f.eoi, msg' = << >>
       PROVE  InStep'
  <2>1. UNCHANGED skew /\ UNCHANGED <<inbox, sent>> /\ Len(msg') = 0
    BY <1>1, <1>15 DEF scopeVars
  <2>2. rest # << >> => rest[1].first = 1
    BY <1>8, <1>15
  <2>3. rest = << >> => sent = 0
    BY <1>1, <1>9, <1>15 DEF DeliveryInv, LastSent
  <2> QED BY <1>7, <1>15, <2>1, <2>2, <2>3 DEF InStep
<1>16. skew = "none" => f.query = Len(replies)
  <2>1. 1 \in 1..Len(stream)
    BY <1>4
  <2> QED BY <1>3, <2>1 DEF DeliveryInv, OneReply
<1>17. skew = "none" /\ f.eoi => stream' = << >> /\ inbox = << >>
  <2> SUFFICES ASSUME skew = "none", f.eoi PROVE rest = << >> /\ inbox = << >>
    BY <1>7
  <2>1. 1 \in 1..Len(stream)
    BY <1>4
  <2>2. inbox = << >> /\ 1 = Len(stream)
    BY <1>3, <2>1 DEF DeliveryInv, OneReply
  <2> QED BY <1>a, <2>2
<1> QED BY <1>10, <1>11, <1>12, <1>13, <1>14, <1>15, <1>16, <1>17 DEF f, m

(* The end of a call *)
LEMMA FinishEnds ==
  ASSUME TypeInv, NEW m \in Seq(Cell), UNCHANGED call,
         \A i \in 1..Len(m) : m[i].query \in 0..Len(replies), Finish(m)
  PROVE  pc' = "idle" /\ msg' = << >> /\ answer'.status \in {"ok", "error"}
<1>1. pc' = "idle" /\ msg' = << >>
  BY FinishTyped
<1>2. Len(m) \in Nat
  BY LenProperties
<1>3. answer'.status \in {"ok", "error"}
  <2>1. CASE call = "query"
    BY <2>1 DEF Finish, Answer
  <2>2. CASE call # "query" /\ Len(m) < DescLen
    <3>1. call # "query" /\ Len(m) < DescLen /\ ~(Len(m) >= DescLen)
      BY <1>2, <2>2, ConstantTypes
    <3>2. Raise
      BY ONLY <3>1, Finish(m), Zenon DEF Finish
    <3> QED BY <3>2 DEF Raise, Answer
  <2>3. CASE call # "query" /\ Len(m) >= DescLen
    <3>1. Waveform(m)
      BY <1>2, <2>3, ConstantTypes DEF Finish
    <3> QED BY <3>1 DEF Waveform, Raise, Answer
  <2> QED BY <1>2, <2>1, <2>2, <2>3, ConstantTypes
<1> QED BY <1>1, <1>3

LEMMA ReadDelivers ==
  ASSUME DeliveryInv, Read
  PROVE  Chained' /\ LastSent' /\ InStep' /\ OneReply'
<1>1. TypeInv /\ msg \in Seq(Cell)
  BY DEF DeliveryInv, TypeInv, TypeOK
<1>2. CASE ReadFrame
  <2> DEFINE f == Head(stream)
             m == Joined(f)
  <2>1. UNCHANGED <<skew, call>> /\ stream # << >>
    BY <1>2 DEF ReadFrame
  <2>2. f.eoi \in BOOLEAN
    BY <1>1, <2>1, JoinedTypes DEF Frame
  <2>3. f.eoi => msg' = << >>
    <3> SUFFICES ASSUME f.eoi PROVE msg' = << >>
      OBVIOUS
    <3>1. Finish(m)
      BY <1>2 DEF ReadFrame
    <3>2. m \in Seq(Cell) /\ \A i \in 1..Len(m) : m[i].query \in 0..Len(replies)
      BY <1>1, <2>1, JoinedTypes
    <3> QED BY <1>1, <2>1, <3>1, <3>2, FinishTyped
  <2>4. CASE skew \in {"none", "late"}
    BY <1>2, <2>2, <2>3, <2>4, FrameRead
  <2>5. CASE skew \notin {"none", "late"}
    BY <1>2, <2>1, <2>5, FrameRead DEF InStep
  <2> QED BY <2>4, <2>5
<1>3. CASE ReadGarbage
  <2>1. skew = "lost" /\ UNCHANGED <<scopeVars, stream, skew>>
    BY <1>3 DEF ReadGarbage
  <2> QED BY <2>1 DEF DeliveryInv, Chained, LastSent, InStep, OneReply, scopeVars
<1>4. CASE GiveUp \/ GiveUpInFrame
  <2>1. UNCHANGED <<scopeVars, stream>> /\ msg' = << >>
    BY <1>4 DEF GiveUp, GiveUpInFrame, Raise, Answer
  <2>2. skew' # "none" /\ (skew' = "late" => skew \in {"none", "late"} /\ msg = << >>)
    BY <1>4 DEF GiveUp, GiveUpInFrame, DeliveryInv, TypeInv, TypeOK, Skews
  <2>3. InStep' /\ OneReply'
    BY <2>1, <2>2 DEF DeliveryInv, InStep, OneReply, scopeVars
  <2> QED BY <2>1, <2>3 DEF DeliveryInv, Chained, LastSent, scopeVars
<1> QED BY <1>2, <1>3, <1>4 DEF Read

LEMMA DeliveryInductive == DeliveryInv /\ [Next]_vars => DeliveryInv'
<1> SUFFICES ASSUME DeliveryInv, [Next]_vars PROVE DeliveryInv'
  OBVIOUS
<1>1. TypeInv' /\ AxisFits'
  BY TypeInductive DEF DeliveryInv
<1>2. CASE UNCHANGED vars
  BY <1>1, <1>2 DEF DeliveryInv, Chained, LastSent, InStep, MessageOf, OneReply, vars, scopeVars
<1>3. CASE Reconnect
  <2>1. /\ replies' = << >> /\ inbox' = << >> /\ stream' = << >> /\ sent' = 0
        /\ msg' = << >> /\ Len(stream') = 0 /\ Len(msg') = 0
    BY <1>3 DEF Reconnect, DeliveryInv, TypeInv, TypeOK
  <2> QED BY <1>1, <2>1 DEF DeliveryInv, Chained, LastSent, InStep, OneReply
<1> QED BY <1>1, <1>2, <1>3, AskDelivers, SendDelivers, ReadDelivers DEF DeliveryInv, Next

LEMMA InitDelivers == Init => DeliveryInv
<1> SUFFICES ASSUME Init PROVE DeliveryInv
  OBVIOUS
<1>1. /\ inbox = << >> /\ stream = << >> /\ sent = 0
      /\ msg = << >> /\ Len(stream) = 0 /\ Len(msg) = 0
  BY DEF Init
<1> QED BY <1>1, InitTyped, InitFits DEF DeliveryInv, Chained, LastSent, InStep, OneReply

----------------------------------------------------------------------------
(* A call that has the whole reply to a query returns what it holds. *)
LEMMA WholeReply ==
  ASSUME TypeInv, NEW q \in 1..Len(replies), NEW m \in Seq(Cell),
         Len(m) = Length(replies[q]),
         \A i \in 1..Len(m) : m[i] = [query |-> q, pos |-> i],
         Finish(m), UNCHANGED <<replies, call>>, answer'.status = "ok"
  PROVE  Holds(q)'
<1> DEFINE r == replies[q]
           size == Length(r)
           d == r.desc
           n == d.total \div d.count
<1>1. /\ r \in Reply /\ q \in 0..MaxQueries /\ q # 0 /\ Len(m) = size
      /\ size \in 0..(DescLen + MaxTotal)
  <2>1. replies \in Seq(Reply) /\ Len(replies) \in Nat /\ Len(replies) <= MaxQueries
    BY LenProperties DEF TypeInv, TypeOK
  <2>2. r \in Reply
    BY <2>1, ElementOfSeq
  <2> QED BY <2>1, <2>2, ReplyTypes, ConstantTypes
<1>2. call \in Calls /\ DescLen = 2 /\ size \in Nat
  BY <1>1, ConstantTypes DEF TypeInv, TypeOK
<1>3. CASE call = "query"
  <2>1. answer'.parts = <<m>>
    BY <1>3 DEF Finish, Answer
  <2>2. /\ Piece(q, 1, size) \in Seq(Cell) /\ Len(Piece(q, 1, size)) = size
        /\ \A i \in 1..size : Piece(q, 1, size)[i] = [query |-> q, pos |-> i]
    BY <1>1, WholePiece, Zenon
  <2>4. \A i \in 1..size : m[i] = Piece(q, 1, size)[i]
    BY <1>1, <2>2
  <2>5. m = Piece(q, 1, size)
    BY <1>1, <2>2, <2>4, SeqEqual
  <2> QED BY <1>3, <2>1, <2>5 DEF Holds, Payload
<1>4. CASE call # "query"
  <2>1. Len(m) >= DescLen
    <3> SUFFICES ASSUME ~(Len(m) >= DescLen) PROVE FALSE
      OBVIOUS
    <3>1. call # "query" /\ Len(m) < DescLen /\ ~(Len(m) >= DescLen)
      BY <1>1, <1>2, <1>4
    <3>2. Raise
      BY ONLY <3>1, Finish(m), Zenon DEF Finish
    <3> QED BY <3>2 DEF Raise, Answer
  <2>2. Waveform(m)
    BY <1>1, <1>2, <1>4, <2>1 DEF Finish
  <2>3. r.kind = "wave" /\ d \in Descriptors /\ size = DescLen + d.total
    BY <1>1, <2>1, ReplyTypes
  <2>4. d.total \in Nat /\ d.total <= MaxTotal /\ d.count \in Nat /\ d.count >= 1 /\ MaxTotal \in Nat
    BY <2>3, ConstantTypes
  <2>5. Decoded(m) = {d}
    <3>1. m[1] = [query |-> q, pos |-> 1]
      BY <1>1, <1>2, <2>1
    <3> QED BY <1>1, <3>1 DEF Decoded
  <2>6. /\ call = "acquire" => Readable(m, d) /\ answer'.parts = <<Samples(m, d)>>
        /\ call = "sequence" => /\ Splits(d) /\ Readable(m, d)
                                /\ answer'.parts = SplitSegments(m, d)
    BY <2>2, <2>5 DEF Waveform, Raise, Answer
  <2> HIDE DEF r, d, n, size
  <2>7. CASE call = "acquire"
    <3> DEFINE a == Samples(m, d)
               b == Piece(q, DescLen + 1, size)
    <3>1. a \in Seq(Cell) /\ Len(a) = d.total /\ \A i \in 1..d.total : a[i] = m[DescLen + i]
      BY <2>4, <2>6, <2>7, SamplesRead
    <3>2. /\ b \in Seq(Cell) /\ Len(b) = size - (DescLen + 1) + 1
          /\ \A i \in 1..(size - (DescLen + 1) + 1) :
               b[i] = [query |-> q, pos |-> DescLen + 1 + i - 1]
      <4>1. /\ DescLen + 1 \in Nat /\ DescLen + 1 >= 1 /\ DescLen + 1 <= size + 1
            /\ size \in Nat /\ size <= DescLen + MaxTotal
        BY <1>2, <2>3, <2>4
      <4> QED BY <1>1, <4>1, PieceTypes
    <3>3. size - (DescLen + 1) + 1 = d.total
      BY <1>2, <2>3, <2>4
    <3> HIDE DEF a, b
    <3>4. ASSUME NEW i \in 1..d.total PROVE a[i] = b[i]
      <4>1. DescLen + i \in 1..Len(m) /\ DescLen + 1 + i - 1 = DescLen + i
        BY <1>1, <1>2, <2>3, <2>4
      <4> QED BY <3>1, <3>2, <3>3, <4>1
    <3>5. a = b
      BY <3>1, <3>2, <3>3, <3>4, SeqEqual
    <3> QED BY <2>3, <2>6, <2>7, <3>5 DEF Holds, a, b, r, size
  <2>8. CASE call = "sequence"
    <3> DEFINE a == SplitSegments(m, d)
               Segment(s) == Piece(q, DescLen + (s - 1) * n + 1, DescLen + s * n)
    <3>1. Splits(d) /\ Readable(m, d) /\ d.total % d.count = 0 /\ n = PerSegment(d)
      BY <2>6, <2>8 DEF Splits, PerSegment, n
    <3>2. /\ n \in Nat /\ n * d.count = d.total
          /\ \A s \in 1..d.count : /\ (s - 1) * n \in Nat /\ s * n \in Nat
                                   /\ s * n <= d.total /\ s * n = (s - 1) * n + n
      <4>1. PICK total \in Nat, count \in Nat :
              total = d.total /\ count = d.count /\ count >= 1 /\ total % count = 0
        BY <2>4, <3>1
      <4>2. /\ total \div count \in Nat
            /\ (total \div count) * count = total
            /\ \A s \in 1..count : /\ (s - 1) * (total \div count) \in Nat
                                   /\ s * (total \div count) \in Nat
                                   /\ s * (total \div count) <= total
                                   /\ s * (total \div count)
                                        = (s - 1) * (total \div count) + (total \div count)
        <5>1. count >= 1 /\ total % count = 0
          BY <4>1
        <5> QED BY ONLY total \in Nat, count \in Nat, <5>1, EqualSegments
      <4>3. n = total \div count
        BY <4>1 DEF n
      <4> QED BY <4>1, <4>2, <4>3
    <3>3. /\ a \in Seq(Seq(Cell)) /\ Len(a) = d.count
          /\ \A s \in 1..d.count :
               /\ Len(a[s]) = n
               /\ \A i \in 1..n : a[s][i] = m[DescLen + (s - 1) * n + i]
      <4>1. /\ a \in Seq(Seq(Cell)) /\ Len(a) = d.count
            /\ \A s \in 1..d.count :
                 /\ Len(a[s]) = PerSegment(d)
                 /\ \A i \in 1..PerSegment(d) :
                      a[s][i] = m[DescLen + (s - 1) * PerSegment(d) + i]
        <5>1. d.total \in Nat /\ d.count \in Nat /\ Readable(m, d) /\ Splits(d)
          BY <2>4, <3>1
        <5> QED BY ONLY m \in Seq(Cell), <5>1, SegmentsRead
      <4> QED BY ONLY <3>1, <4>1
    <3> HIDE DEF a
    <3>4. ASSUME NEW s \in 1..d.count PROVE a[s] = Segment(s)
      <4>1. PICK before \in Nat, end \in Nat :
              before = (s - 1) * n /\ end = s * n /\ end = before + n /\ end <= d.total
        BY <3>2
      <4>2. Segment(s) = Piece(q, DescLen + before + 1, DescLen + end)
        BY <4>1
      <4> HIDE DEF Segment
      <4> DEFINE b == Piece(q, DescLen + before + 1, DescLen + end)
      <4>3. /\ DescLen + before + 1 \in Nat /\ DescLen + end \in Nat
            /\ DescLen + before + 1 >= 1 /\ DescLen + before + 1 <= DescLen + end + 1
            /\ DescLen + end <= DescLen + MaxTotal
            /\ DescLen + end - (DescLen + before + 1) + 1 = n
        <5>1. n \in Nat /\ end = before + n /\ end <= d.total
          BY <3>2, <4>1
        <5>2. end <= MaxTotal
          BY <2>4, <5>1
        <5> QED BY ONLY <1>2, <2>4, <5>1, <5>2, before \in Nat, end \in Nat
      <4>4. /\ b \in Seq(Cell) /\ Len(b) = n
            /\ \A i \in 1..n : b[i] = [query |-> q, pos |-> DescLen + before + 1 + i - 1]
        <5>1. /\ b \in Seq(Cell) /\ Len(b) = DescLen + end - (DescLen + before + 1) + 1
              /\ \A i \in 1..(DescLen + end - (DescLen + before + 1) + 1) :
                   b[i] = [query |-> q, pos |-> DescLen + before + 1 + i - 1]
          <6>1. PICK first \in Nat, last \in Nat :
                  first = DescLen + before + 1 /\ last = DescLen + end
            BY <4>3
          <6>2. first >= 1 /\ first <= last + 1 /\ last <= DescLen + MaxTotal
            BY <4>3, <6>1
          <6>3. /\ Piece(q, first, last) \in Seq(Cell)
                /\ Len(Piece(q, first, last)) = last - first + 1
                /\ \A i \in 1..(last - first + 1) :
                     Piece(q, first, last)[i] = [query |-> q, pos |-> first + i - 1]
            BY <1>1, <6>2, PieceTypes
          <6>4. b = Piece(q, first, last)
            BY <6>1
          <6> HIDE DEF b
          <6>5. /\ b \in Seq(Cell) /\ Len(b) = last - first + 1
                /\ \A i \in 1..(last - first + 1) : b[i] = [query |-> q, pos |-> first + i - 1]
            BY <6>3, <6>4
          <6> QED BY ONLY <1>2, <6>1, <6>5
        <5> QED BY <4>3, <5>1
      <4>5. /\ a[s] \in Seq(Cell) /\ Len(a[s]) = n
            /\ \A i \in 1..n : a[s][i] = m[DescLen + before + i]
        <5>1. a[s] \in Seq(Cell)
          BY <3>3, ElementOfSeq
        <5> QED BY <3>3, <4>1, <5>1
      <4> HIDE DEF b
      <4>6. ASSUME NEW i \in 1..n PROVE a[s][i] = b[i]
        <5>1. /\ DescLen + before + i \in 1..Len(m)
              /\ DescLen + before + 1 + i - 1 = DescLen + before + i
          <6>1. n \in Nat /\ end = before + n /\ end <= d.total /\ Len(m) = DescLen + d.total
            BY <1>1, <2>3, <3>2, <4>1
          <6> QED BY ONLY <1>2, <2>4, <6>1, before \in Nat, end \in Nat, i \in 1..n
        <5>2. m[DescLen + before + i] = [query |-> q, pos |-> DescLen + before + i]
          BY <5>1
        <5> QED BY <4>4, <4>5, <5>1, <5>2
      <4>7. a[s] = b
        BY <4>4, <4>5, <4>6, SeqEqual
      <4> QED BY <4>2, <4>7 DEF b
    <3> HIDE DEF Segment
    <3>5. a = [s \in 1..d.count |-> Segment(s)]
      <4>1. DOMAIN a = 1..d.count
        BY <3>3, LenProperties
      <4>2. a = [s \in 1..Len(a) |-> a[s]]
        BY <3>3, <4>1
      <4> QED BY <3>3, <3>4, <4>2
    <3> QED BY <2>3, <2>6, <2>8, <3>2, <3>5 DEF Holds, a, Segment, r, d, n
  <2>9. CASE call = "axis"
    BY <2>3, <2>9 DEF Holds, r
  <2> QED BY <1>2, <1>4, <2>7, <2>8, <2>9 DEF Calls
<1> QED BY <1>3, <1>4

(* A read that goes well, seen from above: the call is answered, and with   *)
(* what it may be taken for.                                                *)
LEMMA AnswerFound ==
  Len(replies) \in Nat /\ answer.status = "ok" =>
    /\ AnswerOf \in {0} \cup 1..Len(replies)
    /\ (\E q \in 1..Len(replies) : Holds(q)) => AnswerOf \in 1..Len(replies)
    /\ \A q \in 1..Len(replies) : q = Len(replies) /\ Holds(q) => AnswerOf = q
<1> SUFFICES ASSUME Len(replies) \in Nat, answer.status = "ok"
             PROVE  /\ AnswerOf \in {0} \cup 1..Len(replies)
                    /\ (\E q \in 1..Len(replies) : Holds(q)) => AnswerOf \in 1..Len(replies)
                    /\ \A q \in 1..Len(replies) : q = Len(replies) /\ Holds(q) => AnswerOf = q
  OBVIOUS
<1> DEFINE Q == {q \in 1..Len(replies) : Holds(q)}
<1>1. AnswerOf = IF Len(replies) \in Q THEN Len(replies)
                 ELSE IF Q = {} THEN 0 ELSE CHOOSE q \in Q : TRUE
  BY DEF AnswerOf
<1>2. Q \subseteq 1..Len(replies)
  OBVIOUS
<1>3. Q # {} => (CHOOSE q \in Q : TRUE) \in Q
  OBVIOUS
<1>4. Len(replies) \in Q => Len(replies) \in 1..Len(replies)
  BY <1>2
<1>5. (\E q \in 1..Len(replies) : Holds(q)) => Q # {}
  OBVIOUS
<1>6. \A q \in 1..Len(replies) : q = Len(replies) /\ Holds(q) => Len(replies) \in Q
  OBVIOUS
<1> HIDE DEF Q
<1> QED BY <1>1, <1>2, <1>3, <1>4, <1>5, <1>6

LEMMA InitMaps == Init => Channel!Init
<1> SUFFICES ASSUME Init PROVE Channel!Init
  OBVIOUS
<1>1. Len(replies) = 0 /\ pc = "idle" /\ skew = "none" /\ answer.status = "none"
  BY DEF Init
<1> QED BY <1>1 DEF Channel!Init, Channel!Own, Channel!NoAnswer, AnswerOf

LEMMA AskMaps ==
  ASSUME DeliveryInv, NEW c \in Calls, Ask(c)
  PROVE  Channel!Ask
<1>1. PICK r \in RepliesTo(c) : replies' = Append(replies, r)
  BY DEF Ask
<1>2. Len(replies') = Len(replies) + 1
  <2>1. /\ r \in Reply
        /\ replies' \in Seq(Reply) /\ Len(replies') = Len(replies) + 1
        /\ Len(replies) \in Nat /\ Len(replies') <= MaxQueries
        /\ replies'[Len(replies')] = r
        /\ \A q \in 1..Len(replies) : replies'[q] = replies[q]
    BY <1>1, AskReplies DEF Ask, DeliveryInv
  <2> QED BY <2>1
<1>3. pc = "idle" /\ pc' = "read" /\ Len(replies) < MaxQueries /\ UNCHANGED skew
      /\ answer'.status = "none"
  BY DEF Ask
<1>4. AnswerOf' = -1
  BY <1>3 DEF AnswerOf
<1> QED BY <1>2, <1>3, <1>4 DEF Channel!Ask, Channel!NoAnswer

LEMMA ReconnectMaps ==
  ASSUME DeliveryInv, Reconnect
  PROVE  Channel!Reconnect
<1>1. /\ Len(replies') = 0 /\ pc = "idle" /\ pc' = "idle" /\ skew' = "none"
      /\ answer'.status = "none"
  BY DEF Reconnect
<1>2. AnswerOf' = -1
  BY <1>1 DEF AnswerOf
<1> QED BY <1>1, <1>2 DEF Channel!Reconnect, Channel!Own, Channel!NoAnswer

LEMMA GiveUpMaps ==
  ASSUME DeliveryInv, GiveUp \/ GiveUpInFrame
  PROVE  Channel!Fail
<1>1. /\ pc = "read" /\ pc' = "idle" /\ answer'.status = "error" /\ UNCHANGED replies
  BY DEF GiveUp, GiveUpInFrame, Raise, Answer, scopeVars
<1>2. AnswerOf' = -2
  BY <1>1 DEF AnswerOf
<1>3. /\ skew \in Skews
      /\ \/ skew' = skew \/ skew' \in {"cut", "lost"}
         \/ skew = "none" /\ skew' = "late"
  BY DEF GiveUp, GiveUpInFrame, DeliveryInv, TypeInv, TypeOK
<1>4. (CASE skew' = "none" -> 2 [] skew' = "late" -> 1 [] OTHER -> 0)
        \in 0..(CASE skew = "none" -> 2 [] skew = "late" -> 1 [] OTHER -> 0)
  BY <1>3 DEF Skews
<1> QED BY <1>1, <1>2, <1>4 DEF Channel!Fail, Channel!Failed, Channel!Nothing

LEMMA EndMaps ==
  ASSUME DeliveryInv, UNCHANGED <<replies, skew>>, pc = "read", pc' = "idle",
         answer'.status \in {"ok", "error"},
         answer'.status = "ok" /\ skew = "none" =>
           \E q \in 1..Len(replies) : q = Len(replies) /\ Holds(q)',
         answer'.status = "ok" /\ skew = "late" => \E q \in 1..Len(replies) : Holds(q)'
  PROVE  Channel!Deliver \/ Channel!Fail
<1>1. Len(replies) \in Nat /\ Len(replies') = Len(replies) /\ skew \in Skews
  BY LenProperties DEF DeliveryInv, TypeInv, TypeOK
<1>2. CASE answer'.status = "error"
  <2>1. AnswerOf' = -2
    BY <1>2 DEF AnswerOf
  <2>2. (CASE skew' = "none" -> 2 [] skew' = "late" -> 1 [] OTHER -> 0)
          \in 0..(CASE skew = "none" -> 2 [] skew = "late" -> 1 [] OTHER -> 0)
    OBVIOUS
  <2> QED BY <1>1, <2>1, <2>2 DEF Channel!Fail, Channel!Failed, Channel!Nothing
<1>3. CASE answer'.status = "ok"
  <2>1. /\ AnswerOf' \in {0} \cup 1..Len(replies)
        /\ (\E q \in 1..Len(replies) : Holds(q)') => AnswerOf' \in 1..Len(replies)
        /\ \A q \in 1..Len(replies) : q = Len(replies) /\ Holds(q)' => AnswerOf' = q
    <3>1. (Len(replies) \in Nat /\ answer.status = "ok" =>
             /\ AnswerOf \in {0} \cup 1..Len(replies)
             /\ (\E q \in 1..Len(replies) : Holds(q)) => AnswerOf \in 1..Len(replies)
             /\ \A q \in 1..Len(replies) : q = Len(replies) /\ Holds(q) => AnswerOf = q)'
      BY AnswerFound, PTL
    <3> QED BY <1>1, <1>3, <3>1
  <2>2. CASE skew = "none"
    BY <1>1, <1>3, <2>1, <2>2
       DEF Channel!Deliver, Channel!Deliverable, Channel!Own, Channel!Earlier
  <2>3. CASE skew = "late"
    BY <1>1, <1>3, <2>1, <2>3
       DEF Channel!Deliver, Channel!Deliverable, Channel!Own, Channel!Earlier
  <2>4. CASE skew \notin {"none", "late"}
    BY <1>1, <1>3, <2>1, <2>4
       DEF Channel!Deliver, Channel!Deliverable, Channel!Own, Channel!Earlier, Channel!Unknown
  <2> QED BY <2>2, <2>3, <2>4
<1> QED BY <1>2, <1>3

LEMMA ReadMaps ==
  ASSUME DeliveryInv, ReadFrame \/ ReadGarbage
  PROVE  Channel!Deliver \/ Channel!Fail \/ UNCHANGED Channel!vars
<1>1. TypeInv
  BY DEF DeliveryInv
<1>2. CASE ReadGarbage
  <2>1. PICK length \in 0..(DescLen + MaxTotal) : Finish([i \in 1..length |-> Garbage])
    BY <1>2 DEF ReadGarbage
  <2> DEFINE m == [i \in 1..length |-> Garbage]
  <2>2. UNCHANGED <<replies, skew, call>> /\ skew = "lost" /\ pc = "read"
    BY <1>2 DEF ReadGarbage, scopeVars
  <2>3. m \in Seq(Cell) /\ Len(m) = length
    <3>1. Garbage \in Cell /\ length \in Nat
      BY ConstantTypes DEF Garbage, Cell
    <3> QED BY <3>1
  <2>4. \A i \in 1..Len(m) : m[i].query \in 0..Len(replies)
    <3>1. Len(replies) \in Nat
      BY <1>1, LenProperties DEF TypeInv, TypeOK
    <3> QED BY <2>3, <3>1 DEF Garbage
  <2> HIDE DEF m
  <2>5. pc' = "idle" /\ answer'.status \in {"ok", "error"}
    BY <1>1, <2>1, <2>2, <2>3, <2>4, FinishEnds DEF m
  <2> QED BY <2>2, <2>5, EndMaps
<1>3. CASE ReadFrame
  <2> DEFINE f == Head(stream)
             m == Joined(f)
  <2>1. UNCHANGED <<replies, skew, call>> /\ stream # << >> /\ pc = "read"
    BY <1>3 DEF ReadFrame, scopeVars
  <2>2. /\ f \in Frame /\ Sendable(f) /\ m \in Seq(Cell)
        /\ \A i \in 1..Len(m) : m[i].query \in 1..Len(replies)
    BY <1>1, <2>1, JoinedTypes
  <2>3. /\ skew \in {"none", "late"} =>
             \A i \in 1..Len(m) : m[i] = [query |-> f.query, pos |-> i]
        /\ skew \in {"none", "late"} => Len(m) = f.last
        /\ skew = "none" => f.query = Len(replies)
    BY <1>3, FrameRead
  <2>4. \/ f.eoi /\ Finish(m)
        \/ UNCHANGED <<pc, answer>>
    BY <1>3 DEF ReadFrame
  <2>5. CASE UNCHANGED <<pc, answer>>
    <3>1. AnswerOf' = AnswerOf
      BY <2>1, <2>5 DEF AnswerOf, Holds, Payload
    <3> QED BY <2>1, <2>5, <3>1 DEF Channel!vars
  <2> HIDE DEF f, m
  <2>6. CASE f.eoi /\ Finish(m)
    <3>1. \A i \in 1..Len(m) : m[i].query \in 0..Len(replies)
      BY <2>2
    <3>2. pc' = "idle" /\ answer'.status \in {"ok", "error"}
      BY <1>1, <2>1, <2>2, <2>6, <3>1, FinishEnds
    <3>3. ASSUME answer'.status = "ok", skew \in {"none", "late"}
          PROVE  \E q \in 1..Len(replies) : q = f.query /\ Holds(q)'
      <4>1. PICK q \in 1..Len(replies) : q = f.query
        BY <2>2 DEF Sendable
      <4>2. Len(m) = Length(replies[q]) /\ \A i \in 1..Len(m) : m[i] = [query |-> q, pos |-> i]
        BY <2>2, <2>3, <2>6, <3>3, <4>1 DEF Sendable
      <4>3. Holds(q)'
        BY <1>1, <2>1, <2>2, <2>6, <3>3, <4>2, WholeReply
      <4> QED BY <4>1, <4>3
    <3>5. answer'.status = "ok" /\ skew = "none" =>
            \E q \in 1..Len(replies) : q = Len(replies) /\ Holds(q)'
      BY <2>3, <3>3
    <3>6. answer'.status = "ok" /\ skew = "late" => \E q \in 1..Len(replies) : Holds(q)'
      BY <3>3
    <3> QED BY <2>1, <3>2, <3>5, <3>6, EndMaps
  <2> QED BY <2>4, <2>5, <2>6
<1> QED BY <1>2, <1>3

LEMMA StepMaps == DeliveryInv /\ [Next]_vars => [Channel!Next]_(Channel!vars)
<1> SUFFICES ASSUME DeliveryInv, [Next]_vars PROVE [Channel!Next]_(Channel!vars)
  OBVIOUS
<1>1. CASE UNCHANGED vars \/ SendFrame
  <2>1. UNCHANGED <<replies, pc, skew, answer, call>>
    BY <1>1 DEF vars, scopeVars, SendFrame
  <2>2. AnswerOf' = AnswerOf
    BY <2>1 DEF AnswerOf, Holds, Payload
  <2> QED BY <2>1, <2>2 DEF Channel!vars
<1> QED BY <1>1, AskMaps, ReconnectMaps, GiveUpMaps, ReadMaps DEF Next, Read, Channel!Next

(***************************************************************************)
(* The transport and the calls on it implement ReplyDelivery, the safety   *)
(* half of DeliversReplies: a call is answered once, with its own whole    *)
(* reply as long as none has failed; after reads that gave up before a     *)
(* reply began with one whole reply to one of the queries; never with a    *)
(* part, a mixture, or samples out of a text.                              *)
(***************************************************************************)
THEOREM ImplementsReplyDelivery == Spec => Channel!Init /\ [][Channel!Next]_(Channel!vars)
<1>1. Init => DeliveryInv
  BY InitDelivers
<1>2. DeliveryInv /\ [Next]_vars => DeliveryInv'
  BY DeliveryInductive
<1>3. Init => Channel!Init
  BY InitMaps
<1>4. DeliveryInv /\ [Next]_vars => [Channel!Next]_(Channel!vars)
  BY StepMaps
<1> QED BY <1>1, <1>2, <1>3, <1>4, PTL DEF Spec
=============================================================================
