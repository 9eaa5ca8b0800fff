------------------------- MODULE RigolTransportProof -------------------------
(***************************************************************************)
(* For any number of queries and any data of blocks, also data that look   *)
(* like a header: the answer to a block or text query is what the scope    *)
(* sent for it, as far as OwnBlock, OwnText, OneText and WholeBlock say.   *)
(* The argument is about the cells the driver holds followed by those it   *)
(* has not received, the wire: it is a run of whole replies, except that   *)
(* the first may have lost its beginning.                                  *)
(***************************************************************************)
EXTENDS RigolTransport, SequenceTheorems, WellFoundedInduction, TLAPS

(***************************************************************************)
(* The wire, for the replies reps the scope has so far                     *)
(***************************************************************************)
Size(reps, q) == Len(Characters(reps[q]))
CellAt(reps, q, p) == [query |-> q, pos |-> p, char |-> Characters(reps[q])[p]]

Genuine(reps, s) ==
  \A i \in 1..Len(s) : /\ s[i].query \in 1..Len(reps)
                       /\ s[i].pos \in 1..Size(reps, s[i].query)
                       /\ s[i] = CellAt(reps, s[i].query, s[i].pos)

(* From any cell on, the rest of its reply follows ... *)
Onward(reps, s) ==
  \A i \in 1..Len(s) : \A k \in 0..(Size(reps, s[i].query) - s[i].pos) :
    i + k <= Len(s) /\ s[i + k] = CellAt(reps, s[i].query, s[i].pos + k)

(* ... and as far as there are cells before it, they are its reply's. *)
Backward(reps, s) ==
  \A i \in 1..Len(s) : \A k \in 0..(s[i].pos - 1) :
    i - k >= 1 => s[i - k] = CellAt(reps, s[i].query, s[i].pos - k)

Ordered(s) ==
  \A i, j \in 1..Len(s) :
    i < j => \/ s[i].query < s[j].query
             \/ s[i].query = s[j].query /\ s[j].pos = s[i].pos + (j - i)

Sound(reps, s) == Genuine(reps, s) /\ Onward(reps, s) /\ Backward(reps, s) /\ Ordered(s)

IsText(reps, q) == reps[q].kind # "block"

OnlyTexts(reps, s) == \A i \in 1..Len(s) : IsText(reps, s[i].query)

(* Texts, and after them the last reply from its beginning *)
TextsBeforeLast(reps, s) ==
  \A i \in 1..Len(s) : IsText(reps, s[i].query) \/ (s[i].query = Len(reps) /\ i >= s[i].pos)

Wire == (IF pc = "block" THEN msg ELSE cooked) \o stream

SoundWire == Sound(replies, Wire)

(* A block read has dropped what Telnet held. *)
Buffers == pc = "block" => cooked = << >>

(* A call in progress: the reply to its query is the last one. *)
InCall ==
  pc # "idle" => /\ Len(replies) >= 1 /\ replies[Len(replies)] \in RepliesTo(call)
                 /\ pc = "block" <=> call = "block"
                 /\ answer.status = "none"

(* As long as no block read has given up no block is on the wire, except    *)
(* the one being read, and that from its beginning.                         *)
Quiet ==
  ~torn => IF pc = "block" THEN TextsBeforeLast(replies, Wire) ELSE OnlyTexts(replies, Wire)

(* If no text read has timed out either, nothing is there that was not asked for. *)
Fresh ==
  ~torn /\ ~late => /\ pc = "idle" => Wire = << >>
                    /\ pc = "text" => Wire = Cells(Len(replies), replies[Len(replies)])

WireInv == TypeOK /\ SoundWire /\ Buffers /\ InCall /\ Quiet /\ Fresh
----------------------------------------------------------------------------
(* The characters and cells of a reply *)

LEMMA ReplyTypes ==
  ASSUME NEW r \in Reply
  PROVE  /\ Characters(r) \in Seq(Chars) /\ Len(Characters(r)) \in Nat
         /\ r.kind \in {"word", "number", "none", "block"} /\ r.data \in Seq(Chars)
         /\ r.kind # "block" => r.data = << >>
         /\ r.kind = "none" => Len(Characters(r)) = 0
         /\ r.kind \in {"word", "number"} =>
              /\ Len(Characters(r)) = 3
              /\ Characters(r)[1] = "other" /\ Characters(r)[2] = "other"
              /\ Characters(r)[3] = "newline"
         /\ r.kind = "block" =>
              /\ Len(Characters(r)) = Len(r.data) + 3
              /\ Characters(r)[1] = "hash" /\ Characters(r)[2] = "length"
              /\ \A k \in 1..Len(r.data) : Characters(r)[k + 2] = r.data[k]
              /\ Characters(r)[Len(r.data) + 3] = "newline"
<1>1. \/ r.kind \in {"word", "number", "none"} /\ r.data = << >>
      \/ r.kind = "block" /\ r.data \in Payloads
  BY DEF Reply
<1>2. r.data \in Seq(Chars)
  <2>1. << >> \in Seq(Chars)
    OBVIOUS
  <2> QED BY <1>1, <2>1, PayloadAssumption
<1>3. CASE r.kind = "none"
  BY <1>1, <1>2, <1>3 DEF Characters
<1>4. CASE r.kind \in {"word", "number"}
  <2>1. Characters(r) = <<"other", "other", "newline">>
    BY <1>4 DEF Characters
  <2> QED BY <1>1, <1>2, <1>4, <2>1 DEF Chars
<1>5. CASE r.kind = "block"
  <2> DEFINE head == <<"hash", "length">>
             d == r.data
             tail == <<"newline">>
  <2>1. Characters(r) = (head \o d) \o tail
    BY <1>5 DEF Characters
  <2>2. /\ head \in Seq(Chars) /\ Len(head) = 2 /\ head[1] = "hash" /\ head[2] = "length"
        /\ tail \in Seq(Chars) /\ Len(tail) = 1 /\ tail[1] = "newline"
    BY DEF Chars
  <2>3. d \in Seq(Chars) /\ Len(d) \in Nat
    BY <1>2, LenProperties
  <2> HIDE DEF head, d, tail
  <2>4. /\ head \o d \in Seq(Chars) /\ Len(head \o d) = Len(head) + Len(d)
        /\ \A i \in 1..(Len(head) + Len(d)) :
             (head \o d)[i] = IF i <= Len(head) THEN head[i] ELSE d[i - Len(head)]
    BY <2>2, <2>3, ConcatProperties
  <2>5. PICK front \in Seq(Chars) :
          /\ front = head \o d /\ Len(front) = 2 + Len(d)
          /\ \A i \in 1..(2 + Len(d)) : front[i] = IF i <= 2 THEN head[i] ELSE d[i - 2]
    BY <2>2, <2>4
  <2>6. /\ front \o tail \in Seq(Chars) /\ Len(front \o tail) = Len(front) + Len(tail)
        /\ \A i \in 1..(Len(front) + Len(tail)) :
             (front \o tail)[i] = IF i <= Len(front) THEN front[i] ELSE tail[i - Len(front)]
    BY <2>2, ConcatProperties
  <2>7. /\ Characters(r) \in Seq(Chars) /\ Len(Characters(r)) = Len(d) + 3
        /\ \A i \in 1..(Len(d) + 3) :
             Characters(r)[i] = IF i <= 2 + Len(d) THEN front[i] ELSE tail[i - (2 + Len(d))]
    BY <2>1, <2>2, <2>3, <2>5, <2>6
  <2>8. Characters(r)[1] = "hash" /\ Characters(r)[2] = "length"
    BY <2>2, <2>3, <2>5, <2>7
  <2>9. Characters(r)[Len(d) + 3] = "newline"
    <3>1. Len(d) + 3 \in 1..(Len(d) + 3) /\ ~(Len(d) + 3 <= 2 + Len(d)) /\ Len(d) + 3 - (2 + Len(d)) = 1
      BY <2>3
    <3> QED BY <2>2, <2>7, <3>1
  <2>10. ASSUME NEW k \in 1..Len(d) PROVE Characters(r)[k + 2] = d[k]
    <3>1. /\ k + 2 \in 1..(Len(d) + 3) /\ k + 2 <= 2 + Len(d) /\ k + 2 \in 1..(2 + Len(d))
          /\ ~(k + 2 <= 2) /\ k + 2 - 2 = k
      BY <2>3
    <3> QED BY <2>5, <2>7, <3>1
  <2> QED BY <1>5, <2>3, <2>7, <2>8, <2>9, <2>10 DEF d
<1> QED BY <1>1, <1>3, <1>4, <1>5

LEMMA ReplyCells ==
  ASSUME NEW q \in 1..MaxQueries, NEW r \in Reply
  PROVE  /\ Cells(q, r) \in Seq(Cell) /\ Len(Cells(q, r)) = Len(Characters(r))
         /\ \A p \in 1..Len(Characters(r)) :
              Cells(q, r)[p] = [query |-> q, pos |-> p, char |-> Characters(r)[p]]
<1>1. Characters(r) \in Seq(Chars) /\ Len(Characters(r)) \in Nat
  BY ReplyTypes
<1>2. \A p \in 1..Len(Characters(r)) : Characters(r)[p] \in Chars /\ p \in Nat \ {0}
  BY <1>1, ElementOfSeq
<1>3. Cells(q, r) \in [1..Len(Characters(r)) -> Cell]
  BY <1>2 DEF Cells, Cell
<1>4. Cells(q, r) \in Seq(Cell)
  BY <1>1, <1>3, SeqDef
<1> QED BY <1>1, <1>3, <1>4, LenProperties DEF Cells

(* Where something is for the first time *)
LEMMA LeastNumber ==
  ASSUME NEW I \in SUBSET Nat, I # {}
  PROVE  FirstOf(I) \in I /\ \A j \in I : FirstOf(I) <= j
<1>1. PICK R : IsWellFoundedOn(R, Nat) /\ \A i, j \in Nat : i < j => <<i, j>> \in R
  <2>1. \A i, j \in Nat : i < j => <<i, j>> \in OpToRel(<, Nat)
    BY DEF OpToRel
  <2> QED BY <2>1, NatLessThanWellFounded
<1>2. I \subseteq Nat
  OBVIOUS
<1>3. \E i \in I : \A j \in I : ~(<<j, i>> \in R)
  <2>1. IsWellFoundedOn(R, Nat)
    BY <1>1
  <2> QED BY ONLY <1>2, I # {}, <2>1, WFMin
<1>4. PICK i \in I : \A j \in I : ~(<<j, i>> \in R)
  BY ONLY <1>3
<1>5. \A j \in I : ~(j < i)
  BY ONLY <1>1, <1>2, <1>4, Zenon
<1>6. \A j \in I : i <= j
  BY ONLY <1>2, <1>5
<1> QED BY ONLY <1>6 DEF FirstOf

LEMMA FirstAt ==
  ASSUME NEW s \in Seq(Cell), NEW char, At(s, char) # {}
  PROVE  LET e == FirstOf(At(s, char))
         IN  /\ e \in 1..Len(s) /\ s[e].char = char
             /\ \A i \in 1..Len(s) : s[i].char = char => e <= i
<1>1. At(s, char) \in SUBSET Nat
  BY DEF At
<1>2. FirstOf(At(s, char)) \in At(s, char) /\ \A j \in At(s, char) : FirstOf(At(s, char)) <= j
  BY <1>1, LeastNumber
<1> QED BY <1>2 DEF At

----------------------------------------------------------------------------
(* What is left of a sound wire when its first cells are gone is sound. *)

(* Places in a sequence that has lost its first n elements *)
LEMMA ShiftedOn ==
  ASSUME NEW a \in Nat, NEW b \in Nat, NEW n \in Nat, a = b + n,
         NEW i \in 1..b, NEW k \in Nat, i + n + k <= a
  PROVE  i + k \in 1..b /\ i + k + n = i + n + k
OBVIOUS

LEMMA ShiftedBack ==
  ASSUME NEW b \in Nat, NEW n \in Nat, NEW i \in 1..b, NEW k \in Nat, i - k >= 1
  PROVE  i - k \in 1..b /\ i - k + n = i + n - k /\ i + n - k >= 1
OBVIOUS

LEMMA Predecessor == \A m \in Nat : \A e \in 1..m : \E n \in 0..m : n = e - 1 /\ n + 1 = e
OBVIOUS

LEMMA DropSound ==
  ASSUME NEW reps \in Seq(Reply), NEW s \in Seq(Cell), NEW t \in Seq(Cell), NEW n \in Nat,
         Sound(reps, s), Len(s) = Len(t) + n, \A i \in 1..Len(t) : t[i] = s[i + n]
  PROVE  Sound(reps, t)
<1>1. Len(s) \in Nat /\ Len(t) \in Nat /\ \A i \in 1..Len(t) : i + n \in 1..Len(s)
  BY LenProperties
<1>2. Genuine(reps, t)
  BY <1>1 DEF Sound, Genuine
<1>3. \A i \in 1..Len(t) : t[i].pos \in Nat /\ Size(reps, t[i].query) \in Nat
  BY <1>2, ElementOfSeq, ReplyTypes DEF Genuine, Size
<1>4. Onward(reps, t)
  <2> SUFFICES ASSUME NEW i \in 1..Len(t), NEW k \in 0..(Size(reps, t[i].query) - t[i].pos)
               PROVE  i + k <= Len(t) /\ t[i + k] = CellAt(reps, t[i].query, t[i].pos + k)
    BY DEF Onward
  <2>1. i + n + k <= Len(s) /\ s[i + n + k] = CellAt(reps, t[i].query, t[i].pos + k)
    BY <1>1 DEF Sound, Onward
  <2>2. k \in Nat
    BY <1>3
  <2>3. i + k \in 1..Len(t) /\ i + k + n = i + n + k
    <3>1. /\ Len(s) \in Nat /\ Len(t) \in Nat /\ Len(s) = Len(t) + n /\ i \in 1..Len(t)
          /\ i + n + k <= Len(s)
      BY <1>1, <2>1
    <3> QED BY <2>2, <3>1, ShiftedOn
  <2> QED BY <2>1, <2>3
<1>5. Backward(reps, t)
  <2> SUFFICES ASSUME NEW i \in 1..Len(t), NEW k \in 0..(t[i].pos - 1), i - k >= 1
               PROVE  t[i - k] = CellAt(reps, t[i].query, t[i].pos - k)
    BY DEF Backward
  <2>1. k \in Nat
    BY <1>3
  <2>2. i - k \in 1..Len(t) /\ i - k + n = i + n - k /\ i + n - k >= 1
    BY <1>1, <2>1, ShiftedBack
  <2>3. s[i + n - k] = CellAt(reps, t[i].query, t[i].pos - k)
    <3>1. i + n \in 1..Len(s) /\ s[i + n] = t[i]
      BY <1>1
    <3>2. Backward(reps, s)
      BY DEF Sound
    <3> QED BY <2>2, <3>1, <3>2 DEF Backward
  <2> QED BY <2>2, <2>3
<1>6. Ordered(t)
  <2> SUFFICES ASSUME NEW i \in 1..Len(t), NEW j \in 1..Len(t), i < j
               PROVE  \/ t[i].query < t[j].query
                      \/ t[i].query = t[j].query /\ t[j].pos = t[i].pos + (j - i)
    BY DEF Ordered
  <2>1. PICK m \in 1..Len(s) : m = i + n /\ t[i] = s[m]
    BY <1>1
  <2>2. PICK l \in 1..Len(s) : l = j + n /\ t[j] = s[l]
    BY <1>1
  <2>3. m < l /\ l - m = j - i
    BY <1>1, <2>1, <2>2
  <2>4. s[m].query < s[l].query \/ (s[m].query = s[l].query /\ s[l].pos = s[m].pos + (l - m))
    BY <2>3 DEF Sound, Ordered
  <2> QED BY <2>1, <2>2, <2>3, <2>4
<1> QED BY <1>2, <1>4, <1>5, <1>6 DEF Sound

(* The wire when the held cells a lose their first n *)
LEMMA DropHeld ==
  ASSUME NEW reps \in Seq(Reply), NEW a \in Seq(Cell), NEW b \in Seq(Cell),
         Sound(reps, a \o b), NEW n \in 0..Len(a)
  PROVE  LET left == SubSeq(a, n + 1, Len(a)) \o b
         IN  /\ left \in Seq(Cell) /\ Sound(reps, left)
             /\ Len(left) = Len(a \o b) - n
             /\ \A i \in 1..Len(left) : left[i] = (a \o b)[i + n]
             /\ OnlyTexts(reps, a \o b) => OnlyTexts(reps, left)
<1> DEFINE c == SubSeq(a, n + 1, Len(a))
           left == c \o b
           s == a \o b
<1>1. Len(a) \in Nat /\ Len(b) \in Nat
  BY LenProperties
<1>2. c \in Seq(Cell) /\ Len(c) = Len(a) - n /\ \A i \in 1..Len(c) : c[i] = a[i + n]
  <2>1. \A i \in (n + 1)..Len(a) : a[i] \in Cell
    BY <1>1, ElementOfSeq
  <2>2. n + 1 \in Int /\ Len(a) \in Int
    BY <1>1
  <2>3. /\ c \in Seq(Cell)
        /\ Len(c) = IF n + 1 <= Len(a) THEN Len(a) - (n + 1) + 1 ELSE 0
        /\ \A i \in 1..(Len(a) - (n + 1) + 1) : c[i] = a[n + 1 + i - 1]
    BY <2>1, <2>2, SubSeqProperties
  <2>4. Len(c) = Len(a) - n
    BY <1>1, <2>3
  <2>5. ASSUME NEW i \in 1..Len(c) PROVE c[i] = a[i + n]
    <3>1. i \in 1..(Len(a) - (n + 1) + 1) /\ n + 1 + i - 1 = i + n
      BY <1>1, <2>4
    <3> QED BY <2>3, <3>1
  <2> QED BY <2>3, <2>4, <2>5
<1> HIDE DEF c
<1>3. /\ s \in Seq(Cell) /\ Len(s) = Len(a) + Len(b)
      /\ \A i \in 1..(Len(a) + Len(b)) : s[i] = IF i <= Len(a) THEN a[i] ELSE b[i - Len(a)]
  BY ConcatProperties
<1>4. /\ left \in Seq(Cell) /\ Len(left) = Len(c) + Len(b)
      /\ \A i \in 1..(Len(c) + Len(b)) : left[i] = IF i <= Len(c) THEN c[i] ELSE b[i - Len(c)]
  BY <1>2, ConcatProperties
<1> HIDE DEF s, left
<1>5. Len(left) = Len(s) - n /\ Len(s) = Len(left) + n
  BY <1>1, <1>2, <1>3, <1>4
<1>6. ASSUME NEW i \in 1..Len(left) PROVE left[i] = s[i + n] /\ i + n \in 1..Len(s)
  <2>1. i \in 1..(Len(c) + Len(b)) /\ i + n \in 1..(Len(a) + Len(b)) /\ i \in Nat /\ n \in Nat
    BY <1>1, <1>2, <1>4
  <2>2. CASE i <= Len(c)
    <3>1. i \in 1..Len(c) /\ i + n <= Len(a)
      BY <1>1, <1>2, <2>1, <2>2
    <3> QED BY <1>2, <1>3, <1>4, <2>1, <2>2, <3>1
  <2>3. CASE ~(i <= Len(c))
    <3>1. ~(i + n <= Len(a)) /\ i - Len(c) = i + n - Len(a)
      BY <1>1, <1>2, <2>1, <2>3
    <3> QED BY <1>3, <1>4, <2>1, <2>3, <3>1
  <2> QED BY <2>2, <2>3
<1>7. Sound(reps, left)
  <2>1. Sound(reps, s) /\ n \in Nat
    BY <1>1 DEF s
  <2> QED BY <1>3, <1>4, <1>5, <1>6, <2>1, DropSound
<1>8. OnlyTexts(reps, s) => OnlyTexts(reps, left)
  BY <1>6 DEF OnlyTexts
<1> QED BY <1>4, <1>5, <1>6, <1>7, <1>8 DEF s, left, c

(* The wire when the scope answers another query *)
LEMMA AppendSound ==
  ASSUME NEW reps \in Seq(Reply), NEW s \in Seq(Cell), NEW r \in Reply,
         Sound(reps, s), Len(reps) < MaxQueries
  PROVE  LET more == Append(reps, r)
             longer == s \o Cells(Len(reps) + 1, r)
         IN  /\ longer \in Seq(Cell) /\ Sound(more, longer)
             /\ OnlyTexts(reps, s) /\ r.kind # "block" => OnlyTexts(more, longer)
             /\ OnlyTexts(reps, s) => TextsBeforeLast(more, longer)
<1> DEFINE new == Len(reps) + 1
           more == Append(reps, r)
           t == Cells(new, r)
           longer == s \o t
<1>1. /\ Len(reps) \in Nat /\ Len(s) \in Nat /\ new \in 1..MaxQueries
      /\ more \in Seq(Reply) /\ Len(more) = new /\ more[new] = r
      /\ \A q \in 1..Len(reps) : more[q] = reps[q] /\ q < new
  BY BoundAssumption, LenProperties, AppendProperties
<1> HIDE DEF more, new
<1>2. /\ t \in Seq(Cell) /\ Len(t) = Size(more, new) /\ Len(t) \in Nat
      /\ \A p \in 1..Len(t) : t[p] = CellAt(more, new, p)
  BY <1>1, ReplyCells, ReplyTypes DEF Size, CellAt
<1> HIDE DEF t
<1>3. /\ longer \in Seq(Cell) /\ Len(longer) = Len(s) + Len(t)
      /\ \A i \in 1..(Len(s) + Len(t)) : longer[i] = IF i <= Len(s) THEN s[i] ELSE t[i - Len(s)]
  BY <1>2, ConcatProperties
<1> HIDE DEF longer
<1>4. /\ \A q \in 1..Len(reps) : Size(more, q) = Size(reps, q)
      /\ \A q \in 1..Len(reps) : \A p : CellAt(more, q, p) = CellAt(reps, q, p)
      /\ \A q \in 1..Len(reps) : IsText(more, q) <=> IsText(reps, q)
  BY <1>1 DEF Size, CellAt, IsText
<1>5. \A i \in 1..Len(s) : /\ longer[i] = s[i] /\ s[i].query \in 1..Len(reps)
                           /\ s[i].pos \in 1..Size(reps, s[i].query) /\ s[i].pos \in Nat
                           /\ s[i] = CellAt(reps, s[i].query, s[i].pos)
                           /\ Size(reps, s[i].query) \in Nat
  <2> SUFFICES ASSUME NEW i \in 1..Len(s)
               PROVE  /\ longer[i] = s[i] /\ s[i].query \in 1..Len(reps)
                      /\ s[i].pos \in 1..Size(reps, s[i].query) /\ s[i].pos \in Nat
                      /\ s[i] = CellAt(reps, s[i].query, s[i].pos)
                      /\ Size(reps, s[i].query) \in Nat
    OBVIOUS
  <2>1. longer[i] = s[i]
    <3>1. i \in 1..(Len(s) + Len(t)) /\ i <= Len(s)
      BY <1>1, <1>2
    <3> QED BY <1>3, <3>1
  <2>2. /\ s[i].query \in 1..Len(reps) /\ s[i].pos \in 1..Size(reps, s[i].query)
        /\ s[i] = CellAt(reps, s[i].query, s[i].pos)
    BY DEF Sound, Genuine
  <2>3. reps[s[i].query] \in Reply
    BY <2>2, ElementOfSeq
  <2>4. Size(reps, s[i].query) \in Nat
    BY <2>3, ReplyTypes DEF Size
  <2> QED BY <2>1, <2>2, <2>4
<1>6. \A p \in 1..Len(t) : /\ Len(s) + p \in 1..Len(longer) /\ longer[Len(s) + p] = CellAt(more, new, p)
                           /\ longer[Len(s) + p].query = new /\ longer[Len(s) + p].pos = p
  <2> SUFFICES ASSUME NEW p \in 1..Len(t)
               PROVE  Len(s) + p \in 1..Len(longer) /\ longer[Len(s) + p] = CellAt(more, new, p)
    BY DEF CellAt
  <2>1. Len(s) + p \in 1..(Len(s) + Len(t)) /\ ~(Len(s) + p <= Len(s)) /\ Len(s) + p - Len(s) = p
    BY <1>1, <1>2
  <2> QED BY <1>2, <1>3, <2>1
<1>7. \A i \in 1..Len(longer) : i \in 1..Len(s) \/ \E p \in 1..Len(t) : i = Len(s) + p
  <2> SUFFICES ASSUME NEW i \in 1..Len(longer), i \notin 1..Len(s)
               PROVE  \E p \in 1..Len(t) : i = Len(s) + p
    OBVIOUS
  <2>1. i - Len(s) \in 1..Len(t) /\ i = Len(s) + (i - Len(s))
    BY <1>1, <1>2, <1>3
  <2> QED BY <2>1
<1>8. Genuine(more, longer)
  <2> SUFFICES ASSUME NEW i \in 1..Len(longer)
               PROVE  /\ longer[i].query \in 1..Len(more)
                      /\ longer[i].pos \in 1..Size(more, longer[i].query)
                      /\ longer[i] = CellAt(more, longer[i].query, longer[i].pos)
    BY DEF Genuine
  <2>1. CASE i \in 1..Len(s)
    BY <1>1, <1>4, <1>5, <2>1
  <2>2. ASSUME NEW p \in 1..Len(t), i = Len(s) + p PROVE /\ longer[i].query = new /\ longer[i].pos = p
                                                    /\ longer[i] = CellAt(more, new, p)
    BY <1>6, <2>2
  <2>3. CASE \E p \in 1..Len(t) : i = Len(s) + p
    BY <1>1, <1>2, <2>2, <2>3
  <2> QED BY <1>7, <2>1, <2>3
<1>9. Onward(more, longer)
  <2> SUFFICES ASSUME NEW i \in 1..Len(longer),
                      NEW k \in 0..(Size(more, longer[i].query) - longer[i].pos)
               PROVE  /\ i + k <= Len(longer)
                      /\ longer[i + k] = CellAt(more, longer[i].query, longer[i].pos + k)
    BY DEF Onward
  <2>1. CASE i \in 1..Len(s)
    <3>1. k \in 0..(Size(reps, s[i].query) - s[i].pos)
      BY <1>4, <1>5, <2>1
    <3>2. i + k <= Len(s) /\ s[i + k] = CellAt(reps, s[i].query, s[i].pos + k)
      BY <2>1, <3>1 DEF Sound, Onward
    <3>3. k \in Nat
      BY <1>5, <2>1, <3>1
    <3>4. i + k \in 1..Len(s)
      BY <1>1, <2>1, <3>2, <3>3
    <3>5. i + k <= Len(longer)
      BY <1>1, <1>2, <1>3, <3>2, <3>3
    <3>6. longer[i + k] = s[i + k] /\ longer[i] = s[i] /\ s[i].query \in 1..Len(reps)
      BY <1>5, <2>1, <3>4, Zenon
    <3>7. CellAt(reps, s[i].query, s[i].pos + k) = CellAt(more, s[i].query, s[i].pos + k)
      BY <1>4, <3>6, Zenon
    <3> QED BY <3>2, <3>5, <3>6, <3>7
  <2>2. CASE \E p \in 1..Len(t) : i = Len(s) + p
    <3>1. PICK p \in 1..Len(t) : i = Len(s) + p
      BY <2>2
    <3>2. longer[i].query = new /\ longer[i].pos = p
      BY <1>6, <3>1
    <3>3. k \in 0..(Len(t) - p)
      BY <1>2, <3>2
    <3>4. p + k \in 1..Len(t) /\ i + k = Len(s) + (p + k)
      BY <1>1, <1>2, <3>1, <3>3
    <3> QED BY <1>1, <1>2, <1>3, <1>6, <3>2, <3>4
  <2> QED BY <1>7, <2>1, <2>2
<1>10. Backward(more, longer)
  <2> SUFFICES ASSUME NEW i \in 1..Len(longer), NEW k \in 0..(longer[i].pos - 1), i - k >= 1
               PROVE  longer[i - k] = CellAt(more, longer[i].query, longer[i].pos - k)
    BY DEF Backward
  <2>1. CASE i \in 1..Len(s)
    <3>1. k \in 0..(s[i].pos - 1)
      BY <1>5, <2>1
    <3>2. s[i - k] = CellAt(reps, s[i].query, s[i].pos - k)
      BY <2>1, <3>1 DEF Sound, Backward
    <3>3. i - k \in 1..Len(s)
      BY <1>1, <1>5, <2>1, <3>1
    <3> QED BY <1>4, <1>5, <2>1, <3>2, <3>3
  <2>2. CASE \E p \in 1..Len(t) : i = Len(s) + p
    <3>1. PICK p \in 1..Len(t) : i = Len(s) + p
      BY <2>2
    <3>2. longer[i].query = new /\ longer[i].pos = p
      BY <1>6, <3>1
    <3>3. p - k \in 1..Len(t) /\ i - k = Len(s) + (p - k)
      BY <1>1, <1>2, <3>1, <3>2
    <3> QED BY <1>6, <3>2, <3>3
  <2> QED BY <1>7, <2>1, <2>2
<1>11. Ordered(longer)
  <2> SUFFICES ASSUME NEW i \in 1..Len(longer), NEW j \in 1..Len(longer), i < j
               PROVE  \/ longer[i].query < longer[j].query
                      \/ /\ longer[i].query = longer[j].query
                         /\ longer[j].pos = longer[i].pos + (j - i)
    BY DEF Ordered
  <2>1. CASE j \in 1..Len(s)
    <3>1. i \in 1..Len(s)
      BY <1>1, <2>1
    <3>2. \/ s[i].query < s[j].query
          \/ s[i].query = s[j].query /\ s[j].pos = s[i].pos + (j - i)
      BY <2>1, <3>1 DEF Sound, Ordered
    <3> QED BY <1>5, <2>1, <3>1, <3>2
  <2>2. CASE \E p \in 1..Len(t) : j = Len(s) + p
    <3>1. PICK p \in 1..Len(t) : j = Len(s) + p
      BY <2>2
    <3>2. longer[j].query = new /\ longer[j].pos = p
      BY <1>6, <3>1
    <3>3. CASE i \in 1..Len(s)
      BY <1>1, <1>5, <3>2, <3>3
    <3>4. CASE \E m \in 1..Len(t) : i = Len(s) + m
      <4>1. PICK m \in 1..Len(t) : i = Len(s) + m
        BY <3>4
      <4>2. longer[i].query = new /\ longer[i].pos = m
        BY <1>6, <4>1
      <4>3. p = m + (j - i)
        BY <1>1, <1>2, <3>1, <4>1
      <4> QED BY <3>2, <4>2, <4>3
    <3> QED BY <1>7, <3>3, <3>4
  <2> QED BY <1>7, <2>1, <2>2
<1>12. OnlyTexts(reps, s) /\ r.kind # "block" => OnlyTexts(more, longer)
  <2> SUFFICES ASSUME OnlyTexts(reps, s), r.kind # "block", NEW i \in 1..Len(longer)
               PROVE  IsText(more, longer[i].query)
    BY DEF OnlyTexts
  <2>1. CASE i \in 1..Len(s)
    BY <1>4, <1>5, <2>1 DEF OnlyTexts
  <2>2. CASE \E p \in 1..Len(t) : i = Len(s) + p
    BY <1>1, <1>6, <2>2 DEF IsText
  <2> QED BY <1>7, <2>1, <2>2
<1>13. OnlyTexts(reps, s) => TextsBeforeLast(more, longer)
  <2> SUFFICES ASSUME OnlyTexts(reps, s), NEW i \in 1..Len(longer)
               PROVE  \/ IsText(more, longer[i].query)
                      \/ longer[i].query = Len(more) /\ i >= longer[i].pos
    BY DEF TextsBeforeLast
  <2>1. CASE i \in 1..Len(s)
    BY <1>4, <1>5, <2>1 DEF OnlyTexts
  <2>2. CASE \E p \in 1..Len(t) : i = Len(s) + p
    <3>1. PICK p \in 1..Len(t) : i = Len(s) + p
      BY <2>2
    <3> QED BY <1>1, <1>2, <1>6, <3>1
  <2> QED BY <1>7, <2>1, <2>2
<1> QED BY <1>3, <1>8, <1>9, <1>10, <1>11, <1>12, <1>13 DEF Sound, longer, t, more, new

----------------------------------------------------------------------------
(* What is known of a cell of a sound wire, and of the cells after it *)

LEMMA WireCell ==
  ASSUME NEW reps \in Seq(Reply), NEW s \in Seq(Cell), Sound(reps, s), NEW i \in 1..Len(s)
  PROVE  LET q == s[i].query
         IN  /\ Len(reps) \in Nat /\ q \in 1..Len(reps) /\ reps[q] \in Reply
             /\ Size(reps, q) \in Nat /\ s[i].pos \in 1..Size(reps, q)
             /\ s[i] = CellAt(reps, q, s[i].pos)
             /\ IsText(reps, q) => /\ Size(reps, q) = 3 /\ reps[q].kind \in {"word", "number"}
                                   /\ s[i].char = "newline" <=> s[i].pos = 3
                                   /\ s[i].char # "hash"
             /\ ~IsText(reps, q) =>
                  /\ Size(reps, q) = Len(reps[q].data) + 3
                  /\ s[i].char = "hash" =>
                       s[i].pos = 1 \/ \E k \in 1..Len(reps[q].data) : reps[q].data[k] = "hash"
<1> DEFINE q == s[i].query
           r == reps[q]
           p == s[i].pos
<1>1. /\ q \in 1..Len(reps) /\ p \in 1..Size(reps, q) /\ s[i] = CellAt(reps, q, p)
  BY DEF Sound, Genuine
<1>2. Len(reps) \in Nat /\ r \in Reply
  BY <1>1, ElementOfSeq, LenProperties
<1>3. s[i].char = Characters(r)[p]
  BY <1>1 DEF CellAt
<1>4. Size(reps, q) = Len(Characters(r)) /\ IsText(reps, q) = (r.kind # "block")
  BY DEF Size, IsText
<1> HIDE DEF q, r, p
<1>5. Size(reps, q) \in Nat
  BY <1>2, <1>4, ReplyTypes
<1>6. ASSUME r.kind # "block"
      PROVE  /\ Size(reps, q) = 3 /\ r.kind \in {"word", "number"}
             /\ s[i].char = "newline" <=> p = 3
             /\ s[i].char # "hash"
  <2>1. r.kind \in {"word", "number"}
    BY <1>1, <1>2, <1>4, <1>6, ReplyTypes
  <2>2. /\ Len(Characters(r)) = 3 /\ Characters(r)[1] = "other" /\ Characters(r)[2] = "other"
        /\ Characters(r)[3] = "newline"
    BY <1>2, <2>1, ReplyTypes
  <2>3. p = 1 \/ p = 2 \/ p = 3
    BY <1>1, <1>4, <2>2
  <2> QED BY <1>3, <1>4, <2>1, <2>2, <2>3
<1>7. ASSUME r.kind = "block"
      PROVE  /\ Size(reps, q) = Len(r.data) + 3
             /\ s[i].char = "hash" => p = 1 \/ \E k \in 1..Len(r.data) : r.data[k] = "hash"
  <2>1. /\ Len(Characters(r)) = Len(r.data) + 3 /\ Characters(r)[2] = "length"
        /\ \A k \in 1..Len(r.data) : Characters(r)[k + 2] = r.data[k]
        /\ Characters(r)[Len(r.data) + 3] = "newline" /\ Len(r.data) \in Nat
    BY <1>2, <1>7, ReplyTypes, LenProperties
  <2>2. p \in 1..(Len(r.data) + 3)
    BY <1>1, <1>4, <2>1
  <2>3. CASE p \in {1, 2, Len(r.data) + 3}
    BY <1>3, <1>4, <2>1, <2>3
  <2>4. CASE p \notin {1, 2, Len(r.data) + 3}
    <3>1. PICK k \in 1..Len(r.data) : p = k + 2
      <4>1. p - 2 \in 1..Len(r.data) /\ p = (p - 2) + 2
        BY <2>1, <2>2, <2>4
      <4> QED BY <4>1
    <3> QED BY <1>3, <1>4, <2>1, <3>1
  <2> QED BY <2>3, <2>4
<1> QED BY <1>1, <1>2, <1>4, <1>5, <1>6, <1>7 DEF q, r, p

LEMMA TextCell ==
  ASSUME NEW reps \in Seq(Reply), NEW s \in Seq(Cell), Sound(reps, s), NEW i \in 1..Len(s),
         IsText(reps, s[i].query)
  PROVE  /\ s[i].query \in 1..Len(reps) /\ Size(reps, s[i].query) = 3 /\ s[i].pos \in 1..3
         /\ reps[s[i].query].kind \in {"word", "number"}
BY WireCell

LEMMA SameReply ==
  ASSUME NEW reps \in Seq(Reply), NEW s \in Seq(Cell), Sound(reps, s),
         NEW i \in 1..Len(s), NEW j \in 1..Len(s), i <= j, s[i].query = s[j].query
  PROVE  s[j].pos = s[i].pos + (j - i)
<1>1. s[i].query \in Nat /\ s[i].pos \in Nat
  BY WireCell
<1>2. CASE i = j
  BY <1>1, <1>2
<1>3. CASE i < j
  <2>1. \/ s[i].query < s[j].query
        \/ s[i].query = s[j].query /\ s[j].pos = s[i].pos + (j - i)
    BY <1>3 DEF Sound, Ordered
  <2> QED BY <1>1, <2>1
<1> QED BY <1>2, <1>3

(* A block that is on the wire from its '#' on, at cell e *)
LEMMA BlockOnWire ==
  ASSUME NEW reps \in Seq(Reply), NEW s \in Seq(Cell), Sound(reps, s), NEW e \in 1..Len(s),
         s[e].char = "hash", s[e].pos = 1
  PROVE  LET q == s[e].query
         IN  /\ q \in 1..Len(reps) /\ reps[q] \in Reply /\ reps[q].kind = "block"
             /\ Size(reps, q) = Len(reps[q].data) + 3 /\ Len(reps[q].data) \in Nat
             /\ e + Size(reps, q) - 1 <= Len(s)
             /\ \A p \in 1..Size(reps, q) : s[e + p - 1] = CellAt(reps, q, p)
             /\ q = Len(reps) => Len(s) = e + Size(reps, q) - 1
<1> DEFINE q == s[e].query
<1>1. /\ Len(reps) \in Nat /\ q \in 1..Len(reps) /\ reps[q] \in Reply /\ Size(reps, q) \in Nat
      /\ IsText(reps, q) => s[e].char # "hash"
      /\ ~IsText(reps, q) => Size(reps, q) = Len(reps[q].data) + 3
      /\ Len(s) \in Nat
  BY WireCell, LenProperties
<1>2. reps[q].kind = "block" /\ Size(reps, q) = Len(reps[q].data) + 3
  BY <1>1 DEF IsText
<1>3. Len(reps[q].data) \in Nat
  BY <1>1, ReplyTypes, LenProperties
<1>4. ASSUME NEW p \in 1..Size(reps, q)
      PROVE  e + p - 1 <= Len(s) /\ s[e + p - 1] = CellAt(reps, q, p)
  <2>1. p - 1 \in 0..(Size(reps, q) - s[e].pos) /\ e + (p - 1) = e + p - 1 /\ s[e].pos + (p - 1) = p
    BY <1>1
  <2> QED BY <2>1 DEF Sound, Onward
<1>5. e + Size(reps, q) - 1 <= Len(s)
  <2>1. Size(reps, q) \in 1..Size(reps, q)
    BY <1>1, <1>2, <1>3
  <2> QED BY <1>4, <2>1
<1>6. ASSUME NEW i \in 1..Len(s), i >= e, s[i].query = q
      PROVE  s[i].pos = i - e + 1
  <2>1. s[i].pos = s[e].pos + (i - e)
    BY <1>6, SameReply
  <2> QED BY <2>1
<1>7. ASSUME q = Len(reps), ~(Len(s) = e + Size(reps, q) - 1) PROVE FALSE
  <2>1. PICK i \in 1..Len(s) : i = e + Size(reps, q)
    <3>1. PICK size \in Nat : size = Size(reps, q)
      BY <1>1
    <3>2. e + size - 1 <= Len(s) /\ Len(s) # e + size - 1
      BY <1>5, <1>7, <3>1
    <3>3. Len(s) \in Nat /\ e \in Nat /\ e >= 1
      BY <1>1
    <3>4. e + size \in 1..Len(s)
      BY ONLY <3>1, <3>2, <3>3
    <3> QED BY <3>1, <3>4
  <2>2. e < i
    BY <1>1, <1>2, <1>3, <2>1
  <2>3. s[i].query = q
    <3>1. s[i].query \in 1..Len(reps)
      BY WireCell
    <3>2. s[e].query < s[i].query \/ s[e].query = s[i].query
      BY <2>2 DEF Sound, Ordered
    <3> QED BY <1>1, <1>7, <3>1, <3>2
  <2>4. s[i].pos \in 1..Size(reps, q)
    BY <2>3, WireCell
  <2>5. s[i].pos = i - e + 1
    BY <1>6, <2>2, <2>3
  <2> QED BY <1>1, <2>1, <2>4, <2>5
<1> QED BY <1>1, <1>2, <1>3, <1>4, <1>5, <1>6, <1>7

----------------------------------------------------------------------------
(* Sequences that begin alike *)

LEMMA Held ==
  ASSUME NEW a \in Seq(Cell), NEW b \in Seq(Cell)
  PROVE  /\ a \o b \in Seq(Cell) /\ Len(a \o b) = Len(a) + Len(b)
         /\ Len(a) \in Nat /\ Len(b) \in Nat
         /\ \A i \in 1..Len(a) : (a \o b)[i] = a[i] /\ i \in 1..Len(a \o b)
<1>1. /\ a \o b \in Seq(Cell) /\ Len(a \o b) = Len(a) + Len(b)
      /\ \A i \in 1..(Len(a) + Len(b)) : (a \o b)[i] = IF i <= Len(a) THEN a[i] ELSE b[i - Len(a)]
      /\ Len(a) \in Nat /\ Len(b) \in Nat
  BY ConcatProperties, LenProperties
<1>2. \A i \in 1..Len(a) : i \in 1..(Len(a) + Len(b)) /\ i <= Len(a)
  BY <1>1
<1> QED BY <1>1, <1>2

LEMMA Sliced ==
  ASSUME NEW s \in Seq(Cell), NEW m \in Nat \ {0}, NEW n \in Nat, n <= Len(s)
  PROVE  /\ SubSeq(s, m, n) \in Seq(Cell)
         /\ Len(SubSeq(s, m, n)) = IF m <= n THEN n - m + 1 ELSE 0
         /\ \A i \in 1..(n - m + 1) : SubSeq(s, m, n)[i] = s[m + i - 1]
<1>1. \A i \in m..n : s[i] \in Cell
  BY ElementOfSeq, LenProperties
<1>2. m \in Int /\ n \in Int
  OBVIOUS
<1> QED BY <1>1, <1>2, SubSeqProperties

LEMMA SameSlice ==
  ASSUME NEW s \in Seq(Cell), NEW t \in Seq(Cell), NEW m \in Nat \ {0}, NEW n \in Nat,
         n <= Len(s), NEW d \in Int, m + d >= 1, n + d <= Len(t), n + d >= 0,
         \A i \in m..n : s[i] = t[i + d]
  PROVE  SubSeq(s, m, n) = SubSeq(t, m + d, n + d)
<1>1. PICK k \in Nat \ {0} : k = m + d
  OBVIOUS
<1>2. PICK l \in Nat : l = n + d
  OBVIOUS
<1>3. /\ SubSeq(s, m, n) \in Seq(Cell)
      /\ Len(SubSeq(s, m, n)) = IF m <= n THEN n - m + 1 ELSE 0
      /\ \A i \in 1..(n - m + 1) : SubSeq(s, m, n)[i] = s[m + i - 1]
  BY Sliced
<1>4. /\ SubSeq(t, k, l) \in Seq(Cell)
      /\ Len(SubSeq(t, k, l)) = IF k <= l THEN l - k + 1 ELSE 0
      /\ \A i \in 1..(l - k + 1) : SubSeq(t, k, l)[i] = t[k + i - 1]
  BY <1>2, Sliced
<1>5. Len(SubSeq(s, m, n)) = Len(SubSeq(t, k, l))
  BY <1>1, <1>2, <1>3, <1>4
<1>6. ASSUME NEW i \in 1..Len(SubSeq(s, m, n)) PROVE SubSeq(s, m, n)[i] = SubSeq(t, k, l)[i]
  <2>1. /\ i \in 1..(n - m + 1) /\ i \in 1..(l - k + 1)
        /\ m + i - 1 \in m..n /\ (m + i - 1) + d = k + i - 1
    BY <1>1, <1>2, <1>3
  <2> QED BY <1>3, <1>4, <2>1
<1>7. SubSeq(s, m, n) = SubSeq(t, k, l)
  BY <1>3, <1>4, <1>5, <1>6, SeqEqual
<1> QED BY <1>1, <1>2, <1>7

LEMMA ContentOf ==
  ASSUME replies \in Seq(Reply), Len(replies) <= MaxQueries, NEW q \in 1..Len(replies)
  PROVE  LET cells == Cells(q, replies[q])
             size  == Size(replies, q)
         IN  /\ cells \in Seq(Cell) /\ Len(cells) = size /\ size \in Nat
             /\ \A p \in 1..size : cells[p] = CellAt(replies, q, p)
             /\ replies[q].kind = "block" => Content(q) = SubSeq(cells, 3, size - 1)
             /\ replies[q].kind # "block" => Content(q) = SubSeq(cells, 1, size - 1)
             /\ replies[q].kind = "block" =>
                  size = Len(replies[q].data) + 3 /\ Len(Content(q)) = Len(replies[q].data)
             /\ replies[q].kind \in {"word", "number"} =>
                  size = 3 /\ Content(q) \in Seq(Cell) /\ Len(Content(q)) = 2
<1>1. q \in 1..MaxQueries /\ replies[q] \in Reply
  BY BoundAssumption, LenProperties, ElementOfSeq
<1>2. PICK cells \in Seq(Cell) : cells = Cells(q, replies[q])
  BY <1>1, ReplyCells
<1>3. PICK size \in Nat : size = Size(replies, q)
  BY <1>1, ReplyTypes DEF Size
<1>4. Len(cells) = size /\ \A p \in 1..size : cells[p] = CellAt(replies, q, p)
  BY <1>1, <1>2, <1>3, ReplyCells DEF Size, CellAt
<1>5. /\ replies[q].kind = "block" => Content(q) = SubSeq(cells, 3, size - 1)
      /\ replies[q].kind # "block" => Content(q) = SubSeq(cells, 1, size - 1)
  BY <1>2, <1>4 DEF Content
<1>6. ASSUME replies[q].kind = "block"
      PROVE  size = Len(replies[q].data) + 3 /\ Len(SubSeq(cells, 3, size - 1)) = Len(replies[q].data)
  <2>1. size = Len(replies[q].data) + 3 /\ Len(replies[q].data) \in Nat
    BY <1>1, <1>3, <1>6, ReplyTypes, LenProperties DEF Size
  <2>2. size - 1 \in Nat /\ size - 1 <= Len(cells)
    BY <1>4, <2>1
  <2>3. Len(SubSeq(cells, 3, size - 1)) = IF 3 <= size - 1 THEN size - 1 - 3 + 1 ELSE 0
    BY <2>2, Sliced
  <2> QED BY <2>1, <2>3
<1>7. ASSUME replies[q].kind \in {"word", "number"}
      PROVE  size = 3 /\ SubSeq(cells, 1, size - 1) \in Seq(Cell) /\ Len(SubSeq(cells, 1, size - 1)) = 2
  <2>1. size = 3
    BY <1>1, <1>3, <1>7, ReplyTypes DEF Size
  <2>2. size - 1 \in Nat /\ size - 1 <= Len(cells) /\ size - 1 = 2
    BY <1>4, <2>1
  <2>3. /\ SubSeq(cells, 1, size - 1) \in Seq(Cell)
        /\ Len(SubSeq(cells, 1, size - 1)) = IF 1 <= size - 1 THEN size - 1 - 1 + 1 ELSE 0
    BY <2>2, Sliced
  <2> QED BY <2>1, <2>2, <2>3
<1> QED BY <1>2, <1>3, <1>4, <1>5, <1>6, <1>7

----------------------------------------------------------------------------
(* The search for the start of a block *)

LEMMA FirstHash ==
  ASSUME NEW reps \in Seq(Reply), NEW s \in Seq(Cell), Sound(reps, s), TextsBeforeLast(reps, s),
         NEW e \in 1..Len(s), s[e].char = "hash", \A i \in 1..Len(s) : s[i].char = "hash" => e <= i
  PROVE  s[e].pos = 1 /\ s[e].query = Len(reps)
<1> DEFINE q == s[e].query
           p == s[e].pos
<1>1. /\ q \in 1..Len(reps) /\ reps[q] \in Reply /\ ~IsText(reps, q)
      /\ Size(reps, q) \in Nat /\ p \in 1..Size(reps, q)
  BY WireCell
<1>2. q = Len(reps) /\ e >= p
  BY <1>1 DEF TextsBeforeLast
<1>3. Len(s) \in Nat /\ p \in Nat \ {0} /\ s[e].pos = p /\ s[e].query = q
  BY <1>1, LenProperties
<1> HIDE DEF p, q
<1>4. ASSUME p # 1 PROVE FALSE
  <2>1. PICK k \in Nat : k = p - 1 /\ k > 0
    BY <1>3, <1>4
  <2>2. k \in 0..(p - 1) /\ e - k >= 1 /\ e - k \in 1..Len(s) /\ p - k = 1 /\ e - k < e
    BY <1>2, <1>3, <2>1
  <2>3. s[e - k] = CellAt(reps, q, 1)
    BY <1>3, <2>2 DEF Sound, Backward
  <2>4. Characters(reps[q])[1] = "hash"
    BY <1>1, ReplyTypes DEF IsText
  <2>5. s[e - k].char = "hash"
    BY <2>3, <2>4 DEF CellAt
  <2> QED BY <2>2, <2>5
<1> QED BY <1>2, <1>3, <1>4

(* If a response begins with a '#', it is that of the last reply. *)
FromStart(reps, r) ==
  r # << >> /\ r[1].char = "hash" => r[1].pos = 1 /\ r[1].query = Len(reps)

LEMMA AlignedSound ==
  ASSUME NEW reps \in Seq(Reply), NEW a \in Seq(Cell), NEW b \in Seq(Cell),
         NEW m, NEW chunk, a = m \o chunk, NEW r, r = Aligned(m, chunk), Sound(reps, a \o b)
  PROVE  /\ r \in Seq(Cell) /\ r \o b \in Seq(Cell) /\ Sound(reps, r \o b)
         /\ TextsBeforeLast(reps, a \o b) => TextsBeforeLast(reps, r \o b) /\ FromStart(reps, r)
<1> DEFINE s == a \o b
<1>1. /\ s \in Seq(Cell) /\ Len(s) = Len(a) + Len(b) /\ Len(a) \in Nat /\ Len(b) \in Nat
      /\ \A i \in 1..Len(a) : s[i] = a[i] /\ i \in 1..Len(s)
      /\ Sound(reps, s) /\ s = a \o b
  BY Held
<1> HIDE DEF s
<1>2. CASE At(a, "hash") = {}
  <2>1. r = a
    BY <1>2 DEF Aligned
  <2>2. ASSUME a # << >> PROVE a[1].char # "hash"
    <3>1. 1 \in 1..Len(a)
      BY <1>1, <2>2, EmptySeq
    <3> QED BY <1>2, <3>1 DEF At
  <2> QED BY <1>1, <1>2, <2>1, <2>2 DEF FromStart
<1>3. CASE At(a, "hash") # {}
  <2>1. PICK e \in 1..Len(a) : /\ e = FirstOf(At(a, "hash")) /\ a[e].char = "hash"
                               /\ \A i \in 1..Len(a) : a[i].char = "hash" => e <= i
    BY <1>3, FirstAt
  <2>2. r = SubSeq(a, e, Len(a))
    BY <1>3, <2>1 DEF Aligned
  <2>3. PICK n \in 0..Len(a) : n = e - 1 /\ n + 1 = e
    <3>1. Len(a) \in Nat /\ e \in 1..Len(a)
      BY <1>1, <2>1
    <3> QED BY <3>1, Predecessor, Zenon
  <2>4. PICK left : left = r \o b
    OBVIOUS
  <2>5. SubSeq(a, n + 1, Len(a)) \o b = left
    BY <2>2, <2>3, <2>4
  <2>6. /\ left \in Seq(Cell) /\ Sound(reps, left) /\ Len(left) = Len(s) - n
        /\ \A i \in 1..Len(left) : left[i] = s[i + n]
    <3>1. LET t == SubSeq(a, n + 1, Len(a)) \o b
          IN  /\ t \in Seq(Cell) /\ Sound(reps, t)
              /\ Len(t) = Len(a \o b) - n
              /\ \A i \in 1..Len(t) : t[i] = (a \o b)[i + n]
              /\ OnlyTexts(reps, a \o b) => OnlyTexts(reps, t)
      BY DropHeld
    <3> QED BY <1>1, <2>5, <3>1
  <2>7. /\ r \in Seq(Cell) /\ Len(r) = Len(a) - e + 1 /\ r[1] = a[e]
    <3>1. /\ Len(a) \in Nat /\ e \in Nat \ {0} /\ Len(a) <= Len(a) /\ e <= Len(a)
          /\ 1 \in 1..(Len(a) - e + 1) /\ e + 1 - 1 = e
      BY <1>1, <2>1
    <3>2. /\ SubSeq(a, e, Len(a)) \in Seq(Cell)
          /\ Len(SubSeq(a, e, Len(a))) = IF e <= Len(a) THEN Len(a) - e + 1 ELSE 0
          /\ \A i \in 1..(Len(a) - e + 1) : SubSeq(a, e, Len(a))[i] = a[e + i - 1]
      BY <3>1, Sliced
    <3> QED BY <2>2, <3>1, <3>2
  <2>8. ASSUME TextsBeforeLast(reps, s)
        PROVE  r[1].pos = 1 /\ r[1].query = Len(reps) /\ TextsBeforeLast(reps, left)
    <3>1. PICK c \in 1..Len(s) :
            /\ c = e /\ s[c].char = "hash" /\ s[c] = a[e]
            /\ \A i \in 1..Len(s) : s[i].char = "hash" => c <= i
      <4>1. e \in 1..Len(s) /\ s[e].char = "hash" /\ s[e] = a[e]
        BY <1>1, <2>1
      <4>2. ASSUME NEW i \in 1..Len(s), s[i].char = "hash", ~(e <= i) PROVE FALSE
        <5>1. i \in 1..Len(a)
          BY <1>1, <2>1, <4>2
        <5> QED BY <1>1, <2>1, <4>2, <5>1
      <4> QED BY <4>1, <4>2
    <3>2. s[c].pos = 1 /\ s[c].query = Len(reps)
      BY ONLY <1>1, <2>8, <3>1, FirstHash, reps \in Seq(Reply)
    <3>3. ASSUME NEW i \in 1..Len(left)
          PROVE  IsText(reps, left[i].query) \/ (left[i].query = Len(reps) /\ i >= left[i].pos)
      <4>1. PICK k \in 1..Len(s) : k = i + n /\ left[i] = s[k] /\ k >= e /\ k - e + 1 = i
        <5>1. Len(left) = Len(s) - n /\ n = e - 1 /\ n \in Nat /\ Len(s) \in Nat /\ i \in 1..Len(left)
          BY <1>1, <2>3, <2>6
        <5>2. i + n \in 1..Len(s) /\ i + n >= e /\ i + n - e + 1 = i
          BY ONLY <5>1
        <5>3. left[i] = s[i + n]
          BY <2>6
        <5> QED BY <5>2, <5>3
      <4>2. IsText(reps, s[k].query) \/ s[k].query = Len(reps)
        BY <2>8 DEF TextsBeforeLast
      <4>3. IsText(reps, left[i].query) \/ left[i].query = Len(reps)
        BY <4>1, <4>2
      <4>4. ASSUME left[i].query = Len(reps) PROVE left[i].pos = i
        <5>1. s[k].pos = s[c].pos + (k - c)
          <6>1. c <= k /\ s[c].query = s[k].query
            BY <3>1, <3>2, <4>1, <4>4
          <6> QED BY <1>1, <6>1, SameReply
        <5> QED BY <3>1, <3>2, <4>1, <5>1
      <4> QED BY <4>3, <4>4
    <3> QED BY <2>7, <3>1, <3>2, <3>3 DEF TextsBeforeLast
  <2> QED BY <1>1, <2>1, <2>4, <2>6, <2>7, <2>8 DEF FromStart
<1> QED BY <1>2, <1>3

(* A response that is complete, when its '#' is the start of a block *)
LEMMA BlockRead ==
  ASSUME replies \in Seq(Reply), Len(replies) <= MaxQueries,
         NEW r \in Seq(Cell), NEW b \in Seq(Cell), Sound(replies, r \o b),
         Complete(r), r[1].pos = 1
  PROVE  LET q == r[1].query
         IN  /\ q \in 1..Len(replies) /\ replies[q].kind = "block"
             /\ Declared(r[2]) = Len(Content(q)) /\ r[Total(r)].char = "newline"
             /\ SubSeq(r, 3, Total(r) - 1) = Content(q)
             /\ q = Len(replies) => b = << >>
<1> DEFINE s == r \o b
<1>1. /\ s \in Seq(Cell) /\ Len(s) = Len(r) + Len(b) /\ Len(r) \in Nat /\ Len(b) \in Nat
      /\ \A i \in 1..Len(r) : s[i] = r[i] /\ i \in 1..Len(s)
      /\ Sound(replies, s)
  BY Held
<1> HIDE DEF s
<1>2. Len(r) >= 2 /\ r[1].char = "hash" /\ Len(r) >= Total(r)
  BY DEF Complete, HasHeader
<1>3. 1 \in 1..Len(r) /\ 2 \in 1..Len(r) /\ 1 \in 1..Len(s) /\ s[1] = r[1] /\ s[2] = r[2]
  BY <1>1, <1>2
<1>q. PICK q : q = r[1].query
  OBVIOUS
<1>4. PICK size \in Nat : size = Size(replies, q)
  <2>1. Size(replies, s[1].query) \in Nat
    BY <1>1, <1>3, WireCell
  <2> QED BY <1>3, <1>q, <2>1
<1>5. /\ q \in 1..Len(replies) /\ replies[q] \in Reply /\ replies[q].kind = "block"
      /\ size = Len(replies[q].data) + 3 /\ Len(replies[q].data) \in Nat
      /\ size <= Len(s)
      /\ \A p \in 1..size : s[1 + p - 1] = CellAt(replies, q, p)
      /\ q = Len(replies) => Len(s) = size
  <2>1. s[1].char = "hash" /\ s[1].pos = 1 /\ s[1].query = q
    BY <1>2, <1>3, <1>q
  <2>2. /\ q \in 1..Len(replies) /\ replies[q] \in Reply /\ replies[q].kind = "block"
        /\ size = Len(replies[q].data) + 3 /\ Len(replies[q].data) \in Nat
        /\ 1 + size - 1 <= Len(s)
        /\ \A p \in 1..size : s[1 + p - 1] = CellAt(replies, q, p)
        /\ q = Len(replies) => Len(s) = 1 + size - 1
    BY ONLY <1>1, <1>3, <1>4, <2>1, BlockOnWire, replies \in Seq(Reply)
  <2>3. size <= Len(s) /\ (q = Len(replies) => Len(s) = size)
    BY <1>1, <2>2
  <2> QED BY <2>2, <2>3
<1>6. \A p \in 1..size : s[p] = CellAt(replies, q, p)
  <2>1. \A p \in 1..size : 1 + p - 1 = p
    OBVIOUS
  <2> QED BY <1>5, <2>1
<1>7. r[2].pos = 2 /\ r[2].query = q
  <2>1. 2 \in 1..size
    BY <1>5
  <2>2. s[2] = CellAt(replies, q, 2)
    BY <1>6, <2>1
  <2> QED BY <1>3, <2>2 DEF CellAt
<1>8. Declared(r[2]) = Len(replies[q].data) /\ Total(r) = size
  <2>1. Declared(r[2]) = Len(replies[q].data)
    BY <1>7 DEF Declared
  <2> QED BY <1>5, <2>1 DEF Total
<1>9. \A p \in 1..size : r[p] = CellAt(replies, q, p)
  <2>1. \A p \in 1..size : p \in 1..Len(r)
    BY <1>1, <1>2, <1>8
  <2> QED BY <1>1, <1>6, <2>1
<1>10. r[Total(r)].char = "newline"
  <2>1. size \in 1..size
    BY <1>5
  <2>2. r[size] = CellAt(replies, q, size)
    BY <1>9, <2>1
  <2>3. Characters(replies[q])[size] = "newline"
    BY <1>5, ReplyTypes
  <2> QED BY <1>8, <2>2, <2>3 DEF CellAt
<1>11. /\ Cells(q, replies[q]) \in Seq(Cell) /\ Len(Cells(q, replies[q])) = size
       /\ \A p \in 1..size : Cells(q, replies[q])[p] = CellAt(replies, q, p)
       /\ Content(q) = SubSeq(Cells(q, replies[q]), 3, size - 1)
       /\ Len(Content(q)) = Len(replies[q].data)
  BY <1>4, <1>5, ContentOf
<1>12. SubSeq(r, 3, Total(r) - 1) = Content(q)
  <2>1. PICK cells \in Seq(Cell) : cells = Cells(q, replies[q])
    BY <1>11
  <2>2. PICK n \in Nat : n = size - 1 /\ n <= Len(r) /\ n <= Len(cells)
    <3>1. size - 1 \in Nat /\ size <= Len(r) /\ Len(cells) = size
      BY <1>2, <1>5, <1>8, <1>11, <2>1
    <3>2. size - 1 <= Len(r) /\ size - 1 <= Len(cells)
      BY <1>1, <3>1
    <3> QED BY <3>1, <3>2
  <2>3. \A i \in 3..n : r[i] = cells[i + 0]
    BY <1>9, <1>11, <2>1, <2>2
  <2>4. SubSeq(r, 3, n) = SubSeq(cells, 3 + 0, n + 0)
    <3>1. 3 \in Nat \ {0} /\ 0 \in Int /\ 3 + 0 >= 1 /\ n + 0 <= Len(cells) /\ n + 0 >= 0
      BY <2>2
    <3> QED BY <2>2, <2>3, <3>1, SameSlice
  <2>5. 3 + 0 = 3 /\ n + 0 = n /\ Total(r) - 1 = n
    BY <1>8, <2>2
  <2> QED BY <1>11, <2>1, <2>2, <2>4, <2>5
<1>13. ASSUME q = Len(replies) PROVE b = << >>
  <2>1. Len(b) = 0
    BY <1>1, <1>2, <1>5, <1>8, <1>13
  <2> QED BY <2>1, EmptySeq
<1> QED BY <1>q, <1>5, <1>8, <1>10, <1>11, <1>12, <1>13

----------------------------------------------------------------------------
(* What is before a newline, when only texts are on the wire *)

LEMMA TextStart ==
  ASSUME replies \in Seq(Reply), Len(replies) <= MaxQueries,
         NEW a \in Seq(Cell), NEW b \in Seq(Cell),
         Sound(replies, a \o b), OnlyTexts(replies, a \o b),
         NEW m \in 1..Len(a), \A i \in 1..m : a[i].char # "newline"
  PROVE  LET q == a[1].query
             p == a[1].pos
         IN  /\ q \in 1..Len(replies) /\ replies[q].kind # "block"
             /\ p \in 1..2 /\ p + m - 1 <= 2 /\ Len(Content(q)) = 2
             /\ SubSeq(a, 1, m) = SubSeq(Content(q), p, p + m - 1)
<1> DEFINE s == a \o b
<1>1. /\ s \in Seq(Cell) /\ Len(s) = Len(a) + Len(b) /\ Len(a) \in Nat /\ Len(b) \in Nat
      /\ \A i \in 1..Len(a) : s[i] = a[i] /\ i \in 1..Len(s)
      /\ Sound(replies, s) /\ OnlyTexts(replies, s)
  BY Held
<1> HIDE DEF s
<1>2. PICK q, p : q = a[1].query /\ p = a[1].pos
  OBVIOUS
<1>3. 1 \in 1..Len(s) /\ s[1].query = q /\ s[1].pos = p /\ m \in Nat \ {0} /\ m <= Len(a)
  BY <1>1, <1>2
<1>4. IsText(replies, q)
  BY <1>1, <1>3 DEF OnlyTexts
<1>5. /\ q \in 1..Len(replies) /\ Size(replies, q) = 3 /\ p \in 1..3
      /\ replies[q].kind \in {"word", "number"}
  BY <1>1, <1>3, <1>4, TextCell, Zenon
<1>6. ASSUME NEW k \in 0..(3 - p) PROVE 1 + k <= Len(s) /\ s[1 + k] = CellAt(replies, q, p + k)
  BY <1>1, <1>3, <1>5 DEF Sound, Onward
<1>7. p + m - 1 <= 2
  <2> SUFFICES ASSUME p + m - 1 > 2 PROVE FALSE
    BY <1>3, <1>5
  <2>1. PICK k \in 0..(3 - p) : k = 3 - p /\ p + k = 3 /\ 1 + k \in 1..m
    <3>1. 3 - p \in 0..(3 - p) /\ p + (3 - p) = 3 /\ 1 + (3 - p) \in 1..m
      BY <1>3, <1>5
    <3> QED BY <3>1
  <2>2. s[1 + k] = CellAt(replies, q, 3)
    BY <1>6, <2>1
  <2>3. Characters(replies[q])[3] = "newline"
    <3>1. replies[q] \in Reply
      BY <1>5, ElementOfSeq
    <3> QED BY <1>5, <3>1, ReplyTypes
  <2>4. s[1 + k].char = "newline"
    BY <2>2, <2>3 DEF CellAt
  <2>5. 1 + k \in 1..Len(a)
    BY <1>1, <1>3, <2>1
  <2> QED BY <1>1, <2>1, <2>4, <2>5
<1>8. /\ Content(q) = SubSeq(Cells(q, replies[q]), 1, Size(replies, q) - 1)
      /\ Content(q) \in Seq(Cell) /\ Len(Content(q)) = 2
      /\ Cells(q, replies[q]) \in Seq(Cell) /\ Len(Cells(q, replies[q])) = 3
      /\ \A i \in 1..3 : Cells(q, replies[q])[i] = CellAt(replies, q, i)
  BY <1>5, ContentOf
<1>9. PICK cells \in Seq(Cell) : /\ Len(cells) = 3 /\ Content(q) = SubSeq(cells, 1, 2)
                                 /\ \A i \in 1..3 : cells[i] = CellAt(replies, q, i)
  BY <1>5, <1>8
<1>10. PICK t \in Seq(Cell) : t = Content(q) /\ Len(t) = 2
  BY <1>8
<1>11. \A i \in 1..2 : t[i] = CellAt(replies, q, i)
  <2>1. \A i \in 1..(2 - 1 + 1) : SubSeq(cells, 1, 2)[i] = cells[1 + i - 1]
    <3>1. 1 \in Nat \ {0} /\ 2 \in Nat /\ 2 <= Len(cells)
      BY <1>9
    <3> QED BY <3>1, Sliced
  <2>2. \A i \in 1..2 : i \in 1..(2 - 1 + 1) /\ 1 + i - 1 = i /\ i \in 1..3
    OBVIOUS
  <2> QED BY <1>9, <1>10, <2>1, <2>2
<1>12. \A i \in 1..m : a[i] = t[i + (p - 1)]
  <2> SUFFICES ASSUME NEW i \in 1..m PROVE a[i] = t[i + (p - 1)]
    OBVIOUS
  <2>1. PICK k \in 0..(3 - p) : k = i - 1 /\ 1 + k = i /\ p + k \in 1..2 /\ p + k = i + (p - 1)
    <3>1. i - 1 \in 0..(3 - p) /\ 1 + (i - 1) = i /\ p + (i - 1) \in 1..2 /\ p + (i - 1) = i + (p - 1)
      BY <1>3, <1>5, <1>7
    <3> QED BY <3>1
  <2>2. s[i] = CellAt(replies, q, p + k)
    BY <1>6, <2>1
  <2>3. s[i] = a[i]
    <3>1. i \in 1..Len(a)
      BY <1>1, <1>3
    <3> QED BY <1>1, <3>1
  <2> QED BY <1>11, <2>1, <2>2, <2>3
<1>13. SubSeq(a, 1, m) = SubSeq(t, p, p + m - 1)
  <2>1. PICK d \in Nat : d = p - 1 /\ 1 + d = p /\ m + d = p + m - 1
    <3>1. p - 1 \in Nat /\ 1 + (p - 1) = p /\ m + (p - 1) = p + m - 1
      BY <1>3, <1>5
    <3> QED BY <3>1
  <2>2. \A i \in 1..m : a[i] = t[i + d]
    BY <1>12, <2>1
  <2>3. /\ 1 \in Nat \ {0} /\ m \in Nat /\ m <= Len(a) /\ d \in Int
        /\ 1 + d >= 1 /\ m + d <= Len(t) /\ m + d >= 0
    BY <1>3, <1>5, <1>7, <1>10, <2>1
  <2>4. SubSeq(a, 1, m) = SubSeq(t, 1 + d, m + d)
    BY <2>2, <2>3, SameSlice
  <2> QED BY <2>1, <2>4
<1>14. p \in 1..2
  BY <1>3, <1>5, <1>7
<1> QED BY <1>2, <1>5, <1>7, <1>10, <1>13, <1>14

LEMMA TextPart ==
  ASSUME replies \in Seq(Reply), Len(replies) <= MaxQueries,
         NEW a \in Seq(Cell), NEW b \in Seq(Cell), a # << >>,
         Sound(replies, a \o b), OnlyTexts(replies, a \o b),
         NEW m \in 0..Len(a), \A i \in 1..m : a[i].char # "newline"
  PROVE  \E q \in 1..Len(replies) :
           replies[q].kind # "block" /\ PartOf(SubSeq(a, 1, m), Content(q))
<1>1. Len(a) \in Nat /\ Len(a) >= 1
  BY LenProperties, EmptySeq
<1>2. CASE m # 0
  <2>1. m \in 1..Len(a)
    BY <1>1, <1>2
  <2>2. PICK q, p : /\ q \in 1..Len(replies) /\ replies[q].kind # "block"
                    /\ p \in 1..2 /\ p + m - 1 <= 2 /\ Len(Content(q)) = 2
                    /\ SubSeq(a, 1, m) = SubSeq(Content(q), p, p + m - 1)
    BY <2>1, TextStart
  <2>3. p \in 1..(2 + 1) /\ p + m - 1 \in 0..2
    BY <1>1, <2>2
  <2> QED BY <2>2, <2>3 DEF PartOf
<1>3. CASE m = 0
  <2>1. /\ a \o b \in Seq(Cell) /\ 1 \in 1..Len(a \o b)
        /\ \A i \in 1..Len(a) : (a \o b)[i] = a[i]
    BY <1>1, Held
  <2>2. PICK q : q = (a \o b)[1].query
    OBVIOUS
  <2>3. q \in 1..Len(replies) /\ IsText(replies, q)
    BY <2>1, <2>2, WireCell DEF OnlyTexts
  <2>4. replies[q].kind \in {"word", "number"}
    BY <2>1, <2>2, <2>3, WireCell
  <2>5. PICK t \in Seq(Cell) : t = Content(q) /\ Len(t) = 2
    BY <2>3, <2>4, ContentOf
  <2>6. SubSeq(a, 1, 0) = << >> /\ SubSeq(t, 1, 0) = << >>
    <3>1. 1 \in Nat \ {0} /\ 0 \in Nat /\ 0 <= Len(a) /\ 0 <= Len(t)
      BY <1>1, <2>5
    <3>2. SubSeq(a, 1, 0) \in Seq(Cell) /\ Len(SubSeq(a, 1, 0)) = 0
      BY <3>1, Sliced
    <3>3. SubSeq(t, 1, 0) \in Seq(Cell) /\ Len(SubSeq(t, 1, 0)) = 0
      BY <3>1, Sliced
    <3> QED BY <3>2, <3>3, EmptySeq
  <2>7. PartOf(SubSeq(a, 1, m), t)
    <3>1. 1 \in 1..(Len(t) + 1) /\ 0 \in 0..Len(t)
      BY <2>5
    <3> QED BY <1>3, <2>6, <3>1 DEF PartOf
  <2> QED BY <2>3, <2>5, <2>7 DEF IsText
<1> QED BY <1>2, <1>3

(* The line read when there is nothing on the wire but the reply to the query *)
LEMMA OwnLine ==
  ASSUME replies \in Seq(Reply), Len(replies) <= MaxQueries, NEW last \in 1..Len(replies),
         replies[last].kind # "block",
         NEW a \in Seq(Cell), NEW b \in Seq(Cell), a \o b = Cells(last, replies[last]),
         NEW e \in 1..Len(a), a[e].char = "newline"
  PROVE  /\ replies[last].kind \in {"word", "number"} /\ e = 3 /\ Len(a \o b) = 3
         /\ SubSeq(a, 1, 2) = Content(last) /\ Len(SubSeq(a, 1, 2)) = 2
         /\ SubSeq(a, 1, 2)[1].query = last /\ SubSeq(a, 1, 2)[2].query = last
<1> DEFINE s == a \o b
<1>1. /\ s \in Seq(Cell) /\ Len(s) = Len(a) + Len(b) /\ Len(a) \in Nat /\ Len(b) \in Nat
      /\ \A i \in 1..Len(a) : s[i] = a[i] /\ i \in 1..Len(s)
      /\ s = Cells(last, replies[last])
  BY Held
<1> HIDE DEF s
<1>2. replies[last] \in Reply
  BY ElementOfSeq
<1>3. PICK size \in Nat : size = Size(replies, last) /\ size = Len(Characters(replies[last]))
  BY <1>2, ReplyTypes DEF Size
<1>4. /\ Len(s) = size /\ \A p \in 1..size : s[p] = CellAt(replies, last, p)
      /\ Content(last) = SubSeq(s, 1, size - 1)
  BY <1>1, <1>3, ContentOf
<1>5. e \in 1..size /\ s[e].char = "newline"
  BY <1>1, <1>4
<1>6. replies[last].kind \in {"word", "number"}
  BY <1>2, <1>3, <1>5, ReplyTypes
<1>7. e = 3 /\ size = 3
  <2>1. /\ size = 3 /\ Characters(replies[last])[1] = "other"
        /\ Characters(replies[last])[2] = "other"
    BY <1>2, <1>3, <1>6, ReplyTypes
  <2>2. Characters(replies[last])[e] = "newline"
    BY <1>4, <1>5 DEF CellAt
  <2>3. e = 1 \/ e = 2 \/ e = 3
    BY <1>5, <2>1
  <2> QED BY <2>1, <2>2, <2>3
<1>8. /\ SubSeq(a, 1, 2) = SubSeq(s, 1, 2) /\ Len(SubSeq(a, 1, 2)) = 2
      /\ \A i \in 1..2 : SubSeq(a, 1, 2)[i].query = last
  <2>1. /\ 1 \in Nat \ {0} /\ 2 \in Nat /\ 0 \in Int /\ 2 <= Len(a) /\ 2 + 0 <= Len(s)
        /\ 1 + 0 >= 1 /\ 2 + 0 >= 0
    BY <1>1, <1>7
  <2>2. \A i \in 1..2 : a[i] = s[i + 0]
    <3>1. \A i \in 1..2 : i \in 1..Len(a) /\ i + 0 = i
      BY <2>1, <1>1
    <3> QED BY <1>1, <3>1
  <2>3. SubSeq(a, 1, 2) = SubSeq(s, 1 + 0, 2 + 0)
    BY <1>1, <2>1, <2>2, SameSlice
  <2>4. /\ Len(SubSeq(a, 1, 2)) = IF 1 <= 2 THEN 2 - 1 + 1 ELSE 0
        /\ \A i \in 1..(2 - 1 + 1) : SubSeq(a, 1, 2)[i] = a[1 + i - 1]
    BY <2>1, Sliced
  <2>5. \A i \in 1..2 : i \in 1..(2 - 1 + 1) /\ 1 + i - 1 = i /\ i \in 1..size /\ i + 0 = i
    BY <1>7
  <2>6. \A i \in 1..2 : s[i].query = last
    BY <1>4, <2>5 DEF CellAt
  <2> QED BY <2>2, <2>3, <2>4, <2>5, <2>6
<1>9. size - 1 = 2 /\ Content(last) = SubSeq(s, 1, 2) /\ Len(a \o b) = 3
  BY <1>4, <1>7 DEF s
<1>10. SubSeq(a, 1, 2)[1].query = last /\ SubSeq(a, 1, 2)[2].query = last
  BY <1>8
<1> QED BY <1>6, <1>7, <1>8, <1>9, <1>10

----------------------------------------------------------------------------
(* Parts of steps: a recv, the loss of what is held, an answer *)

LEMMA DropAll ==
  ASSUME NEW reps \in Seq(Reply), NEW a \in Seq(Cell), NEW b \in Seq(Cell), Sound(reps, a \o b)
  PROVE  Sound(reps, << >> \o b) /\ (OnlyTexts(reps, a \o b) => OnlyTexts(reps, << >> \o b))
<1>1. PICK n \in 0..Len(a) : n = Len(a)
  BY LenProperties
<1>2. SubSeq(a, n + 1, Len(a)) = << >>
  <2>1. n + 1 \in Nat \ {0} /\ Len(a) \in Nat /\ Len(a) <= Len(a) /\ ~(n + 1 <= Len(a))
    BY <1>1, LenProperties
  <2>2. /\ SubSeq(a, n + 1, Len(a)) \in Seq(Cell)
        /\ Len(SubSeq(a, n + 1, Len(a))) = IF n + 1 <= Len(a) THEN Len(a) - (n + 1) + 1 ELSE 0
    BY <2>1, Sliced
  <2> QED BY <2>1, <2>2, EmptySeq
<1>3. LET left == SubSeq(a, n + 1, Len(a)) \o b
      IN  Sound(reps, left) /\ (OnlyTexts(reps, a \o b) => OnlyTexts(reps, left))
  BY DropHeld
<1> QED BY <1>2, <1>3

LEMMA Regrouped ==
  ASSUME NEW a \in Seq(Cell), NEW b \in Seq(Cell), NEW c \in Seq(Cell)
  PROVE  (a \o b) \o c = a \o (b \o c)
BY ConcatAssociative

LEMMA RecvCells ==
  ASSUME stream \in Seq(Cell), NEW n \in 1..Len(stream), NEW a \in Seq(Cell)
  PROVE  LET rest == SubSeq(stream, n + 1, Len(stream))
         IN  /\ Taken(n) \in Seq(Cell) /\ rest \in Seq(Cell) /\ a \o Taken(n) \in Seq(Cell)
             /\ (a \o Taken(n)) \o rest = a \o stream
<1>1. PICK s \in Seq(Cell) : s = stream
  OBVIOUS
<1>2. /\ Len(s) \in Nat /\ n \in Nat \ {0} /\ n <= Len(s) /\ n + 1 \in Nat \ {0}
      /\ 1 \in Nat \ {0} /\ Len(s) <= Len(s)
  BY <1>1, LenProperties
<1>3. PICK front \in Seq(Cell) : front = SubSeq(s, 1, n)
  BY <1>2, Sliced
<1>4. PICK rest \in Seq(Cell) : rest = SubSeq(s, n + 1, Len(s))
  BY <1>2, Sliced
<1>5. /\ Len(front) = n /\ \A i \in 1..n : front[i] = s[i]
      /\ Len(rest) = Len(s) - n /\ \A i \in 1..(Len(s) - n) : rest[i] = s[i + n]
  <2>1. /\ Len(front) = IF 1 <= n THEN n - 1 + 1 ELSE 0
        /\ \A i \in 1..(n - 1 + 1) : front[i] = s[1 + i - 1]
    BY <1>2, <1>3, Sliced
  <2>2. /\ Len(rest) = IF n + 1 <= Len(s) THEN Len(s) - (n + 1) + 1 ELSE 0
        /\ \A i \in 1..(Len(s) - (n + 1) + 1) : rest[i] = s[n + 1 + i - 1]
    BY <1>2, <1>4, Sliced
  <2>3. /\ \A i \in 1..n : i \in 1..(n - 1 + 1) /\ 1 + i - 1 = i
        /\ \A i \in 1..(Len(s) - n) : i \in 1..(Len(s) - (n + 1) + 1) /\ n + 1 + i - 1 = i + n
    BY <1>2
  <2>4. Len(front) = n /\ Len(rest) = Len(s) - n
    BY <1>2, <2>1, <2>2
  <2> QED BY <2>1, <2>2, <2>3, <2>4
<1>6. front \o rest = s
  <2>1. /\ front \o rest \in Seq(Cell) /\ Len(front \o rest) = Len(front) + Len(rest)
        /\ \A i \in 1..(Len(front) + Len(rest)) :
             (front \o rest)[i] = IF i <= Len(front) THEN front[i] ELSE rest[i - Len(front)]
    BY ConcatProperties
  <2>2. Len(front \o rest) = Len(s)
    BY <1>2, <1>5, <2>1
  <2>3. ASSUME NEW i \in 1..Len(s) PROVE (front \o rest)[i] = s[i]
    <3>1. i \in 1..(Len(front) + Len(rest)) /\ Len(front) = n
      BY <1>2, <1>5, <2>2, <2>1
    <3>2. CASE i <= n
      <4>1. i \in 1..n
        BY <1>2, <3>2
      <4> QED BY <1>5, <2>1, <3>1, <3>2, <4>1
    <3>3. CASE ~(i <= n)
      <4>1. i - n \in 1..(Len(s) - n) /\ (i - n) + n = i
        BY <1>2, <3>3
      <4> QED BY <1>5, <2>1, <3>1, <3>3, <4>1
    <3> QED BY <3>2, <3>3
  <2> QED BY <2>1, <2>2, <2>3, SeqEqual
<1>7. (a \o front) \o rest = a \o (front \o rest) /\ a \o front \in Seq(Cell)
  <2>1. (a \o front) \o rest = a \o (front \o rest)
    BY Regrouped
  <2>2. a \o front \in Seq(Cell)
    BY ConcatProperties
  <2> QED BY <2>1, <2>2
<1> QED BY <1>1, <1>3, <1>4, <1>6, <1>7 DEF Taken

LEMMA TextAnswer ==
  ASSUME call \in Calls, NEW t \in Seq(Cell), Text(t) \/ (t = << >> /\ NoText)
  PROVE  /\ pc' = "idle" /\ msg' = << >>
         /\ answer' \in [status : {"none", "ok", "default", "error"}, cells : Seq(Cell)]
         /\ answer'.status = "ok" => Text(t) /\ answer'.cells = t
         /\ Text(t) /\ (call = "text" \/ Numeric(t) = {TRUE}) =>
              answer' = [status |-> "ok", cells |-> t]
<1>1. << >> \in Seq(Cell)
  BY EmptySeq
<1>2. ASSUME NoText
      PROVE  /\ pc' = "idle" /\ msg' = << >>
             /\ answer' \in [status : {"none", "ok", "default", "error"}, cells : Seq(Cell)]
             /\ answer'.status # "ok"
  BY <1>1, <1>2 DEF NoText, Answer
<1>3. ASSUME Answer("ok", t)
      PROVE  /\ pc' = "idle" /\ msg' = << >>
             /\ answer' \in [status : {"none", "ok", "default", "error"}, cells : Seq(Cell)]
             /\ answer' = [status |-> "ok", cells |-> t] /\ answer'.cells = t
  BY <1>3 DEF Answer
<1>4. Text(t) => Answer("ok", t) \/ NoText
  BY DEF Text
<1>5. Text(t) /\ (call = "text" \/ Numeric(t) = {TRUE}) => Answer("ok", t)
  BY DEF Text
<1> QED BY <1>2, <1>3, <1>4, <1>5

LEMMA BlockAnswer ==
  ASSUME NEW r \in Seq(Cell), Complete(r), Declared(r[2]) \in Nat, Block(r)
  PROVE  /\ pc' = "idle" /\ msg' = << >>
         /\ answer' \in [status : {"none", "ok", "default", "error"}, cells : Seq(Cell)]
         /\ answer'.status = "ok" => answer'.cells = SubSeq(r, 3, Total(r) - 1)
         /\ r[Total(r)].char = "newline" /\ Declared(r[2]) > 0 =>
              answer' = [status |-> "ok", cells |-> SubSeq(r, 3, Total(r) - 1)]
         /\ ~(Declared(r[2]) > 0) => answer' = [status |-> "error", cells |-> << >>]
<1>1. << >> \in Seq(Cell)
  BY EmptySeq
<1>2. Len(r) \in Nat /\ Len(r) >= 2 /\ Len(r) >= Total(r) /\ Declared(r[2]) \in Nat
  BY LenProperties DEF Complete, HasHeader
<1>3. SubSeq(r, 3, Total(r) - 1) \in Seq(Cell)
  <2>1. PICK n \in Nat : n = Total(r) - 1 /\ n <= Len(r)
    BY <1>2 DEF Total
  <2>2. 3 \in Nat \ {0}
    OBVIOUS
  <2> QED BY <2>1, <2>2, Sliced
<1>4. CASE r[Total(r)].char = "newline" /\ Declared(r[2]) > 0
  <2>1. Answer("ok", SubSeq(r, 3, Total(r) - 1))
    BY ONLY <1>4, Block(r) DEF Block
  <2> QED BY <1>3, <1>4, <2>1 DEF Answer
<1>5. CASE ~(r[Total(r)].char = "newline" /\ Declared(r[2]) > 0)
  <2>1. Answer("error", << >>)
    BY ONLY <1>5, Block(r) DEF Block
  <2> QED BY <1>1, <1>5, <2>1 DEF Answer
<1> QED BY <1>4, <1>5

LEMMA DeclaredType ==
  ASSUME replies \in Seq(Reply), NEW c \in Cell, c.query \in 1..Len(replies)
  PROVE  Declared(c) \in Nat
<1>1. replies[c.query] \in Reply
  BY ElementOfSeq
<1>2. replies[c.query].data \in Seq(Chars)
  BY <1>1, ReplyTypes
<1> QED BY <1>2, LenProperties DEF Declared

----------------------------------------------------------------------------
(* The steps, one lemma for each *)

Results == OwnBlock /\ OwnText /\ OneText /\ WholeBlock

LEMMA EmptyWire ==
  ASSUME NEW reps
  PROVE  Sound(reps, << >>) /\ OnlyTexts(reps, << >>) /\ TextsBeforeLast(reps, << >>)
<1>1. 1..Len(<< >>) = {}
  OBVIOUS
<1> QED BY <1>1 DEF Sound, Genuine, Onward, Backward, Ordered, OnlyTexts, TextsBeforeLast

LEMMA AskStep ==
  ASSUME WireInv, NEW c \in Calls, Ask(c)
  PROVE  WireInv' /\ Results'
<1>1. /\ replies \in Seq(Reply) /\ stream \in Seq(Cell) /\ cooked \in Seq(Cell) /\ Len(replies) \in Nat
      /\ pc = "idle" /\ Len(replies) < MaxQueries /\ msg = << >>
  BY LenProperties DEF WireInv, TypeOK, Ask
<1>2. PICK r : /\ r \in Reply /\ r \in RepliesTo(c) /\ replies' = Append(replies, r)
               /\ stream' = stream \o Cells(Len(replies) + 1, r)
  BY DEF Ask, RepliesTo
<1>3. /\ call' = c /\ answer' = Unanswered /\ pc' = IF c = "block" THEN "block" ELSE "text"
      /\ cooked' = IF c = "block" THEN << >> ELSE cooked
      /\ msg' = msg /\ late' = late /\ torn' = torn
  BY DEF Ask, past
<1>4. PICK new \in 1..MaxQueries : new = Len(replies) + 1
  BY <1>1, BoundAssumption
<1>5. /\ replies' \in Seq(Reply) /\ Len(replies') = new /\ replies'[new] = r
  BY <1>1, <1>2, <1>4, AppendProperties
<1>6. PICK t \in Seq(Cell) : t = Cells(new, r)
  BY <1>2, <1>4, ReplyCells
<1>7. stream' = stream \o t /\ stream' \in Seq(Cell)
  BY <1>1, <1>2, <1>4, <1>6, ConcatProperties
<1>8. TypeOK'
  <2>1. answer' \in [status : {"none", "ok", "default", "error"}, cells : Seq(Cell)]
    BY <1>3, EmptySeq DEF Unanswered
  <2>2. << >> \in Seq(Cell) /\ new <= MaxQueries
    BY <1>4, EmptySeq, BoundAssumption
  <2>3. cooked' \in Seq(Cell) /\ msg' = << >> /\ msg' \in Seq(Cell)
    BY <1>1, <1>3, <2>2
  <2>4. pc' \in {"idle", "text", "block"} /\ call' \in Calls
    BY <1>3
  <2>5. late' \in BOOLEAN /\ torn' \in BOOLEAN
    BY <1>3 DEF WireInv, TypeOK
  <2> QED BY <1>5, <1>7, <2>1, <2>2, <2>3, <2>4, <2>5 DEF TypeOK
<1>9. Sound(replies, cooked \o stream) /\ (~torn => OnlyTexts(replies, cooked \o stream))
  BY <1>1 DEF WireInv, SoundWire, Quiet, Wire
<1>10. PICK held : /\ held = (IF c = "block" THEN << >> ELSE cooked) /\ held \in Seq(Cell)
                   /\ Sound(replies, held \o stream)
                   /\ ~torn => OnlyTexts(replies, held \o stream)
  <2>1. Sound(replies, << >> \o stream) /\ (~torn => OnlyTexts(replies, << >> \o stream))
    BY <1>1, <1>9, DropAll
  <2> QED BY <1>1, <1>9, <2>1, EmptySeq
<1>11. held \o stream \in Seq(Cell) /\ Wire' = (held \o stream) \o t
  <2>1. Wire' = held \o (stream \o t)
    BY <1>1, <1>3, <1>7, <1>10 DEF Wire
  <2>2. held \o (stream \o t) = (held \o stream) \o t
    <3>1. held \in Seq(Cell) /\ stream \in Seq(Cell) /\ t \in Seq(Cell)
      BY <1>1, <1>10
    <3> QED BY ONLY <3>1, Regrouped
  <2>3. held \o stream \in Seq(Cell)
    BY <1>1, <1>10, ConcatProperties
  <2> QED BY <2>1, <2>2, <2>3
<1>12. /\ Sound(replies', Wire')
       /\ OnlyTexts(replies, held \o stream) /\ r.kind # "block" => OnlyTexts(replies', Wire')
       /\ OnlyTexts(replies, held \o stream) => TextsBeforeLast(replies', Wire')
  <2>1. PICK s \in Seq(Cell) : s = held \o stream /\ Sound(replies, s) /\ Wire' = s \o t
    BY <1>10, <1>11
  <2>2. PICK reps \in Seq(Reply) : reps = replies
    BY <1>1
  <2>3. LET more == Append(reps, r)
            longer == s \o Cells(Len(reps) + 1, r)
        IN  /\ Sound(more, longer)
            /\ OnlyTexts(reps, s) /\ r.kind # "block" => OnlyTexts(more, longer)
            /\ OnlyTexts(reps, s) => TextsBeforeLast(more, longer)
    BY <1>1, <1>2, <2>1, <2>2, AppendSound
  <2> QED BY <1>2, <1>4, <1>6, <2>1, <2>2, <2>3
<1>13. SoundWire' /\ Buffers' /\ InCall'
  <2>1. SoundWire'
    BY <1>12 DEF SoundWire
  <2>2. Buffers'
    BY <1>1, <1>3 DEF Buffers
  <2>3. r \in RepliesTo(call') /\ (pc' = "block" <=> call' = "block") /\ answer'.status = "none"
    BY <1>2, <1>3 DEF Unanswered
  <2>4. Len(replies') >= 1 /\ replies'[Len(replies')] = r
    BY <1>4, <1>5
  <2> QED BY <2>1, <2>2, <2>3, <2>4 DEF InCall, RepliesTo
<1>14. Quiet'
  <2>1. c # "block" => r.kind # "block"
    BY <1>2 DEF RepliesTo, Calls
  <2> QED BY <1>3, <1>10, <1>12, <2>1 DEF Quiet
<1>15. Fresh'
  <2>1. pc' # "idle"
    BY <1>3
  <2>2. ASSUME ~torn', ~late', pc' = "text" PROVE Wire' = Cells(Len(replies'), replies'[Len(replies')])
    <3>1. c # "block" /\ ~torn /\ ~late
      BY <1>3, <2>2
    <3>2. held \o stream = << >>
      BY <1>1, <1>10, <3>1 DEF WireInv, Fresh, Wire
    <3>3. Wire' = t
      BY <1>11, <3>2, ConcatProperties, EmptySeq
    <3> QED BY <1>5, <1>6, <3>3
  <2> QED BY <2>1, <2>2 DEF Fresh
<1>16. Results'
  BY <1>3 DEF Results, OwnBlock, OwnText, OneText, WholeBlock, Answered, Unanswered
<1> QED BY <1>8, <1>13, <1>14, <1>15, <1>16 DEF WireInv

LEMMA ReceiveStep ==
  ASSUME WireInv, Receive
  PROVE  WireInv' /\ Results'
<1>1. /\ replies \in Seq(Reply) /\ stream \in Seq(Cell) /\ cooked \in Seq(Cell)
      /\ pc = "text" /\ answer.status = "none"
  BY DEF WireInv, TypeOK, InCall, Receive
<1>2. PICK n \in 1..Len(stream) : /\ stream' = SubSeq(stream, n + 1, Len(stream))
                                  /\ cooked' = cooked \o Taken(n)
  BY DEF Receive, Recv
<1>3. /\ replies' = replies /\ pc' = pc /\ call' = call /\ msg' = msg
      /\ late' = late /\ torn' = torn /\ answer' = answer
  BY DEF Receive, Recv, past
<1>4. stream' \in Seq(Cell) /\ cooked' \in Seq(Cell) /\ cooked' \o stream' = cooked \o stream
  BY <1>1, <1>2, RecvCells
<1>5. Wire' = Wire
  BY <1>1, <1>3, <1>4 DEF Wire
<1>6. TypeOK'
  BY <1>3, <1>4 DEF WireInv, TypeOK
<1>7. SoundWire' /\ Quiet' /\ Fresh'
  BY <1>3, <1>5 DEF WireInv, SoundWire, Quiet, Fresh
<1>8. Buffers' /\ InCall'
  BY <1>1, <1>3 DEF WireInv, Buffers, InCall, RepliesTo
<1>9. Results'
  BY <1>1, <1>3 DEF Results, OwnBlock, OwnText, OneText, WholeBlock, Answered
<1> QED BY <1>6, <1>7, <1>8, <1>9 DEF WireInv

LEMMA ContentSame ==
  ASSUME replies' = replies, NEW q
  PROVE  Content(q)' = Content(q)
BY DEF Content

(* What a text read returned is a part of a reply that is a text. *)
LEMMA TextResults ==
  ASSUME WireInv, pc = "text", replies' = replies, call' = call,
         (answer'.status = "ok" /\ ~torn') =>
            \E q \in 1..Len(replies) : replies[q].kind # "block" /\ PartOf(answer'.cells, Content(q)),
         (~torn' /\ ~late') => answer' = [status |-> "ok", cells |-> Content(Len(replies))]
  PROVE  Results'
<1>1. call # "block" /\ call' # "block"
  BY DEF WireInv, InCall
<1>2. OwnBlock' /\ WholeBlock'
  BY <1>1 DEF OwnBlock, WholeBlock
<1>3. OwnText'
  <2>1. PICK last : last = Len(replies) /\ Len(replies') = last
    OBVIOUS
  <2>2. Content(last)' = Content(last)
    BY ContentSame
  <2>3. Content(Len(replies))' = Content(Len(replies))
    BY <2>1, <2>2 DEF Content
  <2> QED BY <2>3 DEF OwnText
<1>4. OneText'
  <2> SUFFICES ASSUME answer'.status = "ok", ~torn'
               PROVE  \E q \in 1..Len(replies') :
                        replies'[q].kind # "block" /\ PartOf(answer'.cells, Content(q)')
    BY DEF OneText, PartOf
  <2>1. PICK q \in 1..Len(replies) : replies[q].kind # "block" /\ PartOf(answer'.cells, Content(q))
    OBVIOUS
  <2>2. Content(q)' = Content(q)
    BY ContentSame
  <2> QED BY <2>1, <2>2
<1> QED BY <1>2, <1>3, <1>4 DEF Results

LEMMA TakeLineStep ==
  ASSUME WireInv, TakeLine
  PROVE  WireInv' /\ Results'
<1>1. /\ replies \in Seq(Reply) /\ stream \in Seq(Cell) /\ cooked \in Seq(Cell)
      /\ Len(replies) <= MaxQueries
      /\ pc = "text" /\ call \in Calls /\ Len(replies) >= 1 /\ Len(replies) \in Nat
      /\ replies[Len(replies)] \in RepliesTo(call) /\ call # "block"
      /\ At(cooked, "newline") # {} /\ Wire = cooked \o stream
  BY LenProperties DEF WireInv, TypeOK, InCall, TakeLine, Wire
<1>2. PICK e : e = FirstOf(At(cooked, "newline"))
  OBVIOUS
<1>3. /\ e \in 1..Len(cooked) /\ cooked[e].char = "newline"
      /\ \A i \in 1..Len(cooked) : cooked[i].char = "newline" => e <= i
  BY <1>1, <1>2, FirstAt
<1>4. /\ Text(SubSeq(cooked, 1, e - 1)) /\ cooked' = SubSeq(cooked, e + 1, Len(cooked))
      /\ replies' = replies /\ stream' = stream /\ call' = call /\ late' = late /\ torn' = torn
  BY <1>2 DEF TakeLine, link, past
<1>5. /\ Len(cooked) \in Nat /\ e \in Nat \ {0} /\ e - 1 \in Nat /\ e - 1 <= Len(cooked)
      /\ e - 1 \in 0..Len(cooked) /\ e \in 0..Len(cooked) /\ e + 1 \in Nat \ {0} /\ 1 \in Nat \ {0}
      /\ Len(cooked) <= Len(cooked) /\ cooked # << >>
  BY <1>1, <1>3, LenProperties, EmptySeq
<1>6. PICK t \in Seq(Cell) : t = SubSeq(cooked, 1, e - 1)
  BY <1>1, <1>5, Sliced
<1>7. Text(t)
  BY <1>4, <1>6
<1>8. /\ pc' = "idle" /\ msg' = << >>
      /\ answer' \in [status : {"none", "ok", "default", "error"}, cells : Seq(Cell)]
      /\ answer'.status = "ok" => answer'.cells = t
      /\ call = "text" \/ Numeric(t) = {TRUE} => answer' = [status |-> "ok", cells |-> t]
  BY <1>1, <1>7, TextAnswer
<1>9. TypeOK'
  <2>1. cooked' \in Seq(Cell)
    BY <1>1, <1>4, <1>5, Sliced
  <2>2. msg' \in Seq(Cell)
    BY <1>8, EmptySeq
  <2> QED BY <1>4, <1>8, <2>1, <2>2 DEF WireInv, TypeOK
<1>10. PICK left \in Seq(Cell) :
         /\ left = cooked' \o stream' /\ Sound(replies, left) /\ Len(left) = Len(Wire) - e
         /\ OnlyTexts(replies, Wire) => OnlyTexts(replies, left)
  <2>1. Sound(replies, cooked \o stream)
    BY <1>1 DEF WireInv, SoundWire
  <2>2. LET rest == SubSeq(cooked, e + 1, Len(cooked)) \o stream
        IN  /\ rest \in Seq(Cell) /\ Sound(replies, rest)
            /\ Len(rest) = Len(cooked \o stream) - e
            /\ \A i \in 1..Len(rest) : rest[i] = (cooked \o stream)[i + e]
            /\ OnlyTexts(replies, cooked \o stream) => OnlyTexts(replies, rest)
    BY <1>1, <1>5, <2>1, DropHeld
  <2> QED BY <1>1, <1>4, <2>2
<1>11. Wire' = left
  BY <1>8, <1>10 DEF Wire
<1>12. SoundWire' /\ Quiet' /\ Buffers' /\ InCall'
  <2>1. SoundWire'
    BY <1>4, <1>10, <1>11 DEF SoundWire
  <2>2. Quiet'
    BY <1>1, <1>4, <1>8, <1>10, <1>11 DEF WireInv, Quiet
  <2>3. Buffers' /\ InCall'
    BY <1>8 DEF Buffers, InCall
  <2> QED BY <2>1, <2>2, <2>3
<1>13. ASSUME ~torn, ~late
       PROVE  Len(Wire) = 3 /\ e = 3 /\ answer' = [status |-> "ok", cells |-> Content(Len(replies))]
  <2>1. PICK last \in 1..Len(replies) : last = Len(replies)
    BY <1>1
  <2>2. /\ replies[last] \in RepliesTo(call) /\ replies[last].kind # "block"
        /\ call \in {"number", "default"} => replies[last].kind \in {"none", "number"}
    BY <1>1, <2>1 DEF RepliesTo, Calls
  <2>3. cooked \o stream = Cells(last, replies[last])
    BY <1>1, <1>13, <2>1 DEF WireInv, Fresh
  <2>4. /\ replies[last].kind \in {"word", "number"} /\ e = 3 /\ Len(cooked \o stream) = 3
        /\ SubSeq(cooked, 1, e - 1) = Content(last) /\ Len(SubSeq(cooked, 1, e - 1)) = 2
        /\ SubSeq(cooked, 1, e - 1)[1].query = last /\ SubSeq(cooked, 1, e - 1)[2].query = last
    <3>1. PICK a \in Seq(Cell), b \in Seq(Cell) : a = cooked /\ b = stream
      BY <1>1
    <3>2. /\ replies \in Seq(Reply) /\ Len(replies) <= MaxQueries
          /\ replies[last].kind # "block" /\ a \o b = Cells(last, replies[last])
          /\ e \in 1..Len(a) /\ a[e].char = "newline"
      BY <1>1, <1>3, <2>2, <2>3, <3>1
    <3>3. /\ replies[last].kind \in {"word", "number"} /\ e = 3 /\ Len(a \o b) = 3
          /\ SubSeq(a, 1, 2) = Content(last) /\ Len(SubSeq(a, 1, 2)) = 2
          /\ SubSeq(a, 1, 2)[1].query = last /\ SubSeq(a, 1, 2)[2].query = last
      BY <3>2, OwnLine
    <3>4. e - 1 = 2
      BY <3>3
    <3> QED BY <3>1, <3>3, <3>4
  <2>5. t = Content(last) /\ Len(t) = 2 /\ \A i \in 1..2 : t[i].query = last
    BY <1>6, <2>4
  <2>6. call = "text" \/ Numeric(t) = {TRUE}
    <3> SUFFICES ASSUME call # "text" PROVE Numeric(t) = {TRUE}
      OBVIOUS
    <3>1. replies[last].kind = "number"
      BY <1>1, <2>2, <2>4 DEF Calls
    <3>2. \A i \in 1..2 : replies[t[i].query].kind = "number"
      BY <2>5, <3>1
    <3>3. t # << >> /\ 1 \in DOMAIN t /\ replies[t[1].query].kind # "word"
      BY <2>5, <3>2, EmptySeq
    <3> QED BY <2>5, <3>2, <3>3 DEF Numeric
  <2> QED BY <1>1, <1>8, <2>1, <2>4, <2>5, <2>6
<1>14. Fresh'
  <2>1. ASSUME ~torn, ~late PROVE left = << >>
    <3>1. Len(Wire) = 3 /\ e = 3
      BY <1>13, <2>1
    <3>2. Len(left) = 0
      BY <1>10, <3>1
    <3> QED BY <3>2, EmptySeq
  <2> QED BY <1>4, <1>8, <1>11, <2>1 DEF Fresh
<1>15. Results'
  <2>1. ASSUME ~torn
        PROVE  \E q \in 1..Len(replies) : replies[q].kind # "block" /\ PartOf(t, Content(q))
    <3>1. Sound(replies, cooked \o stream) /\ OnlyTexts(replies, cooked \o stream)
      BY <1>1, <2>1 DEF WireInv, SoundWire, Quiet
    <3>2. \A i \in 1..(e - 1) : cooked[i].char # "newline"
      <4>1. \A i \in 1..(e - 1) : i \in 1..Len(cooked) /\ ~(e <= i)
        BY <1>5
      <4> QED BY <1>3, <4>1
    <3>3. \E q \in 1..Len(replies) :
            replies[q].kind # "block" /\ PartOf(SubSeq(cooked, 1, e - 1), Content(q))
      BY <1>1, <1>5, <3>1, <3>2, TextPart
    <3> QED BY <1>6, <3>3
  <2>2. /\ (answer'.status = "ok" /\ ~torn') =>
             \E q \in 1..Len(replies) : replies[q].kind # "block" /\ PartOf(answer'.cells, Content(q))
        /\ (~torn' /\ ~late') => answer' = [status |-> "ok", cells |-> Content(Len(replies))]
    BY <1>4, <1>8, <1>13, <2>1
  <2> QED BY <1>1, <1>4, <2>2, TextResults
<1> QED BY <1>9, <1>12, <1>14, <1>15 DEF WireInv

LEMMA TextTimesOutStep ==
  ASSUME WireInv, TextTimesOut
  PROVE  WireInv' /\ Results'
<1>1. /\ replies \in Seq(Reply) /\ stream \in Seq(Cell) /\ cooked \in Seq(Cell)
      /\ Len(replies) <= MaxQueries
      /\ pc = "text" /\ call \in Calls /\ At(cooked, "newline") = {} /\ Wire = cooked \o stream
  BY DEF WireInv, TypeOK, InCall, TextTimesOut, Wire
<1>2. /\ IF cooked = << >> THEN NoText ELSE Text(cooked)
      /\ cooked' = << >> /\ late' = TRUE
      /\ replies' = replies /\ stream' = stream /\ call' = call /\ torn' = torn
  BY DEF TextTimesOut, link
<1>3. /\ pc' = "idle" /\ msg' = << >>
      /\ answer' \in [status : {"none", "ok", "default", "error"}, cells : Seq(Cell)]
      /\ answer'.status = "ok" => cooked # << >> /\ answer'.cells = cooked
  <2>1. CASE cooked # << >>
    BY <1>1, <1>2, <2>1, TextAnswer
  <2>2. CASE cooked = << >>
    <3>1. NoText /\ << >> \in Seq(Cell)
      BY <1>2, <2>2, EmptySeq
    <3>2. /\ pc' = "idle" /\ msg' = << >>
          /\ answer' \in [status : {"none", "ok", "default", "error"}, cells : Seq(Cell)]
      BY <1>1, <3>1, TextAnswer
    <3>3. answer'.status # "ok"
      BY <3>1 DEF NoText, Answer
    <3> QED BY <3>2, <3>3
  <2> QED BY <2>1, <2>2
<1>4. TypeOK'
  <2>1. cooked' \in Seq(Cell) /\ msg' \in Seq(Cell)
    BY <1>2, <1>3, EmptySeq
  <2> QED BY <1>2, <1>3, <2>1 DEF WireInv, TypeOK
<1>5. Sound(replies, cooked \o stream) /\ (~torn => OnlyTexts(replies, cooked \o stream))
  BY <1>1 DEF WireInv, SoundWire, Quiet
<1>6. Sound(replies, << >> \o stream) /\ (~torn => OnlyTexts(replies, << >> \o stream))
  BY <1>1, <1>5, DropAll
<1>7. Wire' = << >> \o stream
  BY <1>2, <1>3 DEF Wire
<1>8. SoundWire' /\ Quiet' /\ Fresh'
  BY <1>2, <1>3, <1>6, <1>7 DEF SoundWire, Quiet, Fresh
<1>9. Buffers' /\ InCall'
  BY <1>3 DEF Buffers, InCall
<1>10. Results'
  <2>1. ASSUME ~torn, cooked # << >>
        PROVE  \E q \in 1..Len(replies) : replies[q].kind # "block" /\ PartOf(cooked, Content(q))
    <3>1. PICK m \in 0..Len(cooked) : m = Len(cooked)
      BY <1>1, LenProperties
    <3>2. \A i \in 1..m : cooked[i].char # "newline"
      BY <1>1, <3>1 DEF At
    <3>3. \E q \in 1..Len(replies) :
            replies[q].kind # "block" /\ PartOf(SubSeq(cooked, 1, m), Content(q))
      BY <1>1, <1>5, <2>1, <3>2, TextPart
    <3>4. SubSeq(cooked, 1, m) = cooked
      <4>1. 1 \in Nat \ {0} /\ m \in Nat /\ m <= Len(cooked)
        BY <1>1, <3>1, LenProperties
      <4>2. /\ SubSeq(cooked, 1, m) \in Seq(Cell)
            /\ Len(SubSeq(cooked, 1, m)) = IF 1 <= m THEN m - 1 + 1 ELSE 0
            /\ \A i \in 1..(m - 1 + 1) : SubSeq(cooked, 1, m)[i] = cooked[1 + i - 1]
        BY <1>1, <4>1, Sliced
      <4>3. /\ Len(SubSeq(cooked, 1, m)) = Len(cooked)
            /\ \A i \in 1..Len(cooked) : i \in 1..(m - 1 + 1) /\ 1 + i - 1 = i
        BY <3>1, <4>1, <4>2
      <4>4. \A i \in 1..Len(cooked) : SubSeq(cooked, 1, m)[i] = cooked[i]
        BY <4>2, <4>3
      <4> QED BY <1>1, <4>2, <4>3, <4>4, SeqEqual
    <3> QED BY <3>3, <3>4
  <2>2. /\ (answer'.status = "ok" /\ ~torn') =>
             \E q \in 1..Len(replies) : replies[q].kind # "block" /\ PartOf(answer'.cells, Content(q))
        /\ (~torn' /\ ~late') => answer' = [status |-> "ok", cells |-> Content(Len(replies))]
    BY <1>2, <1>3, <2>1
  <2> QED BY <1>1, <1>2, <2>2, TextResults
<1> QED BY <1>4, <1>8, <1>9, <1>10 DEF WireInv

LEMMA ReceiveBlockStep ==
  ASSUME WireInv, ReceiveBlock
  PROVE  WireInv' /\ Results'
<1>1. /\ replies \in Seq(Reply) /\ stream \in Seq(Cell) /\ msg \in Seq(Cell) /\ cooked = << >>
      /\ Len(replies) <= MaxQueries
      /\ pc = "block" /\ call = "block" /\ answer.status = "none" /\ Wire = msg \o stream
  BY DEF WireInv, TypeOK, Buffers, InCall, ReceiveBlock, Wire
<1>2. PICK n \in 1..Len(stream) :
        LET response == Aligned(msg, Taken(n))
        IN  /\ Recv(n)
            /\ IF Complete(response)
                 THEN Block(response) /\ late' = FALSE
                 ELSE msg' = response /\ UNCHANGED <<pc, late, answer>>
  BY DEF ReceiveBlock
<1>3. PICK r : r = Aligned(msg, Taken(n))
  OBVIOUS
<1>4. /\ stream' = SubSeq(stream, n + 1, Len(stream)) /\ replies' = replies
      /\ cooked' = cooked /\ call' = call /\ torn' = torn
      /\ Complete(r) => Block(r) /\ late' = FALSE
      /\ ~Complete(r) => msg' = r /\ pc' = pc /\ late' = late /\ answer' = answer
  BY <1>2, <1>3 DEF ReceiveBlock, Recv
<1>5. PICK a \in Seq(Cell), b \in Seq(Cell) :
        a = msg \o Taken(n) /\ b = stream' /\ a \o b = Wire
  BY <1>1, <1>4, RecvCells
<1>6. /\ Sound(replies, a \o b) /\ (~torn => TextsBeforeLast(replies, a \o b))
  BY <1>1, <1>5 DEF WireInv, SoundWire, Quiet
<1>7. /\ r \in Seq(Cell) /\ r \o b \in Seq(Cell) /\ Sound(replies, r \o b)
      /\ ~torn => TextsBeforeLast(replies, r \o b) /\ FromStart(replies, r)
  <2>m. PICK m, chunk : m = msg /\ chunk = Taken(n)
    OBVIOUS
  <2>1. PICK reps \in Seq(Reply) : reps = replies
    BY <1>1
  <2>2. /\ r \in Seq(Cell) /\ r \o b \in Seq(Cell) /\ Sound(reps, r \o b)
        /\ TextsBeforeLast(reps, a \o b) => TextsBeforeLast(reps, r \o b) /\ FromStart(reps, r)
    <3>1. a = m \o chunk /\ Sound(reps, a \o b) /\ r = Aligned(m, chunk)
      BY <1>3, <1>5, <1>6, <2>m, <2>1
    <3>2. r \in Seq(Cell) /\ r \o b \in Seq(Cell) /\ Sound(reps, r \o b)
      BY <3>1, AlignedSound
    <3>3. TextsBeforeLast(reps, a \o b) => TextsBeforeLast(reps, r \o b) /\ FromStart(reps, r)
      BY <3>1, AlignedSound
    <3> QED BY <3>2, <3>3
  <2> QED BY <1>3, <1>6, <2>1, <2>2
<1>8. /\ stream' \in Seq(Cell) /\ cooked' = << >>
  BY <1>1, <1>4, <1>5
<1>9. CASE ~Complete(r)
  <2>1. Wire' = r \o b /\ pc' = "block"
    BY <1>1, <1>4, <1>5, <1>9 DEF Wire
  <2>2. TypeOK'
    BY <1>4, <1>7, <1>8, <1>9, <2>1 DEF WireInv, TypeOK
  <2>3. SoundWire' /\ Quiet' /\ Fresh'
    BY <1>4, <1>7, <2>1 DEF SoundWire, Quiet, Fresh
  <2>4. Buffers'
    BY <1>8 DEF Buffers
  <2>5. InCall'
    BY <1>1, <1>4, <1>9, <2>1 DEF WireInv, InCall, RepliesTo
  <2>6. Results'
    BY <1>1, <1>4, <1>9 DEF Results, OwnBlock, OwnText, OneText, WholeBlock, Answered
  <2> QED BY <2>2, <2>3, <2>4, <2>5, <2>6 DEF WireInv
<1>10. CASE Complete(r)
  <2>1. /\ Len(r) \in Nat /\ Len(r) >= 2 /\ r[1].char = "hash" /\ r # << >>
        /\ 1 \in 1..Len(r) /\ 2 \in 1..Len(r)
    <3>1. Len(r) \in Nat /\ Len(r) >= 2 /\ r[1].char = "hash"
      BY <1>7, <1>10, LenProperties DEF Complete, HasHeader
    <3> QED BY <3>1, EmptySeq
  <2>2. /\ \A i \in 1..Len(r) : (r \o b)[i] = r[i] /\ i \in 1..Len(r \o b)
    BY <1>7, Held
  <2>3. r[1].query \in 1..Len(replies) /\ r[2].query \in 1..Len(replies) /\ r[2] \in Cell
    <3>1. PICK s \in Seq(Cell) : s = r \o b
      BY <1>7
    <3>2. 1 \in 1..Len(s) /\ 2 \in 1..Len(s) /\ s[1] = r[1] /\ s[2] = r[2] /\ Sound(replies, s)
      BY <1>7, <2>1, <2>2, <3>1
    <3>3. s[1].query \in 1..Len(replies)
      BY <1>1, <3>2, WireCell
    <3>4. s[2].query \in 1..Len(replies)
      BY <1>1, <3>2, WireCell
    <3> QED BY <3>2, <3>3, <3>4, ElementOfSeq
  <2>4. Declared(r[2]) \in Nat
    BY <1>1, <2>3, DeclaredType
  <2>5. /\ pc' = "idle" /\ msg' = << >>
        /\ answer' \in [status : {"none", "ok", "default", "error"}, cells : Seq(Cell)]
        /\ answer'.status = "ok" => answer'.cells = SubSeq(r, 3, Total(r) - 1)
        /\ r[Total(r)].char = "newline" /\ Declared(r[2]) > 0 =>
             answer' = [status |-> "ok", cells |-> SubSeq(r, 3, Total(r) - 1)]
        /\ ~(Declared(r[2]) > 0) => answer' = [status |-> "error", cells |-> << >>]
    BY <1>4, <1>7, <1>10, <2>4, BlockAnswer
  <2>6. late' = FALSE /\ Wire' = << >> \o b
    BY <1>4, <1>5, <1>8, <1>10, <2>5 DEF Wire
  <2>7. TypeOK'
    <3>1. cooked' \in Seq(Cell) /\ msg' \in Seq(Cell)
      BY <1>8, <2>5, EmptySeq
    <3> QED BY <1>4, <1>8, <2>5, <2>6, <3>1 DEF WireInv, TypeOK
  <2>8. Sound(replies, << >> \o b)
    BY <1>1, <1>7, DropAll
  <2>9. ASSUME r[1].pos = 1
        PROVE  /\ replies[r[1].query].kind = "block"
               /\ Declared(r[2]) = Len(Content(r[1].query)) /\ r[Total(r)].char = "newline"
               /\ SubSeq(r, 3, Total(r) - 1) = Content(r[1].query)
               /\ r[1].query = Len(replies) => b = << >>
    BY <1>1, <1>7, <1>10, <2>9, BlockRead
  <2>10. ASSUME ~torn PROVE r[1].pos = 1 /\ r[1].query = Len(replies) /\ Wire' = << >>
    <3>1. r[1].pos = 1 /\ r[1].query = Len(replies)
      BY <1>7, <2>1, <2>10 DEF FromStart
    <3>2. b = << >>
      BY <2>9, <3>1
    <3> QED BY <2>6, <3>1, <3>2
  <2>11. SoundWire' /\ Quiet' /\ Fresh'
    <3>1. OnlyTexts(replies, << >>)
      BY EmptyWire
    <3> QED BY <1>4, <2>5, <2>6, <2>8, <2>10, <3>1 DEF SoundWire, Quiet, Fresh
  <2>12. Buffers' /\ InCall'
    BY <2>5 DEF Buffers, InCall
  <2>13. OwnBlock'
    <3> SUFFICES ASSUME ~torn
                 PROVE  LET data == Content(Len(replies))'
                        IN  answer' = [status |-> IF data = << >> THEN "error" ELSE "ok",
                                       cells |-> data]
      BY <1>4 DEF OwnBlock
    <3>1. PICK q : q = Len(replies)
      OBVIOUS
    <3>2. Content(Len(replies))' = Content(q)
      BY <1>4, <3>1 DEF Content
    <3>3. /\ Declared(r[2]) = Len(Content(q)) /\ r[Total(r)].char = "newline"
          /\ SubSeq(r, 3, Total(r) - 1) = Content(q)
      BY <2>9, <2>10, <3>1
    <3>4. Len(Content(q)) \in Nat
      BY <2>4, <3>3
    <3>5. CASE Len(Content(q)) > 0
      <4>1. Content(q) # << >>
        BY <3>5
      <4> QED BY <2>5, <3>2, <3>3, <3>5, <4>1
    <3>6. CASE Len(Content(q)) = 0
      <4>1. Content(q) \in Seq(Cell)
        <5>1. Len(r) >= Total(r) /\ Total(r) = 3
          BY <1>10, <3>3, <3>6 DEF Complete, Total
        <5>2. 3 \in Nat \ {0} /\ Total(r) - 1 \in Nat /\ Total(r) - 1 <= Len(r)
          BY <2>1, <5>1
        <5>3. SubSeq(r, 3, Total(r) - 1) \in Seq(Cell)
          BY <1>7, <5>2, Sliced
        <5> QED BY <3>3, <5>3
      <4>2. Content(q) = << >>
        BY <3>6, <4>1, EmptySeq
      <4> QED BY <2>5, <3>2, <3>3, <3>6, <4>2
    <3> QED BY <3>4, <3>5, <3>6
  <2>14. OwnText' /\ OneText'
    BY <1>1, <1>4 DEF OwnText, OneText
  <2>15. WholeBlock'
    <3> SUFFICES ASSUME answer'.status = "ok",
                        \A q \in 1..Len(replies') :
                          \A i \in DOMAIN replies'[q].data : replies'[q].data[i] # "hash"
                 PROVE  \E q \in 1..Len(replies') :
                          replies'[q].kind = "block" /\ answer'.cells = Content(q)'
      BY DEF WholeBlock
    <3>1. PICK q \in 1..Len(replies) : q = r[1].query
      BY <2>3
    <3>2. r[1].pos = 1
      <4>1. PICK s \in Seq(Cell) : s = r \o b
        BY <1>7
      <4>2. 1 \in 1..Len(s) /\ s[1] = r[1] /\ Sound(replies, s) /\ s[1].char = "hash"
        BY <1>7, <2>1, <2>2, <4>1
      <4>3. /\ IsText(replies, s[1].query) => s[1].char # "hash"
            /\ ~IsText(replies, s[1].query) =>
                 \/ s[1].pos = 1
                 \/ \E k \in 1..Len(replies[s[1].query].data) : replies[s[1].query].data[k] = "hash"
        BY <1>1, <4>2, WireCell
      <4>4. replies[q].data \in Seq(Chars)
        <5>1. replies[q] \in Reply
          BY <1>1, ElementOfSeq
        <5> QED BY <5>1, ReplyTypes
      <4>5. \A i \in 1..Len(replies[q].data) : replies[q].data[i] # "hash"
        BY <1>4, <4>4
      <4> QED BY <3>1, <4>2, <4>3, <4>5
    <3>3. replies[q].kind = "block" /\ SubSeq(r, 3, Total(r) - 1) = Content(q)
      BY <2>9, <3>1, <3>2
    <3>4. Content(q)' = Content(q)
      BY <1>4, ContentSame
    <3> QED BY <1>4, <2>5, <3>3, <3>4
  <2> QED BY <2>7, <2>11, <2>12, <2>13, <2>14, <2>15 DEF WireInv, Results
<1> QED BY <1>9, <1>10

LEMMA BlockTimesOutStep ==
  ASSUME WireInv, BlockTimesOut
  PROVE  WireInv' /\ Results'
<1>1. /\ replies \in Seq(Reply) /\ stream \in Seq(Cell) /\ msg \in Seq(Cell) /\ cooked = << >>
      /\ pc = "block" /\ call = "block" /\ Wire = msg \o stream
  BY DEF WireInv, TypeOK, Buffers, InCall, BlockTimesOut, Wire
<1>2. /\ pc' = "idle" /\ msg' = << >> /\ answer' = [status |-> "error", cells |-> << >>]
      /\ torn' = TRUE /\ replies' = replies /\ stream' = stream /\ cooked' = cooked
      /\ call' = call /\ late' = late
  BY DEF BlockTimesOut, Answer, link
<1>3. TypeOK'
  <2>1. << >> \in Seq(Cell)
    BY EmptySeq
  <2> QED BY <1>2, <2>1 DEF WireInv, TypeOK
<1>4. Wire' = << >> \o stream /\ Sound(replies, << >> \o stream)
  <2>1. Sound(replies, msg \o stream)
    BY <1>1 DEF WireInv, SoundWire
  <2> QED BY <1>1, <1>2, <2>1, DropAll DEF Wire
<1>5. SoundWire' /\ Quiet' /\ Fresh' /\ Buffers' /\ InCall'
  BY <1>2, <1>4 DEF SoundWire, Quiet, Fresh, Buffers, InCall
<1>6. Results'
  BY <1>1, <1>2 DEF Results, OwnBlock, OwnText, OneText, WholeBlock
<1> QED BY <1>3, <1>5, <1>6 DEF WireInv

LEMMA NewConnection ==
  ASSUME replies' = << >>, stream' = << >>, cooked' = << >>, pc' = "idle", msg' = << >>,
         late' = FALSE, torn' = FALSE, call' \in Calls, answer' = Unanswered
  PROVE  WireInv' /\ Results'
<1>1. << >> \in Seq(Cell) /\ << >> \in Seq(Reply) /\ Len(<< >>) = 0 /\ 0 <= MaxQueries
  BY EmptySeq, BoundAssumption
<1>2. TypeOK'
  BY <1>1 DEF TypeOK, Unanswered
<1>3. Wire' = << >>
  <2>1. << >> \o << >> = << >>
    BY EmptySeq, ConcatProperties
  <2> QED BY <2>1 DEF Wire
<1>4. Sound(<< >>, << >>) /\ OnlyTexts(<< >>, << >>)
  BY EmptyWire
<1>5. SoundWire' /\ Quiet' /\ Fresh' /\ Buffers' /\ InCall'
  BY <1>3, <1>4 DEF SoundWire, Quiet, Fresh, Buffers, InCall
<1>6. Results'
  BY DEF Results, OwnBlock, OwnText, OneText, WholeBlock, Answered, Unanswered
<1> QED BY <1>2, <1>5, <1>6 DEF WireInv

----------------------------------------------------------------------------
LEMMA InitWire == Init => WireInv /\ Results
<1> SUFFICES ASSUME Init PROVE WireInv /\ Results
  OBVIOUS
<1>1. << >> \in Seq(Cell) /\ << >> \in Seq(Reply) /\ Len(<< >>) = 0 /\ 0 <= MaxQueries
  BY EmptySeq, BoundAssumption
<1>2. TypeOK
  BY <1>1 DEF Init, TypeOK, Calls, Unanswered
<1>3. Wire = << >>
  <2>1. << >> \o << >> = << >>
    BY EmptySeq, ConcatProperties
  <2> QED BY <2>1 DEF Init, Wire
<1>4. Sound(replies, << >>) /\ OnlyTexts(replies, << >>)
  BY EmptyWire
<1>5. SoundWire /\ Quiet /\ Fresh /\ Buffers /\ InCall
  BY <1>3, <1>4 DEF Init, SoundWire, Quiet, Fresh, Buffers, InCall
<1>6. Results
  BY DEF Init, Results, OwnBlock, OwnText, OneText, WholeBlock, Answered, Unanswered
<1> QED BY <1>2, <1>5, <1>6 DEF WireInv

LEMMA WireInductive == WireInv /\ Results /\ [Next]_vars => WireInv' /\ Results'
<1> SUFFICES ASSUME WireInv, Results, [Next]_vars PROVE WireInv' /\ Results'
  OBVIOUS
<1>1. ASSUME NEW c \in Calls, Ask(c) PROVE WireInv' /\ Results'
  BY <1>1, AskStep
<1>2. CASE Receive
  BY <1>2, ReceiveStep
<1>3. CASE TakeLine
  BY <1>3, TakeLineStep
<1>4. CASE TextTimesOut
  BY <1>4, TextTimesOutStep
<1>5. CASE ReceiveBlock
  BY <1>5, ReceiveBlockStep
<1>6. CASE BlockTimesOut
  BY <1>6, BlockTimesOutStep
<1>7. CASE Reconnect
  <2>1. pc = "idle" /\ msg = << >> /\ call \in Calls
    BY <1>7 DEF WireInv, TypeOK, Reconnect
  <2> QED BY <1>7, <2>1, NewConnection DEF Reconnect
<1>8. CASE UNCHANGED vars
  <2>1. /\ replies' = replies /\ stream' = stream /\ cooked' = cooked /\ pc' = pc /\ call' = call
        /\ msg' = msg /\ late' = late /\ torn' = torn /\ answer' = answer
    BY <1>8 DEF vars, link, past
  <2>2. WireInv'
    BY <2>1 DEF WireInv, TypeOK, SoundWire, Wire, Buffers, InCall, RepliesTo, Quiet, Fresh
  <2>3. Results'
    BY <2>1 DEF Results, OwnBlock, OwnText, OneText, WholeBlock, Answered, Content
  <2> QED BY <2>2, <2>3
<1> QED BY <1>1, <1>2, <1>3, <1>4, <1>5, <1>6, <1>7, <1>8 DEF Next, Read

(***************************************************************************)
(* The buffers hold cells, and a response is kept in no other call.        *)
(***************************************************************************)
THEOREM TypeCorrect == Spec => []TypeOK
<1>1. WireInv => TypeOK
  BY DEF WireInv
<1> QED BY <1>1, InitWire, WireInductive, PTL DEF Spec

(***************************************************************************)
(* As long as no block read has given up, the answer to a block query is   *)
(* its own data, whatever the data hold and whatever texts arrive late in  *)
(* front of it (_read_block and command with a block).                     *)
(***************************************************************************)
THEOREM BlocksAreOwn == Spec => []OwnBlock
<1>1. Results => OwnBlock
  BY DEF Results
<1> QED BY <1>1, InitWire, WireInductive, PTL DEF Spec

(***************************************************************************)
(* After a whole block, and until a text read times out, the answer to a   *)
(* text query is its own text, and to a number query its own number.       *)
(***************************************************************************)
THEOREM TextsAreOwn == Spec => []OwnText
<1>1. Results => OwnText
  BY DEF Results
<1> QED BY <1>1, InitWire, WireInductive, PTL DEF Spec

(***************************************************************************)
(* Two texts are never run together, and no text is made of a block, as    *)
(* long as no block read has given up (read_until).                        *)
(***************************************************************************)
THEOREM TextsAreNotMixed == Spec => []OneText
<1>1. Results => OneText
  BY DEF Results
<1> QED BY <1>1, InitWire, WireInductive, PTL DEF Spec

(***************************************************************************)
(* If no data hold a '#', a block that is returned is one whole block of   *)
(* the scope, also after block reads that gave up.                         *)
(***************************************************************************)
THEOREM BlocksAreWhole == Spec => []WholeBlock
<1>1. Results => WholeBlock
  BY DEF Results
<1> QED BY <1>1, InitWire, WireInductive, PTL DEF Spec
=============================================================================
