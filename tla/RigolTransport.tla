--------------------------- MODULE RigolTransport ---------------------------
(***************************************************************************)
(* One query after another over the raw socket of a DHO800: command        *)
(* (src/lab_scopes/transports/rigol_functions.py) on the buffers of the    *)
(* vendored Telnet, and the helpers of RigolDHO800 that call it, _query,   *)
(* _query_float, memory_depth and _read_block.                             *)
(*                                                                         *)
(* The scope answers in order.  When the bytes of an answer arrive is not  *)
(* told apart from when they are read: a recv takes any first part of what *)
(* has been answered, and a read may give up before any of it.  A cell is  *)
(* a byte, or the length field of a block header as one.  The only thing   *)
(* known of a cell is what the code looks for: '#', a length, a newline.   *)
(* Payloads hold any of them.  The IAC bytes that Telnet takes out of a    *)
(* block read as text are left in.                                         *)
(***************************************************************************)
EXTENDS Integers, Sequences

CONSTANTS MaxQueries, \* bound on the queries sent over one connection
          Payloads    \* what the data of a block may be

Chars == {"other", "hash", "length", "newline"}

ASSUME BoundAssumption == MaxQueries \in Nat
ASSUME PayloadAssumption == Payloads \subseteq Seq(Chars)

VARIABLES replies, \* the reply the scope has for each query of this connection
          stream,  \* cells it has answered that no recv has taken
          cooked,  \* Telnet.cookedq
          pc, call, \* where the driver is, and in which call
          msg,     \* response, the block as far as it has been read
          late,    \* a text read has timed out since the last whole block
          torn,    \* a block read has given up
          answer   \* what the last call returned: a status and the cells

link == <<replies, stream>>
past == <<late, torn>>
vars == <<link, cooked, pc, call, msg, past, answer>>

Calls == {"text", "number", "default", "block"}

Reply == [kind : {"word", "number", "none"}, data : {<< >>}]
           \cup [kind : {"block"}, data : Payloads]

(* A query is answered with what it asks for, or ignored. *)
RepliesTo(c) ==
  {r \in Reply : r.kind \in {"none", CASE c = "text"  -> "word"
                                       [] c = "block" -> "block"
                                       [] OTHER       -> "number"}}

(* A text is two bytes and a newline.  The length field says how long the   *)
(* data are; a byte of the data taken for one says some length.             *)
Characters(r) ==
  CASE r.kind = "none"  -> << >>
    [] r.kind = "block" -> <<"hash", "length">> \o r.data \o <<"newline">>
    [] OTHER            -> <<"other", "other", "newline">>

Cells(q, r) ==
  [i \in 1..Len(Characters(r)) |-> [query |-> q, pos |-> i, char |-> Characters(r)[i]]]

Declared(cell) == IF cell.pos = 2 THEN Len(replies[cell.query].data) ELSE 1

Cell == [query : 1..MaxQueries, pos : Nat \ {0}, char : Chars]

TypeOK ==
  /\ replies \in Seq(Reply) /\ Len(replies) <= MaxQueries
  /\ stream \in Seq(Cell)
  /\ cooked \in Seq(Cell)
  /\ pc \in {"idle", "text", "block"}
  /\ call \in Calls
  /\ msg \in Seq(Cell) /\ (pc # "block" => msg = << >>)
  /\ late \in BOOLEAN /\ torn \in BOOLEAN
  /\ answer \in [status : {"none", "ok", "default", "error"}, cells : Seq(Cell)]

Unanswered == [status |-> "none", cells |-> << >>]

(* The connection as the constructor opens it; its first query is *IDN?. *)
Init ==
  /\ replies = << >> /\ stream = << >> /\ cooked = << >>
  /\ pc = "idle" /\ call = "text" /\ msg = << >>
  /\ late = FALSE /\ torn = FALSE
  /\ answer = Unanswered
----------------------------------------------------------------------------
(* Variant: a block read leaves in Telnet's buffers what a text read took. *)
AskUnflushed(c) ==
  /\ pc = "idle" /\ Len(replies) < MaxQueries
  /\ \E r \in RepliesTo(c) :
       /\ replies' = Append(replies, r)
       /\ stream' = stream \o Cells(Len(replies) + 1, r)
  /\ call' = c /\ answer' = Unanswered
  /\ pc' = IF c = "block" THEN "block" ELSE "text"
  /\ UNCHANGED <<cooked, msg, past>>

(* The write of a query.  A block read starts by dropping what Telnet holds. *)
Ask(c) ==
  /\ pc = "idle" /\ Len(replies) < MaxQueries
  /\ \E r \in RepliesTo(c) :
       /\ replies' = Append(replies, r)
       /\ stream' = stream \o Cells(Len(replies) + 1, r)
  /\ call' = c /\ answer' = Unanswered
  /\ pc' = IF c = "block" THEN "block" ELSE "text"
  /\ cooked' = IF c = "block" THEN << >> ELSE cooked
  /\ UNCHANGED <<msg, past>>

Answer(status, cells) ==
  /\ pc' = "idle" /\ msg' = << >>
  /\ answer' = [status |-> status, cells |-> cells]

(* A recv: the first n cells of the stream. *)
Recv(n) == stream' = SubSeq(stream, n + 1, Len(stream)) /\ UNCHANGED replies
Taken(n) == SubSeq(stream, 1, n)

At(s, char) == {i \in 1..Len(s) : s[i].char = char}
FirstOf(I) == CHOOSE i \in I : \A j \in I : i <= j
----------------------------------------------------------------------------
(* Text replies: read_until, and what the helpers make of what it returns. *)

(* float() of a text: certain for a whole number or for no number at all. *)
Numeric(t) ==
  IF t = << >> \/ \A i \in DOMAIN t : replies[t[i].query].kind = "word" THEN {FALSE}
  ELSE IF Len(t) = 2 /\ \A i \in 1..2 : replies[t[i].query].kind = "number" THEN {TRUE}
  ELSE BOOLEAN

(* A read without any text, or without a number. *)
NoText == Answer(IF call = "default" THEN "default" ELSE "error", << >>)

Text(t) ==
  IF call = "text" THEN Answer("ok", t)
  ELSE \E number \in Numeric(t) : IF number THEN Answer("ok", t) ELSE NoText

Receive ==
  /\ pc = "text" /\ At(cooked, "newline") = {}
  /\ \E n \in 1..Len(stream) : Recv(n) /\ cooked' = cooked \o Taken(n)
  /\ UNCHANGED <<pc, call, msg, past, answer>>

(* Variant: return all there is, not the first line of it. *)
TakeAll ==
  /\ pc = "text" /\ At(cooked, "newline") # {}
  /\ Text(SubSeq(cooked, 1, Len(cooked) - 1))
  /\ cooked' = << >>
  /\ UNCHANGED <<link, call, past>>

TakeLine ==
  /\ pc = "text" /\ At(cooked, "newline") # {}
  /\ LET end == FirstOf(At(cooked, "newline"))
     IN  /\ Text(SubSeq(cooked, 1, end - 1))
         /\ cooked' = SubSeq(cooked, end + 1, Len(cooked))
  /\ UNCHANGED <<link, call, past>>

(* The time-out, or the end of the stream: what there is is returned. *)
TextTimesOut ==
  /\ pc = "text" /\ At(cooked, "newline") = {}
  /\ IF cooked = << >> THEN NoText ELSE Text(cooked)
  /\ cooked' = << >>
  /\ late' = TRUE
  /\ UNCHANGED <<link, call, torn>>
----------------------------------------------------------------------------
(* Blocks. *)

(* Variant: every chunk is searched for the start of the block. *)
AlignedAgain(r, chunk) ==
  IF At(chunk, "hash") = {} THEN r \o chunk
  ELSE SubSeq(chunk, FirstOf(At(chunk, "hash")), Len(chunk))

(* What is before the first '#' is dropped, until there is one. *)
Aligned(r, chunk) ==
  LET all == r \o chunk
  IN  IF At(all, "hash") = {} THEN all
      ELSE SubSeq(all, FirstOf(At(all, "hash")), Len(all))

(* expected_buff_bytes, when there is a header that can be read *)
HasHeader(r) == Len(r) >= 2 /\ r[1].char = "hash" /\ r[2].char = "length"
Total(r) == 2 + Declared(r[2]) + 1
Complete(r) == HasHeader(r) /\ Len(r) >= Total(r)

(* The terminator check, and the refusal of _read_block of a block without data. *)
Block(r) ==
  IF r[Total(r)].char = "newline" /\ Declared(r[2]) > 0
    THEN Answer("ok", SubSeq(r, 3, Total(r) - 1))
    ELSE Answer("error", << >>)

(* One turn of the loop that gets bytes.  Those after the block are lost. *)
ReceiveBlock ==
  /\ pc = "block"
  /\ \E n \in 1..Len(stream) :
       LET response == Aligned(msg, Taken(n))
       IN  /\ Recv(n)
           /\ IF Complete(response)
                THEN Block(response) /\ late' = FALSE
                ELSE msg' = response /\ UNCHANGED <<pc, late, answer>>
  /\ UNCHANGED <<cooked, call, torn>>

(* Variant: no limit but on the silence before the header. *)
BlockIdles ==
  /\ pc = "block" /\ ~HasHeader(msg)
  /\ Answer("error", << >>)
  /\ torn' = TRUE
  /\ UNCHANGED <<link, cooked, call, late>>

(* Variant: the response is kept for the next read. *)
BlockKept ==
  /\ pc = "block"
  /\ pc' = "idle" /\ answer' = [status |-> "error", cells |-> << >>]
  /\ torn' = TRUE
  /\ UNCHANGED <<link, cooked, call, msg, late>>

(* Variant: a block that is not complete is returned. *)
BlockCutShort ==
  /\ pc = "block"
  /\ IF HasHeader(msg) /\ Len(msg) > 2
       THEN Answer("ok", SubSeq(msg, 3, Len(msg)))
       ELSE Answer("error", << >>)
  /\ torn' = TRUE
  /\ UNCHANGED <<link, cooked, call, late>>

(* The time-out, or the silence before a header: no part is returned. *)
BlockTimesOut ==
  /\ pc = "block"
  /\ Answer("error", << >>)
  /\ torn' = TRUE
  /\ UNCHANGED <<link, cooked, call, late>>
----------------------------------------------------------------------------
(* The caller closes the scope and makes another one. *)
Reconnect ==
  /\ pc = "idle"
  /\ replies' = << >> /\ stream' = << >> /\ cooked' = << >>
  /\ late' = FALSE /\ torn' = FALSE
  /\ answer' = Unanswered
  /\ UNCHANGED <<pc, call, msg>>

Read == Receive \/ TakeLine \/ TextTimesOut \/ ReceiveBlock \/ BlockTimesOut

Next == (\E c \in Calls : Ask(c)) \/ Read \/ Reconnect

(* Every read is bounded by its time-out.  Nothing has to arrive. *)
Spec == Init /\ [][Next]_vars /\ WF_vars(TakeLine \/ TextTimesOut \/ BlockTimesOut)
----------------------------------------------------------------------------
(* The text or the data of the reply to query q, without what frames them. *)
Content(q) ==
  LET cells == Cells(q, replies[q])
  IN  IF replies[q].kind = "block" THEN SubSeq(cells, 3, Len(cells) - 1)
      ELSE SubSeq(cells, 1, Len(cells) - 1)

Answered == answer.status # "none"

(***************************************************************************)
(* As long as no block read has given up, the answer to a block query is   *)
(* the whole of its own data, also when text replies before it have timed  *)
(* out and arrive in front of it, and also when the data look like a       *)
(* header; it is an error only for a block without data.                   *)
(***************************************************************************)
OwnBlock ==
  (Answered /\ call = "block" /\ ~torn) =>
     LET data == Content(Len(replies))
     IN  answer = [status |-> IF data = << >> THEN "error" ELSE "ok", cells |-> data]

(***************************************************************************)
(* A block brings the connection back in step: if no text read has timed   *)
(* out since the last one, the answer to a text query is its own whole     *)
(* text, and never the default of _query_float.                            *)
(***************************************************************************)
OwnText ==
  (Answered /\ call # "block" /\ ~torn /\ ~late) =>
     answer = [status |-> "ok", cells |-> Content(Len(replies))]

PartOf(s, t) == \E i \in 1..(Len(t) + 1), j \in 0..Len(t) : s = SubSeq(t, i, j)

(***************************************************************************)
(* Text reads that time out put the next ones out of step, and may cut a   *)
(* text short, but two texts are never run together, and bytes of a block  *)
(* are never a text as long as no block read has given up.                 *)
(***************************************************************************)
OneText ==
  (answer.status = "ok" /\ call # "block" /\ ~torn) =>
     \E q \in 1..Len(replies) : replies[q].kind # "block" /\ PartOf(answer.cells, Content(q))

(***************************************************************************)
(* Even after block reads that gave up, a block returned is one whole      *)
(* block of the scope, if no '#' occurs in the data of any: the search for *)
(* '#' finds the way back.                                                 *)
(***************************************************************************)
WholeBlock ==
  (/\ answer.status = "ok" /\ call = "block"
   /\ \A q \in 1..Len(replies) : \A i \in DOMAIN replies[q].data : replies[q].data[i] # "hash") =>
     \E q \in 1..Len(replies) : replies[q].kind = "block" /\ answer.cells = Content(q)

(* Every call returns or raises, wherever the scope stops sending. *)
CallEnds == pc # "idle" ~> pc = "idle"
=============================================================================
