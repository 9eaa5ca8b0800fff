--------------------------- MODULE LeCroyTransfer ---------------------------
(***************************************************************************)
(* One query after another over one VICP connection: LeCroyVICPTransport   *)
(* (src/lab_scopes/transports/lecroy_vicp.py) and the methods of           *)
(* LeCroyScope that fetch a waveform with it, acquire,                     *)
(* acquire_sequence_data and time_array(trace)                             *)
(* (src/lab_scopes/lecroy/scope.py, sequence.py).                          *)
(*                                                                         *)
(* The scope answers queries in order, each reply cut into frames as it    *)
(* likes, the last marked EOI, as late as it likes.  A cell is a piece of  *)
(* a reply's payload: the descriptor of a waveform takes DescLen of them,  *)
(* a sample and a text reply one each.  Once a read has given up inside a  *)
(* frame the bytes that follow are read out of place, and a later read     *)
(* makes of them what it may.                                              *)
(***************************************************************************)
EXTENDS Integers, Sequences

CONSTANTS MaxQueries, \* bound on queries sent over one connection
          MaxTotal,   \* bound on the samples of a waveform
          Descriptors \* what a WAVEDESC says: samples in all, and segments

ASSUME BoundAssumption == MaxQueries \in Nat /\ MaxTotal \in Nat
ASSUME DescriptorAssumption == Descriptors \subseteq [total : 0..MaxTotal, count : Nat \ {0}]

VARIABLES replies, \* the reply the scope has for each query of this connection
          inbox,   \* queries it has not answered in full
          sent,    \* cells of the first of them it has sent
          stream,  \* frames the driver has not read
          skew,    \* what the reads that gave up have done to this connection
          pc, call, \* where the driver is, and in which call
          msg,     \* payloads of the frames read so far
          wd,      \* LeCroyScope.wd
          answer   \* what the last call returned: a status and the parts

scopeVars == <<replies, inbox, sent>>
vars == <<scopeVars, stream, skew, pc, call, msg, wd, answer>>

DescLen == 2
NoDescriptor == [total |-> 0, count |-> 0]
Reply == [kind : {"wave"}, desc : Descriptors] \cup [kind : {"short", "none"}, desc : {NoDescriptor}]

Calls == {"query", "acquire", "sequence", "axis"}

(* A text query gets a text, a waveform query a waveform or, for a trace    *)
(* without data, next to nothing; either may be ignored.                    *)
RepliesTo(c) == {r \in Reply : c = "query" => r.kind # "wave"}

Length(r) == CASE r.kind = "wave"  -> DescLen + r.desc.total
               [] r.kind = "short" -> 1
               [] OTHER            -> 0

Cell == [query : 0..MaxQueries, pos : 0..(DescLen + MaxTotal)]
Garbage == [query |-> 0, pos |-> 0]
Piece(q, first, last) == [i \in 1..(last - first + 1) |-> [query |-> q, pos |-> first + i - 1]]
Frame == [query : 1..MaxQueries, first : 1..(DescLen + MaxTotal + 1),
          last : 1..(DescLen + MaxTotal), eoi : BOOLEAN]
Payload(q) == Piece(q, 1, Length(replies[q]))

(* How bad a read that gave up was: nothing read yet; some frames of the    *)
(* reply read; part of a frame read.                                        *)
Skews == {"none", "late", "cut", "lost"}

TypeOK ==
  /\ replies \in Seq(Reply) /\ Len(replies) <= MaxQueries
  /\ inbox \in Seq(1..Len(replies))
  /\ sent \in 0..(DescLen + MaxTotal)
  /\ stream \in Seq(Frame)
  /\ skew \in Skews
  /\ pc \in {"idle", "read"}
  /\ call \in Calls
  /\ msg \in Seq(Cell) /\ (pc = "idle" => msg = << >>)
  /\ wd \in Descriptors \cup {NoDescriptor}
  /\ answer \in [status : {"none", "ok", "error"}, parts : Seq(Seq(Cell))]

Init ==
  /\ replies = << >> /\ inbox = << >> /\ sent = 0 /\ stream = << >>
  /\ skew = "none"
  /\ pc = "idle" /\ call = "query" /\ msg = << >>
  /\ wd = NoDescriptor
  /\ answer = [status |-> "none", parts |-> << >>]
----------------------------------------------------------------------------
(* The scope sends the next frame of the reply it is at; the last may be empty. *)
SendFrame ==
  /\ inbox # << >>
  /\ LET q == Head(inbox)
         size == Length(replies[q])
     IN  \E upTo \in sent..size, eoi \in BOOLEAN :
           /\ eoi => upTo = size
           /\ upTo = sent => eoi
           /\ stream' = Append(stream,
                               [query |-> q, first |-> sent + 1, last |-> upTo, eoi |-> eoi])
           /\ sent' = IF eoi THEN 0 ELSE upTo
           /\ inbox' = IF eoi THEN Tail(inbox) ELSE inbox
  /\ UNCHANGED <<replies, skew, pc, call, msg, wd, answer>>
----------------------------------------------------------------------------
(* The write of a call, and the start of its read_raw. *)
Ask(c) ==
  /\ pc = "idle" /\ Len(replies) < MaxQueries
  /\ \E r \in RepliesTo(c) :
       /\ replies' = Append(replies, r)
       /\ inbox' = IF r.kind = "none" THEN inbox ELSE Append(inbox, Len(replies) + 1)
  /\ call' = c /\ pc' = "read" /\ msg' = << >>
  /\ answer' = [status |-> "none", parts |-> << >>]
  /\ UNCHANGED <<sent, stream, skew, wd>>

Answer(status, parts) ==
  /\ pc' = "idle" /\ msg' = << >>
  /\ answer' = [status |-> status, parts |-> parts]

Raise == Answer("error", << >>)

(* translate_wavedesc_bytes; of bytes that are no descriptor it makes any *)
Decoded(m) ==
  IF m[1].pos = 1 /\ m[1].query # 0 THEN {replies[m[1].query].desc} ELSE Descriptors

(* parse_wavedesc and _parse_wave_array *)
Samples(m, d) == SubSeq(m, DescLen + 1, DescLen + d.total)
Readable(m, d) == d.total > 0 /\ Len(m) >= DescLen + d.total

(* segment_sample_count *)
Splits(d) == d.count >= 2 /\ d.total % d.count = 0 /\ d.total > 0
PerSegment(d) == d.total \div d.count

(* split_segments *)
SplitSegments(m, d) ==
  [s \in 1..d.count |->
     SubSeq(Samples(m, d), (s - 1) * PerSegment(d) + 1, s * PerSegment(d))]

(* Variant: a sequence acquisition leaves the descriptor of an earlier one. *)
WaveformOnlyRealTime(m) ==
  \E d \in Decoded(m) :
    /\ wd' = IF call = "acquire" THEN d ELSE wd
    /\ CASE call = "acquire" /\ Readable(m, d) -> Answer("ok", <<Samples(m, d)>>)
         [] call = "sequence" /\ Splits(d) /\ Readable(m, d) -> Answer("ok", SplitSegments(m, d))
         [] call = "axis" /\ (d.count > 1 => Splits(d)) -> Answer("ok", << >>)
         [] OTHER -> Raise

(* What the call makes of a waveform message. *)
Waveform(m) ==
  \E d \in Decoded(m) :
    /\ wd' = IF call = "axis" THEN wd ELSE d
    /\ CASE call = "acquire" /\ Readable(m, d) -> Answer("ok", <<Samples(m, d)>>)
         [] call = "sequence" /\ Splits(d) /\ Readable(m, d) -> Answer("ok", SplitSegments(m, d))
         [] call = "axis" /\ (d.count > 1 => Splits(d)) -> Answer("ok", << >>)
         [] OTHER -> Raise

(* The message is complete. *)
Finish(m) ==
  CASE call = "query"      -> Answer("ok", <<m>>) /\ UNCHANGED wd
    [] call # "query" /\ Len(m) < DescLen  -> Raise /\ UNCHANGED wd
    [] call # "query" /\ Len(m) >= DescLen -> Waveform(m)

Joined(f) == msg \o Piece(f.query, f.first, f.last)

(* Variant: the first frame is the message. *)
ReadOneFrame ==
  /\ pc = "read" /\ skew # "lost" /\ stream # << >>
  /\ stream' = Tail(stream)
  /\ Finish(Joined(Head(stream)))
  /\ UNCHANGED <<scopeVars, skew, call>>

(* One turn of read_raw: a frame header and its payload *)
ReadFrame ==
  /\ pc = "read" /\ skew # "lost" /\ stream # << >>
  /\ stream' = Tail(stream)
  /\ IF Head(stream).eoi THEN Finish(Joined(Head(stream)))
     ELSE msg' = Joined(Head(stream)) /\ UNCHANGED <<pc, wd, answer>>
  /\ UNCHANGED <<scopeVars, skew, call>>

(* Bytes out of place: any length, any end, any content. *)
ReadGarbage ==
  /\ pc = "read" /\ skew = "lost"
  /\ \E length \in 0..(DescLen + MaxTotal) : Finish([i \in 1..length |-> Garbage])
  /\ UNCHANGED <<scopeVars, stream, skew, call>>

(* Variant: a read waits without a time-out once the reply has begun. *)
GiveUpBeforeFirst ==
  /\ pc = "read" /\ msg = << >>
  /\ skew' = IF skew = "none" THEN "late" ELSE skew
  /\ Raise
  /\ UNCHANGED <<scopeVars, stream, call, wd>>

(* Variant: the frames read so far are kept for the next read. *)
GiveUpKeeps ==
  /\ pc = "read"
  /\ skew' = CASE skew = "none" /\ msg = << >> -> "late"
               [] skew \in {"none", "late"} /\ msg # << >> -> "cut"
               [] OTHER -> skew
  /\ pc' = "idle" /\ answer' = [status |-> "error", parts |-> << >>]
  /\ UNCHANGED <<scopeVars, stream, call, wd, msg>>

(* A recv times out, or the stream ends, between two frames. *)
GiveUp ==
  /\ pc = "read"
  /\ skew' = CASE skew = "none" /\ msg = << >> -> "late"
               [] skew \in {"none", "late"} /\ msg # << >> -> "cut"
               [] OTHER -> skew
  /\ Raise
  /\ UNCHANGED <<scopeVars, stream, call, wd>>

(* It does when part of a header or a payload has been read. *)
GiveUpInFrame ==
  /\ pc = "read" /\ stream # << >>
  /\ skew' = "lost"
  /\ Raise
  /\ UNCHANGED <<scopeVars, stream, call, wd>>

(* The caller closes the scope and makes another one. *)
Reconnect ==
  /\ pc = "idle"
  /\ replies' = << >> /\ inbox' = << >> /\ sent' = 0 /\ stream' = << >>
  /\ skew' = "none" /\ wd' = NoDescriptor
  /\ answer' = [status |-> "none", parts |-> << >>]
  /\ UNCHANGED <<pc, call, msg>>

Read == ReadFrame \/ ReadGarbage \/ GiveUp \/ GiveUpInFrame

Next == \/ \E c \in Calls : Ask(c)
        \/ Read \/ SendFrame \/ Reconnect

(* Every recv returns or times out. *)
Spec == Init /\ [][Next]_vars /\ WF_vars(Read)
----------------------------------------------------------------------------
(* The answer is what the whole reply to query q holds: its text, all its   *)
(* samples in order, or these in equal segments, in order.                  *)
Holds(q) ==
  LET r == replies[q]
      n == r.desc.total \div r.desc.count
  IN  CASE call = "query"    -> answer.parts = <<Payload(q)>>
        [] call = "acquire"  -> /\ r.kind = "wave"
                                /\ answer.parts = <<Piece(q, DescLen + 1, Length(r))>>
        [] call = "sequence" ->
             /\ r.kind = "wave" /\ n * r.desc.count = r.desc.total
             /\ answer.parts = [s \in 1..r.desc.count |->
                                  Piece(q, DescLen + (s - 1) * n + 1, DescLen + s * n)]
        [] OTHER -> r.kind = "wave"

(* time_array() *)
AxisLength == IF wd.count > 1 THEN PerSegment(wd) ELSE wd.total

(***************************************************************************)
(* After an acquisition that returned, time_array() has one instant for    *)
(* each sample of the trace, or of every segment, whatever the calls       *)
(* before it left in wd.  (acquire of a segmented trace is no use of it.)  *)
(***************************************************************************)
AxisFits ==
  (/\ answer.status = "ok"
   /\ call = "sequence" \/ (call = "acquire" /\ wd.count = 1)) =>
     \A p \in 1..Len(answer.parts) : Len(answer.parts[p]) = AxisLength

(* The request whose reply the answer is: this one, when it may be several. *)
AnswerOf ==
  CASE answer.status = "none"  -> -1
    [] answer.status = "error" -> -2
    [] OTHER -> LET Q == {q \in 1..Len(replies) : Holds(q)}
                IN  IF Len(replies) \in Q THEN Len(replies)
                    ELSE IF Q = {} THEN 0 ELSE CHOOSE q \in Q : TRUE

Channel == INSTANCE ReplyDelivery
             WITH asked <- Len(replies), open <- (pc = "read"), answer <- AnswerOf,
                  trust <- CASE skew = "none" -> 2 [] skew = "late" -> 1 [] OTHER -> 0

(***************************************************************************)
(* The transport and the calls on it implement ReplyDelivery, however the  *)
(* scope cuts a reply into frames: each call is answered once; with its    *)
(* own whole reply as long as none has failed; after reads that gave up    *)
(* before a reply began with one whole reply, perhaps an earlier one, and  *)
(* never with a part, a mixture, or samples out of a text.                 *)
(***************************************************************************)
DeliversReplies == Channel!Spec

(***************************************************************************)
(* Every call returns or raises, though the scope may never finish a reply.*)
(***************************************************************************)
CallEnds == pc = "read" ~> pc = "idle"
=============================================================================
