----------------------------- MODULE RigolRead -----------------------------
(***************************************************************************)
(* RigolDHO800.read_channel and the batched read it rests on,              *)
(* _read_full_waveform (src/lab_scopes/rigol/dho800.py), against a DHO800  *)
(* that obeys a written :RUN, :SINGle or :STOP some time later, whose      *)
(* firmware caps one :WAVeform:DATA? transfer, may answer with less than   *)
(* it was asked for, and may move the window it was given.                 *)
(*                                                                         *)
(* An action is one exchange with the scope together with what the driver  *)
(* does with the answer.  A sample is the capture, channel, format and     *)
(* place it comes from; conversion to volts and the time axis are left     *)
(* out.  Anything a link failure or a bad reply raises ends the read with  *)
(* an error (LinkFails).  The bytes of the link are RigolTransport's; here *)
(* "late" stands for a text reply that timed out or was cut, after which   *)
(* every text answer is another query's until a block is read, and "torn"  *)
(* for a block given up, after which nothing is sure.                      *)
(***************************************************************************)
EXTENDS Integers, Sequences

CONSTANTS Depth,          \* samples in a captured record
          Cap,            \* points the firmware puts in one transfer, at most
          Channels,       \* analog channels
          EmptyRetries,   \* _EMPTY_CHUNK_RETRIES
          VerifyWindow,   \* the caller's verify_window argument
          FirmwareClamps, \* the firmware may move the window it is given
          LateReplies,    \* replies may miss their time-out
          MaxPending,     \* bound on commands written and not yet obeyed
          MaxGen          \* bound on captures, for model checking

ASSUME SizeAssumption == /\ Depth \in Nat \ {0}
                         /\ Cap \in Nat \ {0}
                         /\ EmptyRetries \in Nat
                         /\ MaxPending \in Nat
                         /\ MaxGen \in Nat
ASSUME SwitchAssumption == /\ VerifyWindow \in BOOLEAN
                           /\ FirmwareClamps \in BOOLEAN
                           /\ LateReplies \in BOOLEAN

VARIABLES trig,     \* the scope's :TRIGger:STATus?, "RUN" or "STOP"
          gen,      \* which capture its memory holds
          reg,      \* its :WAVeform: registers
          pending,  \* commands written to it and not yet obeyed
          link,     \* "step", or what earlier time-outs left on it
          pc,       \* where read_channel is
          request,  \* its channel and fmt arguments
          depth,    \* n_mdepth, the depth the scope reported
          start,    \* first point of the next window
          window,   \* points per window: n_total, then the learned cap
          first,    \* no chunk has arrived yet
          tries,    \* empty_tries
          record,   \* the chunks so far, joined
          answer,   \* what the caller has: a status and the samples
          doubt     \* history: this read went on from an answer that may be
                    \* another query's, or from a STOP a pending run will end

scopeVars == <<trig, gen, reg, pending>>
loopVars == <<start, window, first, tries, record>>
vars == <<scopeVars, link, pc, request, depth, loopVars, answer, doubt>>

Formats == {"BYTE", "WORD"}
Requests == [source : Channels, format : Formats]
BytesPerPoint(f) == IF f = "WORD" THEN 2 ELSE 1
Smaller(a, b) == IF a <= b THEN a ELSE b

Sample(g, r, i) == [gen |-> g, source |-> r.source, format |-> r.format, pos |-> i]
WholeRecord(g, r) == [i \in 1..Depth |-> Sample(g, r, i)]
Reading == [status |-> "reading", samples |-> << >>]

(* A depth read from another query's answer can be any number; one beyond   *)
(* the record stands for all that are too large.  The registers then name   *)
(* that point, and the memory has something there too.                      *)
Points == 1..(Depth + 1)
Registers == [source : Channels, format : Formats, start : Points, stop : Points]

Steps == {"wait", "source", "format", "depth", "calibration", "window",
          "verify", "data", "check", "context", "idle"}

TypeOK ==
  /\ trig \in {"RUN", "STOP"}
  /\ gen \in 0..MaxGen
  /\ reg \in Registers
  /\ pending \in Seq({"RUN", "STOP"}) /\ Len(pending) <= MaxPending
  /\ link \in {"step", "late", "torn"}
  /\ pc \in Steps
  /\ request \in Requests
  /\ depth \in 0..(Depth + 1)
  /\ start \in 1..(2 * Depth + 2)
  /\ window \in Points
  /\ first \in BOOLEAN
  /\ tries \in 0..(EmptyRetries + 1)
  /\ record \in Seq([gen : 0..MaxGen, source : Channels, format : Formats, pos : 0..(Depth + 1)])
  /\ answer.status \in {"reading", "ok", "error"}
  /\ doubt \in BOOLEAN

(* The window registers hold whatever an earlier session left in them. *)
Init ==
  /\ trig \in {"RUN", "STOP"}
  /\ gen = 0
  /\ reg \in [source : Channels, format : Formats, start : 1..Depth, stop : 1..Depth]
  /\ pending = << >>
  /\ link = "step"
  /\ pc = "wait"
  /\ request \in Requests
  /\ depth = 0
  /\ start = 1 /\ window = 1 /\ first = TRUE /\ tries = 0 /\ record = << >>
  /\ answer = Reading
  /\ doubt = FALSE
----------------------------------------------------------------------------
(* The scope. *)

Obey ==
  /\ pending # << >>
  /\ trig' = Head(pending)
  /\ pending' = Tail(pending)
  /\ UNCHANGED <<gen, reg, link, pc, request, depth, loopVars, answer, doubt>>

(* A trigger completes a capture; a single acquisition also stops there. *)
Trigger ==
  /\ trig = "RUN"
  /\ gen < MaxGen
  /\ gen' = gen + 1
  /\ trig' \in {"RUN", "STOP"}
  /\ UNCHANGED <<reg, pending, link, pc, request, depth, loopVars, answer, doubt>>

(* Points the scope can put in one transfer of the window it holds. *)
Available == Smaller(Cap, reg.stop - reg.start + 1)

(* The samples of a transfer of n points, read out of memory; and a block   *)
(* the parser took out of the remains of an older one.                      *)
Chunk(n) == [i \in 1..n |-> Sample(gen, reg, reg.start + i - 1)]
Stray(n) == [i \in 1..n |-> Sample(0, reg, 0)]

(* A run the scope has not begun: its STOP is the STOP of before. *)
RunPending == \E i \in 1..Len(pending) : pending[i] = "RUN"
----------------------------------------------------------------------------
(* read_channel. *)

(* Where a text exchange leaves the link: a reply that comes late or is cut *)
(* puts it out of step, and a text exchange never puts it back.             *)
TextExchange == link' \in {link} \cup (IF LateReplies /\ link = "step" THEN {"late"} ELSE {})
OwnAnswer == link' = "step"

(* The read goes on with the answer it got, its own or not. *)
Believe == doubt' = (doubt \/ ~OwnAnswer)

Goto(step) == pc' = step /\ UNCHANGED <<request, answer>>

Proceed(step) == Goto(step) /\ UNCHANGED <<depth, loopVars>>

(* The call ends, and its local variables with it. *)
Finish(status, samples) ==
  /\ pc' = "idle"
  /\ answer' = [status |-> status, samples |-> samples]
  /\ depth' = 0
  /\ start' = 1 /\ window' = 1 /\ first' = TRUE /\ tries' = 0 /\ record' = << >>
  /\ UNCHANGED request

(* Variant: read at once, without waiting for the scope to stop. *)
WaitSkipped ==
  /\ pc = "wait"
  /\ Proceed("source")
  /\ UNCHANGED <<scopeVars, link, doubt>>

(* wait_until_stopped: polled until the answer is STOP or the deadline      *)
(* passes.  A STOP the scope is still to leave, and a STOP that answers      *)
(* another query, are believed as any other.                                 *)
WaitUntilStopped ==
  /\ pc = "wait"
  /\ TextExchange
  /\ OwnAnswer => trig = "STOP"
  /\ doubt' = (~OwnAnswer \/ RunPending)
  /\ Proceed("source")
  /\ UNCHANGED scopeVars

(* A poll whose reply is cut short reads as not STOP, and is polled again. *)
PollCut ==
  /\ pc = "wait" /\ link = "step"
  /\ TextExchange /\ ~OwnAnswer
  /\ UNCHANGED <<scopeVars, pc, request, depth, loopVars, answer, doubt>>

StopDeadline ==
  /\ pc = "wait"
  /\ Finish("error", << >>)
  /\ UNCHANGED <<scopeVars, link, doubt>>

SelectSource ==
  /\ pc = "source"
  /\ reg' = [reg EXCEPT !.source = request.source]
  /\ Proceed("format")
  /\ UNCHANGED <<trig, gen, pending, link, doubt>>

SelectFormat ==
  /\ pc = "format"
  /\ reg' = [reg EXCEPT !.format = request.format]
  /\ Proceed("depth")
  /\ UNCHANGED <<trig, gen, pending, link, doubt>>

(* The scope may report no memory at all, which read_channel refuses. *)
ReadDepth ==
  /\ pc = "depth"
  /\ TextExchange
  /\ Believe
  /\ \E n \in IF OwnAnswer THEN {0, Depth} ELSE 0..(Depth + 1) :
       IF n = 0 THEN Finish("error", << >>)
                ELSE Goto("calibration") /\ depth' = n /\ UNCHANGED loopVars
  /\ UNCHANGED scopeVars

(* The six calibration queries, and the locals _read_full_waveform starts with. *)
ReadCalibration ==
  /\ pc = "calibration"
  /\ TextExchange
  /\ start' = 1 /\ window' = depth /\ first' = TRUE /\ tries' = 0 /\ record' = << >>
  /\ Goto("window")
  /\ UNCHANGED <<scopeVars, depth, doubt>>
----------------------------------------------------------------------------
(* _read_full_waveform: one turn of its loop is SetWindow, CheckWindow when *)
(* asked for, and one of the replies to :WAVeform:DATA?.                    *)

WindowEnd == Smaller(start + window - 1, depth)

(* What the registers hold after the writes: the window asked for, or, on a *)
(* firmware that clamps, any other.                                         *)
Windows(a, b) == {<<a, b>>} \cup (IF FirmwareClamps THEN (1..Depth) \X (1..Depth) ELSE {})

SetWindow ==
  /\ pc = "window" /\ start <= depth
  /\ \E w \in Windows(start, WindowEnd) :
        reg' = [reg EXCEPT !.start = w[1], !.stop = w[2]]
  /\ Proceed(IF VerifyWindow THEN "verify" ELSE "data")
  /\ UNCHANGED <<trig, gen, pending, link, doubt>>

(* Variant: compare the end of the window alone. *)
CheckWindowEnd ==
  /\ pc = "verify"
  /\ TextExchange
  /\ Believe
  /\ \/ Proceed("data") /\ (OwnAnswer => reg.stop = WindowEnd)
     \/ Finish("error", << >>) /\ (OwnAnswer => reg.stop # WindowEnd)
  /\ UNCHANGED scopeVars

CheckWindow ==
  LET same == <<reg.start, reg.stop>> = <<start, WindowEnd>>
  IN  /\ pc = "verify"
      /\ TextExchange
      /\ Believe
      /\ \/ Proceed("data") /\ (OwnAnswer => same)
         \/ Finish("error", << >>) /\ (OwnAnswer => ~same)
      /\ UNCHANGED scopeVars

(* Variant: advance by the window asked for, not by the points that came. *)
AcceptChunkByWindow(chunk) ==
  /\ tries' = 0
  /\ record' = record \o chunk
  /\ window' = IF first /\ Len(chunk) < depth THEN Len(chunk) ELSE window
  /\ first' = FALSE
  /\ start' = WindowEnd + 1
  /\ Goto("window")

(* A block with at least one whole point; a trailing half point is dropped *)
(* and read again as the first of the next window.                         *)
AcceptChunk(chunk) ==
  /\ tries' = 0
  /\ record' = record \o chunk
  /\ window' = IF first /\ Len(chunk) < depth THEN Len(chunk) ELSE window
  /\ first' = FALSE
  /\ start' = start + Len(chunk)
  /\ Goto("window")

(* Variant: retry without counting. *)
RetryForever ==
  /\ Goto("window")
  /\ UNCHANGED <<start, window, first, tries, record>>

(* A block too short to hold one point: try the same window again, until   *)
(* the retries are used up, then keep what there is.                       *)
RetryChunk ==
  /\ tries' = tries + 1
  /\ Goto(IF tries' > EmptyRetries THEN "check" ELSE "window")
  /\ UNCHANGED <<start, window, first, record>>

(* A whole block ends the disorder of texts before it: the parser passes    *)
(* over them and the flush drops what was buffered.  Not that of a torn link.*)
BlockArrives ==
  /\ link' = IF link = "torn" THEN "torn" ELSE "step"
  /\ Believe

Read(points) == IF link = "torn" THEN Stray(points) ELSE Chunk(points)

(* Variant: count a block's bytes as its points. *)
ReadBlockInBytes ==
  /\ pc = "data"
  /\ BlockArrives
  /\ \E bytes \in 1..(BytesPerPoint(reg.format) * Available) : AcceptChunk(Read(bytes))
  /\ UNCHANGED <<scopeVars, depth>>

ReadBlock ==
  /\ pc = "data"
  /\ BlockArrives
  /\ \E bytes \in 1..(BytesPerPoint(reg.format) * Available) :
       LET points == bytes \div BytesPerPoint(request.format)
       IN  IF points > 0 THEN AcceptChunk(Read(points)) ELSE RetryChunk
  /\ UNCHANGED <<scopeVars, depth>>

(* A block that declares no data: _read_block raises before the loop sees it. *)
EmptyBlock ==
  /\ pc = "data"
  /\ BlockArrives
  /\ Finish("error", << >>)
  /\ UNCHANGED scopeVars

WindowsDone ==
  /\ pc = "window" /\ start > depth
  /\ Proceed("check")
  /\ UNCHANGED <<scopeVars, link, doubt>>
----------------------------------------------------------------------------
(* Back in read_channel. *)

(* Variant: return what there is, short or not. *)
CheckLengthDropped ==
  /\ pc = "check"
  /\ Proceed("context")
  /\ UNCHANGED <<scopeVars, link, doubt>>

CheckLength ==
  /\ pc = "check"
  /\ IF Len(record) < depth THEN Finish("error", << >>) ELSE Proceed("context")
  /\ UNCHANGED <<scopeVars, link, doubt>>

(* The display scales, which a bad reply can still fail, and the return; two *)
(* of the four have a default, which a reply that comes late leaves behind.  *)
Return ==
  /\ pc = "context"
  /\ TextExchange
  /\ Finish("ok", record)
  /\ UNCHANGED <<scopeVars, doubt>>

(* A write fails, or an exchange times out: its reply is still to come. *)
LinkFails ==
  /\ pc # "idle"
  /\ IF pc = "data" /\ LateReplies THEN link' = "torn" ELSE TextExchange
  /\ Finish("error", << >>)
  /\ UNCHANGED <<scopeVars, doubt>>
----------------------------------------------------------------------------
(* The caller, between two reads: run, single, stop, other queries, a new   *)
(* connection, and the next read.  The scope is not touched at its panel.   *)

Send(command) ==
  /\ Len(pending) < MaxPending
  /\ pending' = Append(pending, command)
  /\ UNCHANGED <<trig, gen, reg, link, pc, request, depth, loopVars, answer, doubt>>

RunOrSingle == pc = "idle" /\ Send("RUN")

StopScope == pc = "idle" /\ Send("STOP")

QueryTimesOut ==
  /\ pc = "idle" /\ link = "step"
  /\ TextExchange /\ ~OwnAnswer
  /\ UNCHANGED <<scopeVars, pc, request, depth, loopVars, answer, doubt>>

Reconnect ==
  /\ pc = "idle" /\ link # "step"
  /\ link' = "step"
  /\ UNCHANGED <<scopeVars, pc, request, depth, loopVars, answer, doubt>>

ReadChannel ==
  /\ pc = "idle"
  /\ request' \in Requests
  /\ pc' = "wait"
  /\ answer' = Reading
  /\ doubt' = FALSE
  /\ UNCHANGED <<scopeVars, link, depth, loopVars>>

Driver == \/ WaitUntilStopped \/ PollCut \/ StopDeadline \/ SelectSource \/ SelectFormat
          \/ ReadDepth \/ ReadCalibration \/ SetWindow \/ CheckWindow
          \/ ReadBlock \/ EmptyBlock \/ WindowsDone \/ CheckLength \/ Return
          \/ LinkFails

Caller == RunOrSingle \/ StopScope \/ QueryTimesOut \/ Reconnect \/ ReadChannel

Next == Obey \/ Trigger \/ Driver \/ Caller

(* The driver is a running Python thread: each of its steps is bounded by a *)
(* socket timeout or a deadline.  Nothing obliges the scope or the caller.  *)
Spec == Init /\ [][Next]_vars /\ WF_vars(Driver)
----------------------------------------------------------------------------
(* Properties. *)

(* The window the scope reads from is the one the driver asked for: either  *)
(* the firmware leaves windows alone or the driver reads them back.         *)
WindowsTrusted == VerifyWindow \/ ~FirmwareClamps

(* Section 2.2 of the plan: at every turn of the loop the chunks joined so  *)
(* far are the points 1..start-1 of the capture in memory, of the channel   *)
(* and in the format asked for - no gap, no overlap, whatever sizes the     *)
(* firmware chose, half points and retries included - unless the read went  *)
(* on from a STOP that a pending run was to end or from a late answer.      *)
Consecutive ==
  (WindowsTrusted /\ ~doubt /\ pc \in {"window", "verify", "data", "check", "context"}) =>
     record = [i \in 1..(start - 1) |-> Sample(gen, request, i)]

(* Sections 2.1 and 2.7: what the caller is given is one whole capture, or  *)
(* the call raised, unless the read went on in doubt.                       *)
DeliveredWhole ==
  (WindowsTrusted /\ ~doubt /\ answer.status = "ok") =>
     \E g \in 0..gen : answer.samples = WholeRecord(g, request)

(* Every read returns or raises: no reply of the scope, however short,      *)
(* keeps the loop going for ever.                                           *)
ReadEnds == (answer.status = "reading") ~> (answer.status # "reading")

(* read_channel delivers what RecordDelivery promises. *)
Promise == INSTANCE RecordDelivery WITH upset <- RunPending \/ link # "step"

Implements == Promise!Spec
=============================================================================
