--------------------------- MODULE RigolReadProof ---------------------------
(***************************************************************************)
(* Proofs about RigolRead, for every record length, firmware cap, retry    *)
(* budget and set of channels.                                             *)
(***************************************************************************)
EXTENDS RigolRead, SequenceTheorems, TLAPS

Prefix(g, r, n) == [i \in 1..n |-> Sample(g, r, i)]
Following(g, r, m, n) == [i \in 1..n |-> Sample(g, r, m + i)]

(* Joining the samples after the first m to the first m.                   *)
LEMMA PrefixGrows ==
  ASSUME NEW g, NEW r, NEW m \in Nat, NEW n \in Nat
  PROVE  Prefix(g, r, m) \o Following(g, r, m, n) = Prefix(g, r, m + n)
<1> DEFINE A == Prefix(g, r, m)
           B == Following(g, r, m, n)
           S == {Sample(g, r, i) : i \in Nat}
<1>1. A \in Seq(S) /\ Len(A) = m
  BY DEF Prefix
<1>2. B \in Seq(S) /\ Len(B) = n
  BY DEF Following
<1> HIDE DEF A, B, S
<1>3. A \o B \in Seq(S) /\ Len(A \o B) = m + n
  BY <1>1, <1>2, ConcatProperties, Zenon
<1>4. \A i \in 1..(m + n) : (A \o B)[i] = IF i <= m THEN A[i] ELSE B[i - m]
  BY <1>1, <1>2, ConcatProperties, Zenon
<1> DEFINE C == A \o B
<1>5. C \in Seq(S) /\ Len(C) = m + n
  BY <1>3
<1>6. \A i \in 1..(m + n) : C[i] = IF i <= m THEN A[i] ELSE B[i - m]
  BY <1>4
<1> HIDE DEF C
<1>7. \A i \in 1..(m + n) : C[i] = Sample(g, r, i)
  <2> SUFFICES ASSUME NEW i \in 1..(m + n) PROVE C[i] = Sample(g, r, i)
    OBVIOUS
  <2>1. CASE i <= m
    BY <2>1, <1>6 DEF A, Prefix
  <2>2. CASE i > m
    <3>1. C[i] = B[i - m]
      BY <2>2, <1>6
    <3>2. i - m \in 1..n /\ m + (i - m) = i
      BY <2>2
    <3> QED BY <3>1, <3>2 DEF B, Following
  <2> QED BY <2>1, <2>2
<1>8. C = [i \in 1..(m + n) |-> C[i]]
  BY <1>5
<1> QED BY <1>7, <1>8 DEF A, B, C, Prefix

Samples == [gen : 0..MaxGen, source : Channels, format : Formats, pos : 0..(Depth + 1)]

(* The length of a part of a record. *)
LEMMA PrefixLength ==
  ASSUME NEW g, NEW r, NEW n \in Nat
  PROVE  Len(Prefix(g, r, n)) = n
BY DEF Prefix

(* A transfer of n points of the window the scope holds. *)
LEMMA ChunkIsNext ==
  ASSUME NEW n \in Nat, start \in Nat \ {0}, reg.start = start,
         reg.source = request.source, reg.format = request.format
  PROVE  Chunk(n) = Following(gen, request, start - 1, n)
<1>1. \A i \in 1..n : /\ Sample(gen, reg, reg.start + i - 1) = Sample(gen, request, reg.start + i - 1)
                      /\ reg.start + i - 1 = (start - 1) + i
  BY DEF Sample
<1> QED BY <1>1 DEF Chunk, Following

(* A block of at most b * n bytes holds at most n points. *)
LEMMA WholePoints ==
  ASSUME NEW f \in Formats, NEW n \in Int, NEW bytes \in 1..(BytesPerPoint(f) * n)
  PROVE  bytes \div BytesPerPoint(f) \in 0..n
<1>1. CASE f = "WORD"
  BY <1>1 DEF BytesPerPoint
<1>2. CASE f = "BYTE"
  BY <1>2 DEF BytesPerPoint
<1> QED BY <1>1, <1>2 DEF Formats

(* What a transfer of the window brings, its own or a stray block, is a     *)
(* sequence of samples of the length it was.                                *)
LEMMA ReadType ==
  ASSUME TypeOK, NEW n \in Nat, n <= Available
  PROVE  Read(n) \in Seq(Samples) /\ Len(Read(n)) = n
<1>1. /\ gen \in 0..MaxGen /\ reg.source \in Channels /\ reg.format \in Formats
      /\ reg.start \in Points /\ reg.stop \in Points
  BY DEF TypeOK, Registers
<1>2. \A i \in 1..n : reg.start + i - 1 \in 0..(Depth + 1)
  BY SizeAssumption, <1>1 DEF Available, Smaller, Points
<1>3. \A i \in 1..n : Sample(gen, reg, reg.start + i - 1) \in Samples
  BY <1>1, <1>2 DEF Sample, Samples
<1>4. Sample(0, reg, 0) \in Samples
  BY SizeAssumption, <1>1 DEF Sample, Samples
<1> QED BY <1>3, <1>4 DEF Read, Chunk, Stray
----------------------------------------------------------------------------
(* Types first: they need no more than the bounds the loop keeps to.        *)
InLoop == {"window", "verify", "data"}
AfterDepth == InLoop \cup {"calibration", "check", "context"}

Bounded ==
  /\ pc \in AfterDepth => depth \in Points
  /\ pc \in InLoop => tries <= EmptyRetries
  /\ pc \in {"verify", "data"} => start <= depth
  /\ answer.status = "reading" <=> pc # "idle"

TInv == TypeOK /\ Bounded

LEMMA InitTyped == Init => TInv
<1> SUFFICES ASSUME Init PROVE TInv
  OBVIOUS
<1>1. pending \in Seq({"RUN", "STOP"}) /\ Len(pending) = 0 /\ record \in Seq(Samples)
  BY EmptySeq DEF Init
<1>2. reg \in Registers
  BY SizeAssumption DEF Init, Registers, Points
<1>3. /\ trig \in {"RUN", "STOP"} /\ gen \in 0..MaxGen /\ link \in {"step", "late", "torn"}
      /\ pc \in Steps /\ request \in Requests /\ depth \in 0..(Depth + 1)
      /\ start \in 1..(2 * Depth + 2) /\ window \in Points /\ tries \in 0..(EmptyRetries + 1)
  BY SizeAssumption DEF Init, Steps, Points
<1>6. first \in BOOLEAN /\ doubt \in BOOLEAN
  BY Zenon DEF Init
<1>4. answer.status \in {"reading", "ok", "error"}
  BY DEF Init, Reading
<1>5. TypeOK
  BY SizeAssumption, <1>1, <1>2, <1>3, <1>4, <1>6 DEF TypeOK, Samples
<1> QED BY SizeAssumption, <1>5 DEF Init, TInv, Bounded, AfterDepth, InLoop, Reading

LEMMA FinishTyped ==
  ASSUME TInv, NEW status \in {"ok", "error"}, NEW samples, Finish(status, samples),
         UNCHANGED scopeVars, link' \in {"step", "late", "torn"}, doubt' \in BOOLEAN
  PROVE  TInv'
BY SizeAssumption
   DEF TInv, TypeOK, Bounded, Finish, scopeVars, AfterDepth, InLoop, Steps, Points

LEMMA WindowWithin ==
  ASSUME TInv, pc = "window", start <= depth
  PROVE  start \in Points /\ WindowEnd \in Points
BY SizeAssumption DEF TInv, TypeOK, Bounded, AfterDepth, InLoop, WindowEnd, Smaller, Points

(* What a block leaves behind that is not the record's. *)
LEMMA BlockTyped ==
  ASSUME TInv, BlockArrives
  PROVE  link' \in {"step", "late", "torn"} /\ doubt' \in BOOLEAN
BY DEF TInv, TypeOK, BlockArrives, Believe, OwnAnswer

LEMMA TextTyped ==
  ASSUME TInv, TextExchange
  PROVE  link' \in {"step", "late", "torn"}
BY DEF TInv, TypeOK, TextExchange

LEMMA AcceptTyped ==
  ASSUME TInv, pc = "data", NEW points \in Nat \ {0}, points <= Available,
         AcceptChunk(Read(points)), BlockArrives, UNCHANGED <<scopeVars, depth>>
  PROVE  TInv'
<1> USE SizeAssumption DEF scopeVars
<1>0. TypeOK /\ Bounded
  BY DEF TInv
<1>1. Read(points) \in Seq(Samples) /\ Len(Read(points)) = points
  BY <1>0, ReadType
<1>2. points \in Points
  BY <1>0 DEF TypeOK, Registers, Available, Smaller, Points
<1>3. depth \in Points /\ start <= depth
  BY <1>0 DEF Bounded, AfterDepth, InLoop
<1>4. record' \in Seq(Samples)
  <2>1. record \in Seq(Samples)
    BY <1>0 DEF TypeOK, Samples
  <2>2. record' = record \o Read(points)
    BY DEF AcceptChunk
  <2> QED BY <1>1, <2>1, <2>2, ConcatProperties
<1>5. start' \in 1..(2 * Depth + 2)
  <2>1. start' = start + points
    BY <1>1 DEF AcceptChunk
  <2> QED BY <1>0, <1>2, <1>3, <2>1 DEF TypeOK, Points
<1>6. window' \in Points
  <2>1. window' = points \/ window' = window
    BY <1>1 DEF AcceptChunk
  <2> QED BY <1>0, <1>2, <2>1 DEF TypeOK
<1>7. first' \in BOOLEAN /\ tries' = 0 /\ pc' = "window" /\ UNCHANGED <<request, answer>>
  BY DEF AcceptChunk, Goto
<1>8. link' \in {"step", "late", "torn"} /\ doubt' \in BOOLEAN
  BY BlockTyped
<1>9. TypeOK'
  BY <1>0, <1>4, <1>5, <1>6, <1>7, <1>8 DEF TypeOK, Steps, Samples
<1>10. Bounded'
  BY <1>0, <1>3, <1>7 DEF Bounded, AfterDepth, InLoop
<1> QED BY <1>9, <1>10 DEF TInv

LEMMA RetryTyped ==
  ASSUME TInv, pc = "data", RetryChunk, BlockArrives, UNCHANGED <<scopeVars, depth>>
  PROVE  TInv'
<1>1. link' \in {"step", "late", "torn"} /\ doubt' \in BOOLEAN
  BY BlockTyped
<1> QED BY SizeAssumption, <1>1
        DEF RetryChunk, Goto, scopeVars, TInv, TypeOK, Bounded, AfterDepth, InLoop, Steps

(* One of the two happens at a block, for some number of whole points.      *)
LEMMA BlockCases ==
  ASSUME TInv, ReadBlock, reg.format = request.format
  PROVE  \/ \E points \in Nat \ {0} : points <= Available /\ AcceptChunk(Read(points))
         \/ RetryChunk
<1>1. PICK bytes \in 1..(BytesPerPoint(reg.format) * Available) :
        LET points == bytes \div BytesPerPoint(request.format)
        IN  IF points > 0 THEN AcceptChunk(Read(points)) ELSE RetryChunk
  BY DEF ReadBlock
<1> DEFINE points == bytes \div BytesPerPoint(request.format)
<1>2. request.format \in Formats /\ Available \in Int
  BY SizeAssumption DEF TInv, TypeOK, Requests, Registers, Points, Available, Smaller
<1>3. points \in 0..Available
  BY <1>1, <1>2, WholePoints
<1>4. CASE points > 0
  BY <1>1, <1>2, <1>3, <1>4
<1>5. CASE ~(points > 0)
  BY <1>1, <1>5
<1> QED BY <1>4, <1>5

(* The registers hold the channel and the format of the request.            *)
Selected ==
  /\ pc \in AfterDepth \cup {"format", "depth"} => reg.source = request.source
  /\ pc \in AfterDepth \cup {"depth"} => reg.format = request.format

LEMMA SelectedInductive ==
  ASSUME TInv, Selected, [Next]_vars
  PROVE  Selected'
<1> USE DEF scopeVars, loopVars, Selected, AfterDepth, InLoop, Goto, Proceed, Finish
<1>1. CASE Obey \/ Trigger \/ Caller
  BY <1>1 DEF Obey, Trigger, Caller, RunOrSingle, StopScope, Send, QueryTimesOut, Reconnect,
     ReadChannel
<1>2. CASE WaitUntilStopped \/ PollCut \/ StopDeadline \/ ReadDepth \/ ReadCalibration
  BY <1>2 DEF WaitUntilStopped, PollCut, StopDeadline, ReadDepth, ReadCalibration
<1>3. CASE SelectSource
  BY <1>3 DEF SelectSource, TInv, TypeOK, Registers
<1>4. CASE SelectFormat
  BY <1>4 DEF SelectFormat, TInv, TypeOK, Registers
<1>5. CASE SetWindow
  BY <1>5 DEF SetWindow, TInv, TypeOK, Registers
<1>6. CASE CheckWindow
  BY <1>6 DEF CheckWindow
<1>7. CASE ReadBlock
  BY <1>7 DEF ReadBlock, AcceptChunk, RetryChunk
<1>8. CASE EmptyBlock \/ WindowsDone \/ CheckLength \/ Return \/ LinkFails
  BY <1>8 DEF EmptyBlock, WindowsDone, CheckLength, Return, LinkFails
<1>9. CASE UNCHANGED vars
  BY <1>9 DEF vars
<1> QED
  BY <1>1, <1>2, <1>3, <1>4, <1>5, <1>6, <1>7, <1>8, <1>9 DEF Next, Driver

LEMMA TypesInductive ==
  ASSUME TInv, Selected, [Next]_vars
  PROVE  TInv'
<1> USE SizeAssumption, SwitchAssumption DEF scopeVars, loopVars
<1>0. TypeOK /\ Bounded
  BY DEF TInv
<1>1. CASE Obey
  <2>1. Head(pending) \in {"RUN", "STOP"} /\ Tail(pending) \in Seq({"RUN", "STOP"})
        /\ Len(Tail(pending)) <= MaxPending
    BY <1>0, <1>1, HeadTailProperties DEF Obey, TypeOK
  <2> QED BY <1>0, <1>1, <2>1 DEF Obey, TInv, TypeOK, Bounded
<1>2. CASE Trigger
  BY <1>0, <1>2 DEF Trigger, TInv, TypeOK, Bounded
<1>3. CASE WaitUntilStopped
  <2>1. doubt' \in BOOLEAN
    BY <1>3 DEF WaitUntilStopped, OwnAnswer, RunPending
  <2>2. link' \in {"step", "late", "torn"}
    BY <1>3, TextTyped DEF WaitUntilStopped
  <2> QED BY <1>0, <1>3, <2>1, <2>2 DEF WaitUntilStopped, Proceed, Goto, TInv, TypeOK, Bounded,
          AfterDepth, InLoop, Steps
<1>4. CASE PollCut \/ QueryTimesOut \/ Reconnect
  <2>1. link' \in {"step", "late", "torn"}
    BY <1>4, TextTyped DEF PollCut, QueryTimesOut, Reconnect
  <2> QED BY <1>0, <1>4, <2>1 DEF PollCut, QueryTimesOut, Reconnect, TInv, TypeOK, Bounded
<1>5. CASE StopDeadline
  BY <1>0, <1>5, FinishTyped DEF StopDeadline, TypeOK
<1>6. CASE SelectSource
  BY <1>0, <1>6 DEF SelectSource, Proceed, Goto, TInv, TypeOK, Bounded, AfterDepth, InLoop,
     Steps, Requests, Registers
<1>7. CASE SelectFormat
  BY <1>0, <1>7 DEF SelectFormat, Proceed, Goto, TInv, TypeOK, Bounded, AfterDepth, InLoop,
     Steps, Requests, Registers
<1>8. CASE ReadDepth
  <2>1. link' \in {"step", "late", "torn"} /\ doubt' \in BOOLEAN /\ UNCHANGED scopeVars
    BY <1>0, <1>8, TextTyped DEF ReadDepth, Believe, OwnAnswer, TypeOK
  <2>2. CASE Finish("error", << >>)
    BY <2>1, <2>2, FinishTyped
  <2>3. CASE ~Finish("error", << >>)
    <3>1. /\ pc = "depth" /\ pc' = "calibration" /\ depth' \in Points
          /\ UNCHANGED <<request, answer, loopVars>>
      BY <1>8, <2>3 DEF ReadDepth, Goto, Points
    <3> QED BY <1>0, <2>1, <3>1 DEF TInv, TypeOK, Bounded, AfterDepth, InLoop, Steps, Points
  <2> QED BY <2>2, <2>3
<1>9. CASE ReadCalibration
  <2>1. link' \in {"step", "late", "torn"}
    BY <1>9, TextTyped DEF ReadCalibration
  <2> QED BY <1>0, <1>9, <2>1 DEF ReadCalibration, Goto, TInv, TypeOK, Bounded, AfterDepth,
          InLoop, Steps, Points
<1>10. CASE SetWindow
  <2>1. PICK w \in Windows(start, WindowEnd) :
               reg' = [reg EXCEPT !.start = w[1], !.stop = w[2]]
    BY <1>10 DEF SetWindow
  <2>2. w[1] \in Points /\ w[2] \in Points
    <3>1. start \in Points /\ WindowEnd \in Points
      BY <1>10, WindowWithin DEF SetWindow
    <3> QED BY <3>1 DEF Windows, Points
  <2>3. reg' \in Registers
    BY <1>0, <2>1, <2>2 DEF TypeOK, Registers
  <2> QED BY <1>0, <1>10, <2>3 DEF SetWindow, Proceed, Goto, TInv, TypeOK, Bounded, AfterDepth,
          InLoop, Steps
<1>11. CASE CheckWindow
  <2>1. link' \in {"step", "late", "torn"} /\ doubt' \in BOOLEAN /\ UNCHANGED scopeVars
    BY <1>0, <1>11, TextTyped DEF CheckWindow, Believe, OwnAnswer, TypeOK
  <2>2. CASE Finish("error", << >>)
    BY <2>1, <2>2, FinishTyped
  <2>3. CASE ~Finish("error", << >>)
    <3>1. pc = "verify" /\ Proceed("data")
      BY <1>11, <2>3 DEF CheckWindow
    <3> QED BY <1>0, <2>1, <3>1 DEF Proceed, Goto, TInv, TypeOK, Bounded, AfterDepth, InLoop,
            Steps
  <2> QED BY <2>2, <2>3
<1>12. CASE ReadBlock
  <2>1. pc = "data" /\ BlockArrives /\ UNCHANGED <<scopeVars, depth>>
    BY <1>12 DEF ReadBlock
  <2>2. reg.format = request.format
    BY <2>1 DEF Selected, AfterDepth, InLoop
  <2>3. CASE RetryChunk
    BY <2>1, <2>3, RetryTyped
  <2>4. CASE \E points \in Nat \ {0} : points <= Available /\ AcceptChunk(Read(points))
    BY <2>1, <2>4, AcceptTyped
  <2> QED BY <1>12, <2>2, <2>3, <2>4, BlockCases
<1>13. CASE EmptyBlock
  BY <1>13, BlockTyped, FinishTyped DEF EmptyBlock
<1>14. CASE WindowsDone
  BY <1>0, <1>14 DEF WindowsDone, Proceed, Goto, TInv, TypeOK, Bounded, AfterDepth, InLoop,
     Steps
<1>15. CASE CheckLength
  <2>1. CASE Finish("error", << >>)
    BY <1>0, <1>15, <2>1, FinishTyped DEF CheckLength, TypeOK
  <2>2. CASE ~Finish("error", << >>)
    BY <1>0, <1>15, <2>2 DEF CheckLength, Proceed, Goto, TInv, TypeOK, Bounded, AfterDepth,
       InLoop, Steps
  <2> QED BY <2>1, <2>2
<1>16. CASE Return
  BY <1>0, <1>16, TextTyped, FinishTyped DEF Return, TypeOK
<1>17. CASE LinkFails
  <2>1. link' \in {"step", "late", "torn"}
    BY <1>17, TextTyped DEF LinkFails
  <2> QED BY <1>0, <1>17, <2>1, FinishTyped DEF LinkFails, TypeOK
<1>18. ASSUME NEW c \in {"RUN", "STOP"}, Send(c)
       PROVE  TInv'
  <2>1. Append(pending, c) \in Seq({"RUN", "STOP"})
        /\ Len(Append(pending, c)) <= MaxPending
    BY <1>0, <1>18, AppendProperties DEF Send, TypeOK
  <2> QED BY <1>0, <1>18, <2>1 DEF Send, TInv, TypeOK, Bounded
<1>19. CASE RunOrSingle \/ StopScope
  BY <1>18, <1>19 DEF RunOrSingle, StopScope
<1>20. CASE ReadChannel
  BY <1>0, <1>20 DEF ReadChannel, Reading, TInv, TypeOK, Bounded, AfterDepth, InLoop, Steps
<1>21. CASE UNCHANGED vars
  BY <1>0, <1>21 DEF vars, TInv, TypeOK, Bounded
<1> QED
  BY <1>1, <1>2, <1>3, <1>4, <1>5, <1>6, <1>7, <1>8, <1>9, <1>10, <1>11, <1>12, <1>13, <1>14,
     <1>15, <1>16, <1>17, <1>19, <1>20, <1>21 DEF Next, Driver, Caller
----------------------------------------------------------------------------
(* The inductive invariant.  DeliveredWhole needs to know that the record   *)
(* is consecutive when it is returned, that needs the registers to hold the *)
(* window the driver means while a block is read, and the capture to stay   *)
(* the same from the first block to the last: because the scope is stopped  *)
(* and no run is pending, which is what a read without doubt has seen.      *)
Sure == WindowsTrusted /\ ~doubt
Chunked == InLoop \cup {"check", "context"}

Held ==
  /\ pc = "wait" => ~doubt
  /\ (~doubt /\ pc \notin {"wait", "idle"}) => (trig = "STOP" /\ ~RunPending)
  /\ (~doubt /\ pc \in AfterDepth) => depth = Depth
  /\ (Sure /\ pc = "data") => (reg.start = start /\ reg.stop = WindowEnd)
  /\ (Sure /\ pc \in Chunked) => start <= Depth + 1
  /\ (Sure /\ pc = "context") => start = Depth + 1

Joined == (Sure /\ pc \in Chunked) => record = Prefix(gen, request, start - 1)

Answered ==
  (Sure /\ answer.status = "ok") => \E g \in 0..gen : answer.samples = WholeRecord(g, request)

IInv == TInv /\ Selected /\ Held /\ Joined /\ Answered

LEMMA InitInductive == Init => IInv
<1> SUFFICES ASSUME Init PROVE IInv
  OBVIOUS
<1>1. TInv
  BY InitTyped
<1> QED BY <1>1 DEF Init, IInv, Selected, Held, Joined, Answered, Reading, AfterDepth, InLoop,
        Chunked

(* With no run pending the scope can only be told to stop. *)
LEMMA ObeysStop ==
  ASSUME TypeOK, Obey, ~RunPending
  PROVE  trig' = "STOP" /\ ~RunPending'
<1>1. /\ Len(pending) \in Nat \ {0} /\ Len(pending') = Len(pending) - 1
      /\ trig' = pending[1] /\ pending[1] \in {"RUN", "STOP"}
      /\ \A i \in 1..Len(pending') : pending'[i] = pending[i + 1]
  BY HeadTailProperties DEF TypeOK, Obey
<1> QED BY <1>1 DEF RunPending

LEMMA FinishInductive ==
  ASSUME IInv, TInv', NEW samples, Finish("error", samples), UNCHANGED scopeVars
  PROVE  IInv'
BY DEF IInv, Finish, Selected, Held, Joined, Answered, AfterDepth, InLoop, Chunked

(* A block accepted: the points that came are the next ones. *)
LEMMA AcceptInductive ==
  ASSUME IInv, TInv', Sure', pc = "data", NEW points \in Nat \ {0}, points <= Available,
         AcceptChunk(Read(points)), BlockArrives, UNCHANGED <<scopeVars, depth>>
  PROVE  Held' /\ Joined' /\ Answered'
<1> USE SizeAssumption DEF scopeVars
<1>0. TypeOK /\ Bounded /\ Selected /\ Held /\ Joined /\ Answered
  BY DEF IInv, TInv
<1>a. Sure /\ link # "torn"
  BY DEF Sure, BlockArrives, Believe, OwnAnswer, WindowsTrusted
<1>1. /\ reg.start = start /\ reg.stop = WindowEnd /\ depth = Depth /\ start <= depth
      /\ reg.source = request.source /\ reg.format = request.format
      /\ trig = "STOP" /\ ~RunPending
  BY <1>0, <1>a DEF Held, Sure, Bounded, Selected, AfterDepth, InLoop
<1>2. Read(points) = Chunk(points) /\ Len(Read(points)) = points
  BY <1>0, <1>a, ReadType DEF Read
<1>3. start' = start + points /\ start' <= Depth + 1
  <2>1. start' = start + points
    BY <1>2 DEF AcceptChunk
  <2>2. points <= reg.stop - reg.start + 1 /\ reg.stop <= depth
    BY <1>0, <1>1 DEF TypeOK, Registers, Points, Available, WindowEnd, Smaller
  <2> QED BY <1>0, <1>1, <2>1, <2>2 DEF TypeOK, Registers, Points
<1>4. record' = Prefix(gen, request, start' - 1)
  <2>0. PICK m \in Nat : m = start - 1
    BY <1>0 DEF TypeOK
  <2>1. record = Prefix(gen, request, m)
    BY <1>0, <1>a, <2>0 DEF Joined, InLoop, Chunked
  <2>2. Chunk(points) = Following(gen, request, m, points)
    BY <1>0, <1>1, <2>0, ChunkIsNext DEF TypeOK
  <2>3. start' - 1 = m + points
    BY <1>0, <1>3, <2>0 DEF TypeOK
  <2>4. Prefix(gen, request, m) \o Following(gen, request, m, points)
          = Prefix(gen, request, m + points)
    BY <2>0, PrefixGrows, SMTT(60)
  <2> QED BY <1>2, <2>1, <2>2, <2>3, <2>4 DEF AcceptChunk
<1>5. pc' = "window" /\ UNCHANGED <<request, answer, scopeVars, depth>> /\ ~doubt'
  BY DEF AcceptChunk, Goto, Sure
<1>6. Held'
  BY <1>1, <1>3, <1>5 DEF Held, RunPending, AfterDepth, InLoop, Chunked
<1>7. Joined'
  BY <1>4, <1>5 DEF Joined
<1>8. Answered'
  BY <1>0, <1>a, <1>5 DEF Answered, Sure
<1> QED BY <1>6, <1>7, <1>8

LEMMA ReadBlockInductive ==
  ASSUME IInv, TInv', ReadBlock
  PROVE  Held' /\ Joined' /\ Answered'
<1>0. TInv /\ TypeOK /\ Bounded /\ Selected /\ Held /\ Joined /\ Answered
  BY DEF IInv, TInv
<1>1. pc = "data" /\ BlockArrives /\ UNCHANGED <<scopeVars, depth>> /\ (doubt => doubt')
  BY DEF ReadBlock, BlockArrives, Believe
<1>2. reg.format = request.format
  BY <1>0, <1>1 DEF Selected, AfterDepth, InLoop
<1>3. pc' # "wait" /\ pc' # "context" /\ pc' # "data" /\ UNCHANGED <<request, answer>>
  BY DEF ReadBlock, AcceptChunk, RetryChunk, Goto
<1>4. CASE ~WindowsTrusted \/ doubt'
  <2>1. ~Sure' /\ ((~doubt' /\ pc' \in AfterDepth) => depth' = Depth)
        /\ (~doubt' => (trig' = "STOP" /\ ~RunPending'))
    BY <1>0, <1>1, <1>4 DEF Sure, Held, WindowsTrusted, scopeVars, RunPending, AfterDepth, InLoop
  <2> QED BY <1>3, <2>1 DEF Held, Joined, Answered
<1>5. CASE Sure' /\ RetryChunk
  <2>1. Sure /\ UNCHANGED <<start, record, scopeVars, depth, request, answer>>
        /\ ~doubt' /\ pc' \in {"window", "check"}
    BY <1>1, <1>5 DEF Sure, WindowsTrusted, RetryChunk, Goto
  <2>2. Held'
    BY <1>0, <1>1, <2>1 DEF Held, Sure, scopeVars, RunPending, AfterDepth, InLoop, Chunked
  <2>3. Joined' /\ Answered'
    BY <1>0, <1>1, <2>1 DEF Joined, Answered, Sure, scopeVars, InLoop, Chunked
  <2> QED BY <2>2, <2>3
<1>6. CASE Sure' /\ \E points \in Nat \ {0} : points <= Available /\ AcceptChunk(Read(points))
  BY <1>1, <1>6, AcceptInductive
<1> QED BY <1>0, <1>2, <1>4, <1>5, <1>6, BlockCases DEF Sure, WindowsTrusted

LEMMA StepInductive ==
  ASSUME IInv, [Next]_vars
  PROVE  IInv'
<1> USE SizeAssumption DEF scopeVars, loopVars
<1>0. TInv /\ TypeOK /\ Bounded /\ Selected /\ Held /\ Joined /\ Answered
  BY DEF IInv, TInv
<1>t. TInv' /\ Selected'
  BY <1>0, TypesInductive, SelectedInductive
<1>1. CASE Obey
  <2>1. Held'
    <3>1. ~RunPending => trig' = "STOP" /\ ~RunPending'
      BY <1>0, <1>1, ObeysStop
    <3>2. UNCHANGED <<doubt, pc, depth, reg, start, WindowEnd>>
      BY <1>1 DEF Obey, WindowEnd
    <3> QED BY <1>0, <3>1, <3>2 DEF Held, Sure
  <2>2. Joined' /\ Answered'
    BY <1>0, <1>1 DEF Obey, Joined, Answered, Sure
  <2> QED BY <1>t, <2>1, <2>2 DEF IInv
<1>2. CASE Trigger
  <2>1. Held'
    BY <1>0, <1>2 DEF Trigger, Held, Sure, RunPending, WindowEnd
  <2>2. Joined'
    <3>1. Sure => pc \in {"wait", "idle"}
      BY <1>0, <1>2 DEF Trigger, Held, Sure
    <3> QED BY <1>2, <3>1 DEF Trigger, Joined, Sure, InLoop, Chunked
  <2>3. Answered'
    BY <1>0, <1>2 DEF Trigger, Answered, Sure, TypeOK
  <2> QED BY <1>t, <2>1, <2>2, <2>3 DEF IInv
<1>3. CASE WaitUntilStopped
  <2>1. pc' = "source" /\ ~(pc' \in AfterDepth) /\ UNCHANGED <<answer, gen, request>>
        /\ ~(answer.status = "ok") /\ (~doubt' => trig' = "STOP" /\ ~RunPending')
    BY <1>0, <1>3 DEF WaitUntilStopped, Proceed, Goto, Bounded, RunPending, AfterDepth, InLoop
  <2> QED BY <1>t, <2>1 DEF IInv, Held, Joined, Answered, AfterDepth, InLoop, Chunked
<1>4. CASE PollCut \/ QueryTimesOut \/ Reconnect
  <2>1. UNCHANGED <<scopeVars, pc, request, depth, loopVars, answer, doubt>>
    BY <1>4 DEF PollCut, QueryTimesOut, Reconnect
  <2> QED BY <1>0, <1>t, <2>1 DEF IInv, Held, Joined, Answered, Sure, RunPending, WindowEnd
<1>5. ASSUME NEW samples, Finish("error", samples), UNCHANGED scopeVars
      PROVE  IInv'
  BY <1>t, <1>5, FinishInductive
<1>6. CASE StopDeadline \/ EmptyBlock \/ LinkFails
  BY <1>5, <1>6 DEF StopDeadline, EmptyBlock, LinkFails
<1>7. CASE SelectSource \/ SelectFormat
  <2>1. /\ pc \in {"source", "format"} /\ pc' \in {"format", "depth"} /\ UNCHANGED doubt
        /\ UNCHANGED <<trig, pending, answer, gen, request>>
    BY <1>7 DEF SelectSource, SelectFormat, Proceed, Goto
  <2> QED BY <1>0, <1>t, <2>1 DEF IInv, Held, Joined, Answered, Sure, RunPending, AfterDepth,
          InLoop, Chunked
<1>8. CASE ReadDepth
  <2>1. CASE Finish("error", << >>)
    BY <1>5, <1>8, <2>1 DEF ReadDepth
  <2>2. CASE ~Finish("error", << >>)
    <3>1. /\ pc = "depth" /\ pc' = "calibration" /\ UNCHANGED <<scopeVars, answer, request>>
          /\ (~doubt' => ~doubt /\ depth' = Depth)
      BY <1>8, <2>2 DEF ReadDepth, Believe, OwnAnswer, Goto
    <3> QED BY <1>0, <1>t, <3>1 DEF IInv, Held, Joined, Answered, Sure, RunPending, AfterDepth,
            InLoop, Chunked
  <2> QED BY <2>1, <2>2
<1>9. CASE ReadCalibration
  <2>1. /\ pc = "calibration" /\ pc' = "window" /\ start' = 1 /\ record' = << >>
        /\ UNCHANGED <<scopeVars, depth, doubt, answer, request>>
    BY <1>9 DEF ReadCalibration, Goto
  <2>2. Joined'
    BY <2>1 DEF Joined, Prefix
  <2> QED BY <1>0, <1>t, <2>1, <2>2 DEF IInv, Held, Answered, Sure, RunPending, AfterDepth,
          InLoop, Chunked
<1>10. CASE SetWindow
  <2>1. PICK w \in Windows(start, WindowEnd) :
               reg' = [reg EXCEPT !.start = w[1], !.stop = w[2]]
    BY <1>10 DEF SetWindow
  <2>2. /\ pc = "window" /\ pc' = (IF VerifyWindow THEN "verify" ELSE "data")
        /\ UNCHANGED <<trig, pending, gen, doubt, depth, loopVars, answer, request, WindowEnd>>
    BY <1>10 DEF SetWindow, Proceed, Goto, WindowEnd
  <2>3. (Sure /\ pc' = "data") => reg'.start = start /\ reg'.stop = WindowEnd
    <3>1. ASSUME Sure, pc' = "data"
          PROVE  w[1] = start /\ w[2] = WindowEnd
      BY <2>2, <3>1 DEF Windows, Sure, WindowsTrusted
    <3> QED BY <1>0, <2>1, <3>1 DEF TypeOK, Registers
  <2>4. Held'
    BY <1>0, <2>2, <2>3 DEF Held, Sure, RunPending, AfterDepth, InLoop, Chunked
  <2>5. Joined' /\ Answered'
    BY <1>0, <2>2 DEF Joined, Answered, Sure, InLoop, Chunked
  <2> QED BY <1>t, <2>4, <2>5 DEF IInv
<1>11. CASE CheckWindow
  <2>1. CASE Finish("error", << >>)
    BY <1>5, <1>11, <2>1 DEF CheckWindow
  <2>2. CASE ~Finish("error", << >>)
    <3>1. /\ pc = "verify" /\ pc' = "data" /\ (doubt => doubt')
          /\ (~doubt' => reg.start = start /\ reg.stop = WindowEnd)
          /\ UNCHANGED <<scopeVars, depth, loopVars, answer, request, WindowEnd>>
      BY <1>11, <2>2 DEF CheckWindow, Believe, OwnAnswer, Proceed, Goto, WindowEnd
    <3>2. Held'
      BY <1>0, <3>1 DEF Held, Sure, RunPending, AfterDepth, InLoop, Chunked
    <3>3. Joined' /\ Answered'
      BY <1>0, <3>1 DEF Joined, Answered, Sure, InLoop, Chunked
    <3> QED BY <1>t, <3>2, <3>3 DEF IInv
  <2> QED BY <2>1, <2>2
<1>12. CASE ReadBlock
  BY <1>t, <1>12, ReadBlockInductive DEF IInv
<1>13. CASE WindowsDone
  <2>1. /\ pc = "window" /\ pc' = "check"
        /\ UNCHANGED <<scopeVars, doubt, depth, loopVars, answer, request>>
    BY <1>13 DEF WindowsDone, Proceed, Goto
  <2> QED BY <1>0, <1>t, <2>1 DEF IInv, Held, Joined, Answered, Sure, RunPending, AfterDepth,
          InLoop, Chunked
<1>14. CASE CheckLength
  <2>1. CASE Finish("error", << >>)
    BY <1>5, <1>14, <2>1 DEF CheckLength
  <2>2. CASE ~Finish("error", << >>)
    <3>1. /\ pc = "check" /\ pc' = "context" /\ ~(Len(record) < depth)
          /\ UNCHANGED <<scopeVars, doubt, depth, loopVars, answer, request>>
      BY <1>14, <2>2 DEF CheckLength, Proceed, Goto
    <3>2. Sure => start = Depth + 1
      <4> SUFFICES ASSUME Sure PROVE start = Depth + 1
        OBVIOUS
      <4>1. record = Prefix(gen, request, start - 1) /\ depth = Depth /\ start <= Depth + 1
        BY <1>0, <3>1 DEF Joined, Held, Sure, AfterDepth, Chunked
      <4>2. start - 1 \in Nat /\ start \in Nat
        BY <1>0 DEF TypeOK
      <4>3. Len(record) = start - 1
        BY <4>1, <4>2, PrefixLength
      <4> QED BY <3>1, <4>1, <4>2, <4>3
    <3>3. Held'
      BY <1>0, <3>1, <3>2 DEF Held, Sure, RunPending, AfterDepth, InLoop, Chunked
    <3>4. Joined' /\ Answered'
      BY <1>0, <3>1 DEF Joined, Answered, Sure, InLoop, Chunked
    <3> QED BY <1>t, <3>3, <3>4 DEF IInv
  <2> QED BY <2>1, <2>2
<1>15. CASE Return
  <2>1. /\ pc = "context" /\ pc' = "idle" /\ answer' = [status |-> "ok", samples |-> record]
        /\ UNCHANGED <<scopeVars, doubt, request>>
    BY <1>15 DEF Return, Finish
  <2>2. Sure => record = WholeRecord(gen, request)
    BY <1>0, <2>1 DEF Joined, Held, Sure, Prefix, WholeRecord, Chunked
  <2>3. gen \in 0..gen
    BY <1>0 DEF TypeOK
  <2>4. Answered'
    BY <2>1, <2>2, <2>3 DEF Answered, Sure, WholeRecord
  <2>5. Held' /\ Joined'
    BY <2>1 DEF Held, Joined, AfterDepth, InLoop, Chunked
  <2> QED BY <1>t, <2>4, <2>5 DEF IInv
<1>16. CASE RunOrSingle \/ StopScope
  <2>1. pc = "idle" /\ UNCHANGED <<pc, gen, request, doubt, answer>>
    BY <1>16 DEF RunOrSingle, StopScope, Send
  <2> QED BY <1>0, <1>t, <2>1 DEF IInv, Held, Joined, Answered, Sure, AfterDepth, InLoop, Chunked
<1>17. CASE ReadChannel
  BY <1>t, <1>17 DEF ReadChannel, Reading, IInv, Held, Joined, Answered, AfterDepth, InLoop,
     Chunked
<1>18. CASE UNCHANGED vars
  BY <1>0, <1>t, <1>18 DEF vars, IInv, Held, Joined, Answered, Sure, RunPending, WindowEnd
<1> QED
  BY <1>1, <1>2, <1>3, <1>4, <1>6, <1>7, <1>8, <1>9, <1>10, <1>11, <1>12, <1>13, <1>14, <1>15,
     <1>16, <1>17, <1>18 DEF Next, Driver, Caller
----------------------------------------------------------------------------
LEMMA InvariantHolds == Spec => []IInv
<1>1. IInv /\ [Next]_vars => IInv'
  BY StepInductive
<1> QED BY InitInductive, <1>1, PTL DEF Spec

(* No variable ever leaves its type, doubtful reads included: the registers *)
(* and the window stay within what the depths read can name, and the retry  *)
(* counter inside its budget.                                               *)
THEOREM TypeCorrect == Spec => []TypeOK
<1>1. IInv => TypeOK
  BY DEF IInv, TInv
<1> QED BY InvariantHolds, <1>1, PTL

(* The batches of _read_full_waveform are consecutive, with no gap and no   *)
(* overlap, at every turn of the loop of a read that did not go on in doubt.*)
THEOREM ChunksConsecutive == Spec => []Consecutive
<1>1. IInv => Consecutive
  BY DEF IInv, Joined, Consecutive, Prefix, InLoop, Chunked, Sure
<1> QED BY InvariantHolds, <1>1, PTL

(* read_channel returns one whole capture or raises, unless it went on in   *)
(* doubt: however late :RUN, :SINGle and :STOP are obeyed and replies come. *)
THEOREM ReadsWhole == Spec => []DeliveredWhole
<1>1. IInv => DeliveredWhole
  BY DEF IInv, Answered, DeliveredWhole, Sure
<1> QED BY InvariantHolds, <1>1, PTL
----------------------------------------------------------------------------
(* Every step of the driver, the scope and the caller is a step of          *)
(* RecordDelivery or leaves what the caller sees alone.  Its liveness is    *)
(* checked by TLC.                                                          *)
LEMMA StepRefines ==
  ASSUME WindowsTrusted, IInv, IInv', [Next]_vars
  PROVE  [Promise!Next]_(Promise!vars)
<1> USE DEF scopeVars, loopVars, Promise!Reading
<1>0. TInv /\ TypeOK /\ Bounded /\ Held /\ Joined /\ Answered
  BY DEF IInv, TInv
<1>u. (RunPending' \/ link' # "step") \in BOOLEAN
  BY DEF RunPending
<1>1. CASE Trigger
  BY <1>1, <1>u DEF Trigger, Promise!Next, Promise!Capture
<1>2. ASSUME UNCHANGED <<gen, request, answer>>,
             \/ doubt' = doubt
             \/ pc # "idle" /\ (RunPending' \/ link' # "step") /\ doubt' = TRUE
      PROVE  Promise!Next
  BY <1>0, <1>2, <1>u DEF Bounded, Promise!Next, Promise!Proceed
<1>3. ASSUME Finish("error", << >>), pc # "idle", UNCHANGED gen
      PROVE  Promise!Next
  <2>1. doubt' \in BOOLEAN
    BY DEF IInv, TInv, TypeOK
  <2> QED BY <1>0, <1>3, <1>u, <2>1 DEF Finish, Bounded, Promise!Next, Promise!Refuse
<1>4. ASSUME pc # "idle", UNCHANGED <<gen, request, answer>>, doubt' = (doubt \/ link' # "step")
      PROVE  Promise!Next
  BY <1>0, <1>2, <1>4 DEF TypeOK
<1>5. CASE WaitUntilStopped
  <2>1. pc = "wait" /\ ~doubt /\ UNCHANGED <<gen, request, answer, RunPending>>
        /\ doubt' = (link' # "step" \/ RunPending)
    BY <1>0, <1>5 DEF WaitUntilStopped, OwnAnswer, Proceed, Goto, Held, RunPending
  <2> QED BY <1>0, <1>2, <2>1 DEF TypeOK
<1>6. CASE \/ Obey \/ PollCut \/ SelectSource \/ SelectFormat \/ ReadCalibration
           \/ SetWindow \/ WindowsDone \/ RunOrSingle \/ StopScope
           \/ QueryTimesOut \/ Reconnect \/ UNCHANGED vars
  BY <1>2, <1>6 DEF Obey, PollCut, SelectSource, SelectFormat, ReadCalibration, SetWindow,
     WindowsDone, RunOrSingle, StopScope, Send, QueryTimesOut, Reconnect, Proceed, Goto, vars
<1>7. CASE StopDeadline \/ EmptyBlock \/ LinkFails
  BY <1>3, <1>7 DEF StopDeadline, EmptyBlock, LinkFails
<1>8. CASE ReadDepth
  BY <1>3, <1>4, <1>8 DEF ReadDepth, Believe, OwnAnswer, Goto
<1>9. CASE CheckWindow
  BY <1>3, <1>4, <1>9 DEF CheckWindow, Believe, OwnAnswer, Proceed, Goto
<1>10. CASE CheckLength
  BY <1>2, <1>3, <1>10 DEF CheckLength, Proceed, Goto
<1>11. CASE ReadBlock
  BY <1>4, <1>11 DEF ReadBlock, BlockArrives, Believe, OwnAnswer, AcceptChunk, RetryChunk, Goto
<1>12. CASE Return
  <2>1. /\ pc = "context" /\ answer' = [status |-> "ok", samples |-> record]
        /\ UNCHANGED <<gen, doubt, request>>
    BY <1>12 DEF Return, Finish
  <2>2. ~doubt => record = Promise!WholeRecord(gen, request)
    <3>1. ~doubt => record = WholeRecord(gen, request)
      BY SizeAssumption, <1>0, <2>1 DEF Joined, Held, Sure, Prefix, WholeRecord, Chunked
    <3> QED BY <3>1 DEF WholeRecord, Sample, Promise!WholeRecord, Promise!Sample
  <2>3. record \in Promise!Anything
    <3>1. Samples \subseteq [gen : 0..MaxGen, source : Channels, format : Formats, pos : Nat]
      BY SizeAssumption DEF Samples
    <3>2. record \in Seq(Samples)
      BY <1>0 DEF TypeOK, Samples
    <3>3. \A T : Samples \subseteq T => record \in Seq(T)
      BY <3>2, SeqMonotonic, Zenon
    <3> QED BY <3>1, <3>3 DEF Promise!Anything
  <2> QED BY <1>0, <1>u, <2>1, <2>2, <2>3 DEF Bounded, Promise!Next, Promise!Deliver
<1>13. CASE ReadChannel
  BY <1>0, <1>13, <1>u DEF ReadChannel, Bounded, Reading, Requests, Formats,
     Promise!Next, Promise!Ask, Promise!Requests
<1> QED
  BY <1>1, <1>5, <1>6, <1>7, <1>8, <1>9, <1>10, <1>11, <1>12, <1>13 DEF Next, Driver, Caller

(* The driver delivers what RecordDelivery promises, liveness aside.        *)
THEOREM DeliversPromise ==
  WindowsTrusted => (Spec => Promise!Init /\ [][Promise!Next]_(Promise!vars))
<1> SUFFICES ASSUME WindowsTrusted PROVE Spec => Promise!Init /\ [][Promise!Next]_(Promise!vars)
  OBVIOUS
<1>1. Init => Promise!Init
  BY SizeAssumption DEF Init, Reading, Requests, Formats, RunPending, Promise!Init,
     Promise!Requests
<1>2. IInv /\ IInv' /\ [Next]_vars => [Promise!Next]_(Promise!vars)
  BY StepRefines
<1> QED BY <1>1, <1>2, InvariantHolds, PTL DEF Spec
=============================================================================
