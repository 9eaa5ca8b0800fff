-------------------------- MODULE ShotArchiveProof --------------------------
(***************************************************************************)
(* For any archive, any shots asked for and any length: the rows of a      *)
(* stack are the shots asked for, and what was complete when the call      *)
(* began is in it, whatever the writer does meanwhile.                     *)
(***************************************************************************)
EXTENDS ShotArchive, SequenceTheorems, TLAPS

(* What the proof needs of the types.                                        *)
Types ==
  /\ samples \in [Recorded -> 0..MaxLen]
  /\ header \in [Recorded -> Headers]
  /\ ask \in Asks
  /\ place.item \in Nat \ {0}
  /\ width \in 0..MaxLen
  /\ rows \in Seq(Row)
  /\ scaling \in Headers

(* The writer takes nothing back of what could be read.                      *)
ReadyKept ==
  /\ pc = "idle" => ready = {}
  /\ \A x \in ready : /\ x \in Recorded /\ <<x.scope, x.shot>> \in groups
                      /\ samples[x] # 0 /\ header[x] \in Scalings

Progress ==
  /\ pc # "done" => outcome = "none"
  /\ pc \in {"idle", "scaling"} => rows = << >>
  /\ pc = "idle" => place.item = 1
  /\ pc = "scaling" => place.item \in 1..(Len(ask.shots) + 1)
  /\ pc = "rows" => /\ Len(rows) = place.item - 1
                    /\ place.item \in 1..(Len(ask.shots) + 1)

Usable(i) == Asked(i) \in ready /\ NotSkipped(Asked(i))

(* The first pass has passed over no shot that it could have used.           *)
PassedOver == pc = "scaling" => \A i \in 1..(place.item - 1) : ~Usable(i)

RowFits(i) == rows[i] # NaN => /\ width # 0
                               /\ rows[i].shot = ask.shots[i] /\ rows[i].len = width
RowKept(i) == Usable(i) => /\ width # 0
                           /\ samples[Asked(i)] = width => rows[i] # NaN

(* The rows so far, and a width that no row changes once it is known.        *)
RowsSoFar ==
  pc = "rows" => /\ ask.expected # 0 => width = ask.expected
                 /\ \A i \in 1..(place.item - 1) : RowFits(i) /\ RowKept(i)

IInv == /\ Types /\ ReadyKept /\ Progress
        /\ PassedOver /\ RowsSoFar
        /\ RowsAreShots /\ CompleteKept

LEMMA AskTypes ==
  ASSUME Types
  PROVE  /\ Len(ask.shots) \in Nat /\ DOMAIN ask.shots = 1..Len(ask.shots)
         /\ \A i \in 1..Len(ask.shots) : ask.shots[i] \in 1..Shots
         /\ ask.expected \in 0..MaxLen
<1>1. ask \in Ask
  BY AskAssumption DEF Types
<1>2. ask.shots \in Seq(1..Shots) /\ ask.expected \in 0..MaxLen
  BY <1>1 DEF Ask
<1>3. Len(ask.shots) \in Nat /\ DOMAIN ask.shots = 1..Len(ask.shots)
  BY <1>2, LenProperties
<1>4. \A i \in 1..Len(ask.shots) : ask.shots[i] \in 1..Shots
  BY <1>2, ElementOfSeq
<1> QED BY <1>2, <1>3, <1>4

LEMMA InitInductive == Init => IInv
<1> SUFFICES ASSUME Init PROVE IInv
  OBVIOUS
<1>1. Types
  <2>1. << >> \in Seq(Row) /\ 0 \in 0..MaxLen
    BY BoundAssumption
  <2>2. /\ samples \in [Recorded -> 0..MaxLen] /\ header \in [Recorded -> Headers]
        /\ scaling \in Headers
    BY <2>1 DEF Init, Headers
  <2>3. ask \in Asks /\ place.item = 1 /\ width = 0 /\ rows = << >>
    BY DEF Init
  <2> QED BY <2>1, <2>2, <2>3 DEF Types
<1>2. ReadyKept /\ Progress /\ PassedOver /\ RowsSoFar
  BY DEF Init, ReadyKept, Progress, PassedOver, RowsSoFar
<1>3. RowsAreShots /\ CompleteKept
  <2>1. outcome = "none" /\ ready = {}
    BY DEF Init
  <2> QED BY <2>1 DEF RowsAreShots, CompleteKept
<1> QED BY <1>1, <1>2, <1>3 DEF IInv

(* The writer only adds.                                                     *)
LEMMA WriterAdds ==
  ASSUME Types, Writer
  PROVE  /\ UNCHANGED <<pc, place, ask, scaling, width, rows, held, result, outcome, ready>>
         /\ pc # "done"
         /\ groups \subseteq groups' /\ skipped \subseteq skipped'
         /\ samples' \in [Recorded -> 0..MaxLen] /\ header' \in [Recorded -> Headers]
         /\ \A x \in Recorded : samples[x] # 0 => samples'[x] = samples[x]
         /\ \A x \in Recorded : header[x] # "none" => header'[x] = header[x]
<1>1. /\ UNCHANGED <<pc, place, ask, scaling, width, rows, held, result, outcome, ready>>
      /\ pc # "done"
  BY DEF Writer, NewGroup, Skip, WriteSamples, WriteHeader, Reader, stackVars, treeVars
<1>2. groups \subseteq groups' /\ skipped \subseteq skipped'
  BY DEF Writer, NewGroup, Skip, WriteSamples, WriteHeader
<1>3. /\ samples' \in [Recorded -> 0..MaxLen] /\ header' \in [Recorded -> Headers]
      /\ \A x \in Recorded : samples[x] # 0 => samples'[x] = samples[x]
      /\ \A x \in Recorded : header[x] # "none" => header'[x] = header[x]
  <2>1. CASE UNCHANGED <<samples, header>>
    BY <2>1 DEF Types
  <2>2. ASSUME NEW x \in Recorded, WriteSamples(x) PROVE <1>3
    BY <2>2, BoundAssumption DEF WriteSamples, Types
  <2>3. ASSUME NEW x \in Recorded, WriteHeader(x) PROVE <1>3
    BY <2>3, ScalingAssumption DEF WriteHeader, Types, Headers
  <2> QED BY <2>1, <2>2, <2>3 DEF Writer, NewGroup, Skip
<1> QED BY <1>1, <1>2, <1>3

LEMMA WriterKeeps ==
  ASSUME IInv, Writer
  PROVE  IInv'
<1>1. /\ UNCHANGED <<pc, place, ask, scaling, width, rows, outcome, ready>>
      /\ pc # "done"
  BY WriterAdds DEF IInv
<1>2. groups \subseteq groups' /\ skipped \subseteq skipped'
  BY WriterAdds DEF IInv
<1>3. /\ samples' \in [Recorded -> 0..MaxLen] /\ header' \in [Recorded -> Headers]
      /\ \A x \in Recorded : samples[x] # 0 => samples'[x] = samples[x]
      /\ \A x \in Recorded : header[x] \in Scalings => header'[x] = header[x]
  BY WriterAdds, ScalingAssumption DEF IInv
<1>4. \A x \in ready : /\ x \in Recorded /\ samples'[x] = samples[x] /\ samples'[x] # 0
                       /\ header'[x] \in Scalings /\ <<x.scope, x.shot>> \in groups'
  BY <1>2, <1>3 DEF IInv, ReadyKept
<1>5. Types' /\ ReadyKept' /\ Progress'
  BY <1>1, <1>3, <1>4 DEF IInv, Types, ReadyKept, Progress
<1>6. \A i : Asked(i)' = Asked(i)
  BY <1>1 DEF Asked, At
<1>7. \A i : Usable(i)' => Usable(i)
  BY <1>1, <1>2, <1>6 DEF Usable, NotSkipped
<1>8. PassedOver'
  BY <1>1, <1>7 DEF IInv, PassedOver
<1>9. RowsSoFar'
  <2> SUFFICES ASSUME pc = "rows" PROVE RowsSoFar'
    BY <1>1 DEF RowsSoFar
  <2>1. ASSUME NEW i \in 1..(place.item - 1) PROVE RowFits(i)' /\ RowKept(i)'
    <3>1. RowFits(i) /\ RowKept(i)
      BY DEF IInv, RowsSoFar
    <3>2. Usable(i)' => Usable(i) /\ samples'[Asked(i)] = samples[Asked(i)]
      BY <1>4, <1>7 DEF Usable
    <3> QED BY <1>1, <1>6, <3>1, <3>2 DEF RowFits, RowKept
  <2> QED BY <1>1, <2>1 DEF IInv, RowsSoFar
<1>10. RowsAreShots' /\ CompleteKept'
  BY <1>1 DEF IInv, Progress, RowsAreShots, CompleteKept
<1> QED BY <1>5, <1>8, <1>9, <1>10 DEF IInv

(* A step of the call for all scopes leaves the stack alone.                 *)
LEMMA TreeKeeps ==
  ASSUME IInv, UNCHANGED <<fileVars, ask, stackVars, ready>>,
         pc \in {"scope", "channel"}, pc' \in {"scope", "channel", "done"},
         place'.item \in Nat \ {0},
         outcome' \in {"none", "tree", "error"}, pc' # "done" => outcome' = "none"
  PROVE  IInv'
<1>1. Types' /\ ReadyKept'
  BY DEF IInv, Types, ReadyKept, fileVars, stackVars
<1>2. Progress' /\ PassedOver' /\ RowsSoFar'
  BY DEF Progress, PassedOver, RowsSoFar
<1>3. RowsAreShots' /\ CompleteKept'
  BY DEF RowsAreShots, CompleteKept
<1> QED BY <1>1, <1>2, <1>3 DEF IInv

LEMMA StartKeeps ==
  ASSUME IInv, NEW step \in {"scaling", "scope"}, Start(step)
  PROVE  IInv'
<1>1. /\ pc = "idle" /\ pc' = step /\ outcome' = "none" /\ outcome = "none"
      /\ place'.item = 1 /\ rows' = << >>
      /\ UNCHANGED <<groups, skipped, samples, header, place, scaling, width, rows, outcome>>
  BY DEF Start, IInv, Progress, fileVars, stackVars
<1>2. Types'
  BY <1>1 DEF IInv, Types, Start
<1>3. ReadyKept'
  <2>1. ready' = {x \in Recorded : Readable(x)}
    BY DEF Start
  <2> QED BY <1>1, <2>1 DEF ReadyKept, Readable, Visible, Scaled
<1>4. Progress'
  BY <1>1, <1>2, AskTypes DEF Progress, IInv, Start, Types
<1>5. PassedOver' /\ RowsSoFar' /\ RowsAreShots' /\ CompleteKept'
  BY <1>1 DEF PassedOver, RowsSoFar, RowsAreShots, CompleteKept
<1> QED BY <1>2, <1>3, <1>4, <1>5 DEF IInv

LEMMA FindScalingKeeps ==
  ASSUME IInv, FindScaling
  PROVE  IInv'
<1>1. /\ pc = "scaling" /\ outcome = "none" /\ rows = << >>
      /\ UNCHANGED <<groups, skipped, samples, header, ask, rows, ready>>
      /\ place.item \in 1..(Len(ask.shots) + 1)
      /\ \A i \in 1..(place.item - 1) : ~Usable(i)
  BY DEF FindScaling, IInv, Progress, PassedOver, fileVars
<1>2. Len(ask.shots) \in Nat /\ DOMAIN ask.shots = 1..Len(ask.shots) /\ ask.expected \in 0..MaxLen
  BY AskTypes DEF IInv
<1>3. \A i : Usable(i)' = Usable(i)
  BY <1>1 DEF Usable, Asked, At, NotSkipped
<1>4. ReadyKept' 
  BY <1>1 DEF FindScaling, IInv, ReadyKept, End, Step
<1>5. CASE place.item > Len(ask.shots)
  <2>1. pc' = "done" /\ outcome' = "nothing" /\ UNCHANGED <<place, scaling, width>>
    BY <1>5 DEF FindScaling, End
  <2>2. Types' /\ Progress' /\ PassedOver' /\ RowsSoFar' /\ RowsAreShots'
    BY <1>1, <2>1 DEF IInv, Types, Progress, PassedOver, RowsSoFar, RowsAreShots
  <2>3. \A i \in DOMAIN ask.shots : ~Usable(i)
    BY <1>1, <1>2, <1>5
  <2>4. CompleteKept'
    BY <1>1, <1>3, <2>1, <2>3 DEF CompleteKept, Usable
  <2> QED BY <1>4, <2>2, <2>4 DEF IInv
<1>6. CASE place.item <= Len(ask.shots) /\ Readable(Here)
  <2>1. /\ pc' = "rows" /\ outcome' = "none" /\ place'.item = 1
        /\ scaling' = header[Here] /\ width' = ask.expected
    BY <1>1, <1>2, <1>6 DEF FindScaling, Step
  <2>2. header[Here] \in Headers
    BY <1>6 DEF Readable, Scaled, Headers
  <2>3. Types'
    BY <1>1, <1>2, <2>1, <2>2 DEF IInv, Types
  <2>4. Progress' /\ PassedOver' /\ RowsSoFar'
    BY <1>1, <1>2, <2>1 DEF Progress, PassedOver, RowsSoFar
  <2>5. RowsAreShots' /\ CompleteKept'
    BY <2>1 DEF RowsAreShots, CompleteKept
  <2> QED BY <1>4, <2>3, <2>4, <2>5 DEF IInv
<1>7. CASE place.item <= Len(ask.shots) /\ ~Readable(Here)
  <2>1. /\ pc' = "scaling" /\ outcome' = "none" /\ place'.item = place.item + 1
        /\ UNCHANGED <<scaling, width>>
    BY <1>1, <1>2, <1>7 DEF FindScaling, Step
  <2>2. Types' /\ Progress' /\ RowsSoFar'
    BY <1>1, <1>2, <1>7, <2>1 DEF IInv, Types, Progress, RowsSoFar
  <2>3. ~Usable(place.item)
    BY <1>7 DEF IInv, ReadyKept, Usable, Asked, Here, NotSkipped, Readable, Visible, Scaled
  <2>4. PassedOver'
    BY <1>1, <1>2, <1>3, <2>1, <2>3 DEF PassedOver
  <2>5. RowsAreShots' /\ CompleteKept'
    BY <2>1 DEF RowsAreShots, CompleteKept
  <2> QED BY <1>4, <2>2, <2>4, <2>5 DEF IInv
<1> QED BY <1>1, <1>2, <1>5, <1>6, <1>7

(* The row a step of the second pass adds.                                   *)
TheRow == IF Visible(Here) /\ samples[Here] = Width THEN Volts(Here, scaling) ELSE NaN

LEMMA RowAdded ==
  ASSUME IInv, ReadRow, NEW n \in Nat, n = place.item
  PROVE  /\ pc = "rows" /\ pc' = "rows" /\ outcome = "none" /\ outcome' = "none"
         /\ UNCHANGED <<groups, skipped, samples, header, ask, scaling, held, result, ready>>
         /\ place' = [scope |-> 1, item |-> n + 1] /\ width' = Width
         /\ n \in 1..Len(ask.shots) /\ Len(rows) = n - 1 /\ Here = Asked(n)
         /\ width' \in 0..MaxLen /\ (width # 0 => width' = width)
         /\ Visible(Here) => width' # 0 /\ samples[Here] \in 0..MaxLen
         /\ rows' \in Seq(Row) /\ Len(rows') = n /\ rows'[n] = TheRow
         /\ \A i \in 1..(n - 1) : rows'[i] = rows[i]
<1>1. /\ pc = "rows" /\ pc' = "rows" /\ outcome = "none" /\ outcome' = "none"
      /\ UNCHANGED <<groups, skipped, samples, header, ask, scaling, held, result, ready>>
      /\ place' = [scope |-> 1, item |-> n + 1] /\ width' = Width
      /\ rows' = Append(rows, TheRow)
      /\ n \in 1..Len(ask.shots) /\ Len(rows) = n - 1
  BY DEF ReadRow, TheRow, IInv, Progress, Step, fileVars, treeVars
<1>2. \A i \in 1..Len(ask.shots) : ask.shots[i] \in 1..Shots
  BY AskTypes DEF IInv
<1>3. Here = Asked(n) /\ Here.shot = ask.shots[n]
  BY DEF Here, Asked, At
<1>4. /\ width' \in 0..MaxLen /\ (width # 0 => width' = width)
      /\ Visible(Here) => width' # 0 /\ samples[Here] \in 0..MaxLen
  BY <1>1 DEF Width, Visible, IInv, Types
<1>5. TheRow \in Row
  <2>1. NaN \in Row
    BY BoundAssumption DEF NaN, Row, Headers
  <2>2. Visible(Here) => Volts(Here, scaling) \in Row
    <3>1. Here.shot \in 0..Shots /\ scaling \in Headers
      BY <1>1, <1>2, <1>3, BoundAssumption DEF IInv, Types
    <3> QED BY <1>4, <3>1 DEF Volts, Row
  <2> QED BY <2>1, <2>2 DEF TheRow
<1>6. /\ rows' \in Seq(Row) /\ Len(rows') = n /\ rows'[n] = TheRow
      /\ \A i \in 1..(n - 1) : rows'[i] = rows[i]
  BY <1>1, <1>5 DEF IInv, Types
<1> QED BY <1>1, <1>3, <1>4, <1>6

LEMMA ReadRowKeeps ==
  ASSUME IInv, ReadRow
  PROVE  IInv'
<1>0. PICK n \in Nat : n = place.item
  BY DEF IInv, Types
<1>1. /\ pc = "rows" /\ pc' = "rows" /\ outcome = "none" /\ outcome' = "none"
      /\ UNCHANGED <<groups, skipped, samples, header, ask, scaling, ready>>
      /\ place'.item = n + 1 /\ width' = Width
      /\ n \in 1..Len(ask.shots) /\ Len(rows) = n - 1
  BY <1>0, RowAdded
<1>2. /\ Len(ask.shots) \in Nat /\ DOMAIN ask.shots = 1..Len(ask.shots)
      /\ \A i \in 1..Len(ask.shots) : ask.shots[i] \in 1..Shots
  BY AskTypes DEF IInv
<1>3. Here = Asked(n) /\ Here.shot = ask.shots[n]
  BY <1>0 DEF Here, Asked, At
<1>4. /\ width' \in 0..MaxLen
      /\ width # 0 => width' = width
      /\ Visible(Here) => width' # 0
      /\ Visible(Here) => samples[Here] \in 0..MaxLen
  BY <1>0, RowAdded
<1>6. /\ rows' \in Seq(Row) /\ Len(rows') = n /\ rows'[n] = TheRow
      /\ \A i \in 1..(n - 1) : rows'[i] = rows[i]
  BY <1>0, RowAdded
<1>7. \A i : Usable(i)' = Usable(i) /\ Asked(i)' = Asked(i)
  BY <1>1 DEF Usable, Asked, At, NotSkipped
<1>8. Types' /\ ReadyKept' /\ Progress' /\ PassedOver'
  BY <1>1, <1>2, <1>4, <1>6 DEF IInv, Types, ReadyKept, Progress, PassedOver
<1>9. ASSUME NEW i \in 1..(n - 1) PROVE RowFits(i)' /\ RowKept(i)'
  <2>1. RowFits(i) /\ RowKept(i)
    BY <1>0, <1>1 DEF IInv, RowsSoFar
  <2> QED BY <1>1, <1>4, <1>6, <1>7, <2>1 DEF RowFits, RowKept
<1>10. RowFits(n)' /\ RowKept(n)'
  <2>1. TheRow # NaN => /\ width' # 0
                       /\ TheRow.shot = ask.shots[n] /\ TheRow.len = width'
    BY <1>1, <1>3, <1>4 DEF TheRow, Volts
  <2>2. Usable(n) => Visible(Here)
    BY <1>3 DEF IInv, ReadyKept, Usable, NotSkipped, Visible
  <2>3. Visible(Here) /\ samples[Here] = width' => TheRow # NaN
    BY <1>1, <1>2, <1>3 DEF TheRow, Volts, NaN
  <2> QED BY <1>1, <1>3, <1>4, <1>6, <1>7, <2>1, <2>2, <2>3 DEF RowFits, RowKept
<1>11. RowsSoFar'
  <2>1. ASSUME NEW i \in 1..n PROVE RowFits(i)' /\ RowKept(i)'
    <3>1. CASE i = n
      BY <1>10, <3>1
    <3>2. CASE i # n
      <4>1. i \in 1..(n - 1)
        BY <1>0, <3>2
      <4> QED BY <1>9, <4>1
    <3> QED BY <3>1, <3>2
  <2>2. ask.expected # 0 => width' = ask.expected
    BY <1>1, <1>4 DEF IInv, RowsSoFar
  <2> QED BY <1>0, <1>1, <2>1, <2>2 DEF RowsSoFar
<1>12. RowsAreShots' /\ CompleteKept'
  BY <1>1 DEF RowsAreShots, CompleteKept
<1> QED BY <1>8, <1>11, <1>12 DEF IInv

LEMMA StackRowsKeeps ==
  ASSUME IInv, StackRows
  PROVE  IInv'
<1>1. /\ pc = "rows" /\ pc' = "done"
      /\ outcome' = IF width = 0 THEN "nothing" ELSE "stack"
      /\ UNCHANGED <<groups, skipped, samples, header, ask, place, scaling, width, rows, ready>>
      /\ place.item > Len(ask.shots)
  BY DEF StackRows, End, fileVars, stackVars
<1>2. Len(ask.shots) \in Nat /\ DOMAIN ask.shots = 1..Len(ask.shots)
  BY AskTypes DEF IInv
<1>3. Len(rows) = Len(ask.shots) /\ place.item = Len(ask.shots) + 1
  BY <1>1, <1>2 DEF IInv, Progress
<1>4. DOMAIN rows = 1..Len(ask.shots)
  BY <1>3 DEF IInv, Types
<1>5. /\ ask.expected # 0 => width = ask.expected
      /\ \A i \in 1..Len(ask.shots) : RowFits(i) /\ RowKept(i)
  BY <1>1, <1>2, <1>3 DEF IInv, RowsSoFar
<1>6. Types' /\ ReadyKept' /\ Progress' /\ PassedOver' /\ RowsSoFar'
  BY <1>1 DEF IInv, Types, ReadyKept, Progress, PassedOver, RowsSoFar
<1>7. RowsAreShots'
  BY <1>1, <1>3, <1>4, <1>5 DEF RowsAreShots, RowFits
<1>8. CompleteKept'
  BY <1>1, <1>2, <1>5 DEF CompleteKept, RowKept, Usable, Asked, At, NotSkipped
<1> QED BY <1>6, <1>7, <1>8 DEF IInv

LEMMA Inductive == IInv /\ [Next]_vars => IInv'
<1> SUFFICES ASSUME IInv, [Next]_vars PROVE IInv'
  OBVIOUS
<1>0. place.item \in Nat \ {0} /\ (pc # "done" => outcome = "none")
  BY DEF IInv, Types, Progress
<1>1. CASE StartStack
  BY <1>1, StartKeeps DEF StartStack
<1>2. CASE FindScaling
  BY <1>2, FindScalingKeeps
<1>3. CASE ReadRow
  BY <1>3, ReadRowKeeps
<1>4. CASE StackRows
  BY <1>4, StackRowsKeeps
<1>5. CASE StartTree
  BY <1>5, StartKeeps DEF StartTree
<1>6. CASE OpenScope
  <2>1. /\ pc = "scope" /\ pc' \in {"scope", "channel"} /\ place'.item \in Nat \ {0}
        /\ outcome' = "none" /\ UNCHANGED <<fileVars, ask, stackVars, ready>>
    BY <1>0, <1>6 DEF OpenScope, NextScope, Step
  <2> QED BY <2>1, TreeKeeps
<1>7. CASE ReadChannel
  <2>1. /\ pc = "channel" /\ UNCHANGED <<fileVars, ask, stackVars, ready>>
        /\ \/ pc' = "channel" /\ outcome' = "none" /\ place'.item = place.item + 1
           \/ pc' = "done" /\ outcome' = "error" /\ place' = place
    BY <1>0, <1>7 DEF ReadChannel, Step, End
  <2> QED BY <1>0, <2>1, TreeKeeps
<1>8. CASE CloseScope
  <2>1. /\ pc = "channel" /\ pc' = "scope" /\ place'.item = 1
        /\ outcome' = "none" /\ UNCHANGED <<fileVars, ask, stackVars, ready>>
    BY <1>0, <1>8 DEF CloseScope, NextScope, Step
  <2> QED BY <2>1, TreeKeeps
<1>9. CASE TreeDone
  <2>1. /\ pc = "scope" /\ pc' = "done" /\ place' = place
        /\ outcome' = "tree" /\ UNCHANGED <<fileVars, ask, stackVars, ready>>
    BY <1>9 DEF TreeDone, End
  <2> QED BY <1>0, <2>1, TreeKeeps
<1>10. CASE Writer
  BY <1>10, WriterKeeps
<1>11. CASE UNCHANGED vars
  <2>1. UNCHANGED <<groups, skipped, samples, header, pc, place, ask, scaling, width, rows,
                    outcome, ready>>
    BY <1>11 DEF vars, fileVars, stackVars
  <2> QED
    BY <2>1 DEF IInv, Types, ReadyKept, Progress, PassedOver, RowsSoFar, RowFits, RowKept,
                Usable, RowsAreShots, CompleteKept, Asked, At, NotSkipped
<1> QED
  BY <1>1, <1>2, <1>3, <1>4, <1>5, <1>6, <1>7, <1>8, <1>9, <1>10, <1>11
     DEF Next, StackRead, TreeRead

(***************************************************************************)
(* read_hdf5_scope_channel_shots: row i is the i-th shot asked for or NaN, *)
(* and all rows have one width, the expected one if there is one.          *)
(***************************************************************************)
THEOREM StackOfShots == Spec => []RowsAreShots
<1>1. IInv => RowsAreShots
  BY DEF IInv
<1> QED BY InitInductive, Inductive, <1>1, PTL DEF Spec

(***************************************************************************)
(* It never loses a shot that was complete when it was called to the race  *)
(* with the program that writes the archive.                               *)
(***************************************************************************)
THEOREM CompleteShotsKept == Spec => []CompleteKept
<1>1. IInv => CompleteKept
  BY DEF IInv
<1> QED BY InitInductive, Inductive, <1>1, PTL DEF Spec
----------------------------------------------------------------------------
(***************************************************************************)
(* The scaling of the rows, and the call for all scopes.                   *)
(***************************************************************************)

(* The archive; a skipped group has a dataset that could not be read when    *)
(* the call began: it was skipped already, or had no WAVEDESC later still.   *)
FileInv ==
  /\ groups \subseteq Groups /\ skipped \subseteq groups
  /\ \A x \in Recorded : /\ samples[x] # 0 => <<x.scope, x.shot>> \in groups
                        /\ header[x] # "none" => samples[x] # 0
  /\ \A g \in skipped : \E x \in Recorded \ ready : <<x.scope, x.shot>> = g

Stacking == pc = "rows" \/ outcome = "stack"

(* The scaling is that of a shot asked for, and a row is a shot scaled by it. *)
ScalingFound ==
  Stacking => \E j \in 1..Len(ask.shots) : Scaled(Asked(j)) /\ header[Asked(j)] = scaling
RowsScaled ==
  Stacking => \A i \in 1..Len(rows) : rows[i] # NaN =>
    Asked(i) \in Recorded /\ samples[Asked(i)] # 0 /\ rows[i] = Volts(Asked(i), scaling)

Entries == \A sc \in DOMAIN result :
  /\ result[sc] = [channels |-> result[sc].channels, axis |-> result[sc].axis]
  /\ result[sc].axis \in Held
  /\ \A c \in DOMAIN result[sc].channels :
       LET x == At(sc, Number, c)
       IN  Scaled(x) /\ samples[x] # 0 /\ result[sc].channels[c] = Volts(x, header[x])

TreeTypes ==
  /\ pc \in {"idle", "scaling", "rows", "scope", "channel", "done"}
  /\ outcome \in {"none", "stack", "nothing", "tree", "error"}
  /\ pc \in {"idle", "scope", "channel"} => outcome = "none"
  /\ place \in [scope : Nat, item : Nat]
  /\ scaling \in Scalings \cup {"none"}
  /\ held \in Held
  /\ pc = "idle" => place.scope = 1 /\ result = << >>
  /\ pc \in {"scope", "channel"} => place.scope \in 1..(Len(Scopes) + 1)
  /\ pc = "scope" => place.item = 1
  /\ pc = "channel" => /\ place.scope <= Len(Scopes) /\ Scope \in DOMAIN result
                       /\ <<Scope, Number>> \in groups
                       /\ place.item \in 1..(Len(Channels) + 1)

(* What was complete when the call began, in the scopes and channels passed. *)
Present(x) == x.scope \in DOMAIN result /\ x.channel \in DOMAIN result[x.scope].channels
Promised == {x \in ready : x.shot = Number /\ NotSkipped(x)}
Passed == {Scopes[i] : i \in 1..(place.scope - 1)}
ScopesPassed ==
  /\ pc = "scope" => \A x \in Promised : x.scope \in Passed => Present(x)
  /\ pc = "channel" => \A x \in Promised : x.scope \in Passed \ {Scope} => Present(x)
  /\ outcome = "tree" => \A x \in Promised : Present(x)
ChannelsPassed ==
  pc = "channel" => \A x \in Promised : \A j \in 1..(place.item - 1) :
    x.scope = Scope /\ x.channel = Channels[j] => Present(x)

(* The data held are the last channel of the scope, once it has one. *)
HeldFits(entry) ==
  \/ entry.channels = << >>
  \/ /\ held.scope = Scope
     /\ \E c \in DOMAIN entry.channels : held.len = entry.channels[c].len
HeldIsHere == pc = "channel" => HeldFits(result[Scope]) /\ result[Scope].axis = Nobody

TreeInv == /\ FileInv /\ ScalingFound /\ RowsScaled /\ TreeTypes /\ Entries
           /\ ScopesPassed /\ ChannelsPassed /\ HeldIsHere /\ AxisFits /\ FinishedShotRead

LEMMA TreeInit == Init => TreeInv
<1> SUFFICES ASSUME Init PROVE TreeInv
  OBVIOUS
<1>1. /\ groups = {} /\ skipped = {} /\ pc = "idle" /\ outcome = "none" /\ scaling = "none"
      /\ place = [scope |-> 1, item |-> 1] /\ held = Nobody /\ result = << >>
      /\ \A x \in Recorded : samples[x] = 0 /\ header[x] = "none"
  BY DEF Init
<1>2. held \in Held /\ place \in [scope : Nat, item : Nat]
  BY <1>1, BoundAssumption DEF Held, Nobody
<1>3. DOMAIN result = {}
  BY <1>1
<1> QED BY <1>1, <1>2, <1>3 DEF TreeInv, FileInv, Stacking, ScalingFound, RowsScaled, TreeTypes,
     Entries, ScopesPassed, ChannelsPassed, HeldIsHere, AxisFits, FinishedShotRead

(* The scopes and channels are sequences of names.                           *)
LEMMA OrderTypes ==
  /\ Len(Scopes) \in Nat /\ \A i \in 1..Len(Scopes) : Scopes[i] \in Names(Scopes)
  /\ Len(Channels) \in Nat /\ \A i \in 1..Len(Channels) : Channels[i] \in Names(Channels)
  /\ \A n \in Names(Scopes) : \E i \in 1..Len(Scopes) : n = Scopes[i]
  /\ \A n \in Names(Channels) : \E i \in 1..Len(Channels) : n = Channels[i]
<1>1. /\ Len(Scopes) \in Nat /\ DOMAIN Scopes = 1..Len(Scopes)
      /\ Len(Channels) \in Nat /\ DOMAIN Channels = 1..Len(Channels)
  BY OrderAssumption, LenProperties
<1> QED BY <1>1 DEF Names

LEMMA WriterTree ==
  ASSUME IInv, TreeInv, Writer
  PROVE  TreeInv'
<1>1. /\ UNCHANGED <<pc, place, ask, scaling, width, rows, held, result, outcome, ready>>
      /\ pc # "done" /\ outcome = "none"
      /\ groups \subseteq groups' /\ skipped \subseteq skipped'
      /\ \A x \in Recorded : samples[x] # 0 => samples'[x] = samples[x]
      /\ \A x \in Recorded : header[x] # "none" => header'[x] = header[x]
  BY WriterAdds DEF IInv, Progress
<1>2. \A x \in Recorded : header[x] \in Scalings => header'[x] = header[x]
  BY <1>1, ScalingAssumption
<1>3. FileInv'
  <2> USE DEF TreeInv, FileInv
  <2>1. CASE \E g \in Groups : NewGroup(g)
    BY <1>1, <2>1 DEF NewGroup
  <2>2. ASSUME NEW g \in Groups, Skip(g) PROVE FileInv'
    <3>1. PICK x \in Recorded : <<x.scope, x.shot>> = g /\ header[x] = "none"
      BY <2>2 DEF Skip
    <3>2. x \notin ready
      BY <3>1, ScalingAssumption DEF IInv, ReadyKept
    <3> QED BY <1>1, <2>2, <3>1, <3>2 DEF Skip
  <2>3. ASSUME NEW x \in Recorded, WriteSamples(x) PROVE FileInv'
    BY <1>1, <2>3 DEF WriteSamples, IInv, Types
  <2>4. ASSUME NEW x \in Recorded, WriteHeader(x) PROVE FileInv'
    BY <1>1, <2>4 DEF WriteHeader, IInv, Types
  <2> QED BY <2>1, <2>2, <2>3, <2>4 DEF Writer
<1>4. /\ \A i : Asked(i)' = Asked(i) /\ Stacking' = Stacking /\ Scope' = Scope
      /\ Number' = Number
  BY <1>1 DEF Asked, At, Stacking, Scope, Number
<1>5. \A x : Scaled(x) => Scaled(x)' /\ header'[x] = header[x]
  BY <1>1, <1>2 DEF Scaled
<1>6. ScalingFound'
  BY <1>1, <1>4, <1>5 DEF TreeInv, ScalingFound
<1>7. RowsScaled'
  BY <1>1, <1>4 DEF TreeInv, RowsScaled, Volts
<1>8. Entries'
  <2>1. ASSUME NEW sc \in DOMAIN result, NEW c \in DOMAIN result[sc].channels, NEW x,
               x = At(sc, Number, c)
        PROVE  Scaled(x)' /\ samples'[x] # 0 /\ result[sc].channels[c] = Volts(x, header[x])'
    <3>1. Scaled(x) /\ samples[x] # 0 /\ result[sc].channels[c] = Volts(x, header[x])
      BY <2>1 DEF TreeInv, Entries
    <3>2. x \in Recorded
      BY <3>1 DEF Scaled
    <3>3. Scaled(x)' /\ header'[x] = header[x] /\ samples'[x] = samples[x]
      BY <1>1, <1>5, <3>1, <3>2
    <3> QED BY <1>1, <3>1, <3>3 DEF Volts
  <2>2. \A sc, c : At(sc, Number, c)' = At(sc, Number, c)
    BY <1>4 DEF At
  <2> QED BY <1>1, <2>1, <2>2 DEF TreeInv, Entries
<1>9. TreeTypes'
  BY <1>1, <1>4 DEF TreeInv, TreeTypes
<1>10. Promised' \subseteq Promised /\ \A x : Present(x)' = Present(x)
  BY <1>1, <1>4 DEF Promised, NotSkipped, Present
<1>11. ScopesPassed' /\ ChannelsPassed'
  BY <1>1, <1>4, <1>10 DEF TreeInv, ScopesPassed, ChannelsPassed, Passed
<1>12. HeldIsHere' /\ AxisFits' /\ FinishedShotRead'
  BY <1>1, <1>4 DEF TreeInv, HeldIsHere, HeldFits, AxisFits, FinishedShotRead
<1> QED BY <1>3, <1>6, <1>7, <1>8, <1>9, <1>11, <1>12 DEF TreeInv

LEMMA StartTreeInv ==
  ASSUME IInv, TreeInv, NEW step \in {"scaling", "scope"}, Start(step)
  PROVE  TreeInv'
<1>1. /\ pc = "idle" /\ pc' = step /\ outcome' = "none"
      /\ UNCHANGED <<groups, skipped, samples, header, place, scaling, width, rows, held,
                     result, outcome>>
      /\ ready' = {x \in Recorded : Readable(x)}
      /\ place.scope = 1 /\ place.item = 1 /\ result = << >> /\ DOMAIN result = {}
  BY DEF Start, IInv, Progress, TreeInv, TreeTypes, fileVars, stackVars, treeVars
<1>2. FileInv'
  <2>1. ASSUME NEW g \in skipped PROVE \E x \in Recorded \ ready' : <<x.scope, x.shot>> = g
    <3>1. PICK x \in Recorded : <<x.scope, x.shot>> = g
      BY DEF TreeInv, FileInv, Groups
    <3> QED BY <1>1, <3>1 DEF Readable, Visible
  <2> QED BY <1>1, <2>1 DEF TreeInv, FileInv
<1>3. TreeTypes'
  BY <1>1, OrderTypes DEF TreeInv, TreeTypes
<1> QED BY <1>1, <1>2, <1>3 DEF TreeInv, Stacking, ScalingFound, RowsScaled, Entries,
     ScopesPassed, ChannelsPassed, Passed, HeldIsHere, AxisFits, FinishedShotRead

(* A step of the call for one channel leaves the result of the other alone.  *)
LEMMA StackTree ==
  ASSUME IInv, TreeInv, UNCHANGED <<fileVars, ask, treeVars, ready>>,
         pc \in {"scaling", "rows"}, pc' \in {"scaling", "rows", "done"},
         place' \in [scope : Nat, item : Nat], scaling' \in Scalings \cup {"none"},
         outcome' \in {"none", "stack", "nothing"},
         ScalingFound', RowsScaled'
  PROVE  TreeInv'
<1>1. FileInv' /\ TreeTypes'
  BY DEF TreeInv, FileInv, TreeTypes, fileVars, treeVars
<1>2. Entries'
  BY DEF TreeInv, Entries, At, Number, Scaled, Volts, fileVars, treeVars
<1>3. ScopesPassed' /\ ChannelsPassed' /\ HeldIsHere' /\ AxisFits' /\ FinishedShotRead'
  BY DEF TreeInv, ScopesPassed, ChannelsPassed, HeldIsHere, AxisFits, FinishedShotRead, treeVars
<1> QED BY <1>1, <1>2, <1>3 DEF TreeInv

LEMMA StackReadTree ==
  ASSUME IInv, TreeInv, FindScaling \/ ReadRow \/ StackRows
  PROVE  TreeInv'
<1>0. /\ place \in [scope : Nat, item : Nat] /\ scaling \in Scalings \cup {"none"}
      /\ ScalingFound /\ RowsScaled /\ (pc # "done" => outcome = "none")
  BY DEF TreeInv, TreeTypes, IInv, Progress
<1>1. CASE FindScaling
  <2>1. /\ UNCHANGED <<fileVars, ask, rows, treeVars, ready>> /\ pc = "scaling"
        /\ rows = << >> /\ Len(rows) = 0 /\ Here = Asked(place.item)
        /\ place.item \in 1..(Len(ask.shots) + 1) /\ outcome = "none"
    BY <1>1 DEF FindScaling, IInv, Progress, Here, Asked
  <2>2. /\ place' \in [scope : Nat, item : Nat]
        /\ scaling' \in Scalings \cup {"none"}
        /\ pc' \in {"scaling", "rows", "done"} /\ outcome' \in {"none", "nothing"}
    BY <1>0, <1>1, <2>1 DEF FindScaling, End, Step, Readable, Scaled
  <2>3. pc' = "rows" => /\ place.item \in 1..Len(ask.shots) /\ Scaled(Asked(place.item))
                        /\ header[Asked(place.item)] = scaling'
    BY <1>1, <2>1, AskTypes DEF FindScaling, End, Readable, IInv
  <2>4. ScalingFound'
    BY <2>1, <2>2, <2>3 DEF ScalingFound, Stacking, Asked, At, Scaled, fileVars
  <2>5. RowsScaled'
    BY <2>1 DEF RowsScaled
  <2> QED BY <2>1, <2>2, <2>4, <2>5, StackTree
<1>2. CASE ReadRow
  <2>0. PICK n \in Nat : n = place.item
    BY DEF IInv, Types
  <2>1. /\ pc = "rows" /\ pc' = "rows" /\ outcome = "none" /\ outcome' = "none"
        /\ UNCHANGED <<groups, skipped, samples, header, ask, scaling, held, result, ready>>
        /\ place' = [scope |-> 1, item |-> n + 1]
        /\ Len(rows) = n - 1 /\ Here = Asked(n) /\ Len(rows') = n /\ rows'[n] = TheRow
        /\ \A i \in 1..(n - 1) : rows'[i] = rows[i]
    BY <1>2, <2>0, RowAdded
  <2>2. ScalingFound'
    BY <1>0, <2>1 DEF ScalingFound, Stacking, Asked, At, Scaled
  <2>3. \A i : Asked(i)' = Asked(i)
    BY <2>1 DEF Asked, At
  <2>4. TheRow # NaN => /\ Asked(n) \in Recorded /\ samples[Asked(n)] # 0
                       /\ TheRow = Volts(Asked(n), scaling)
    BY <2>1 DEF TheRow, Visible
  <2>5. \A i \in 1..n : i = n \/ i \in 1..(n - 1)
    OBVIOUS
  <2>6. RowsScaled'
    BY <1>0, <2>1, <2>3, <2>4, <2>5 DEF RowsScaled, Stacking, Volts
  <2>7. place' \in [scope : Nat, item : Nat]
    BY <2>1
  <2> QED BY <1>0, <2>1, <2>2, <2>6, <2>7, StackTree DEF fileVars, treeVars
<1>3. CASE StackRows
  <2>1. /\ pc = "rows" /\ pc' = "done" /\ outcome' \in {"stack", "nothing"}
        /\ UNCHANGED <<fileVars, place, ask, stackVars, treeVars, ready>>
    BY <1>3 DEF StackRows, End
  <2>2. ScalingFound' /\ RowsScaled'
    BY <1>0, <2>1 DEF ScalingFound, RowsScaled, Stacking, Asked, At, Scaled, Volts, fileVars,
                      stackVars
  <2> QED BY <1>0, <2>1, <2>2, StackTree DEF stackVars
<1> QED BY <1>1, <1>2, <1>3

(* The shot the call for all scopes reads, and whose datasets it promises.   *)
LEMMA PromisedThere ==
  ASSUME IInv, TreeInv
  PROVE  /\ Number \in 1..Shots
         /\ \A x \in Promised :
              /\ x \in Recorded /\ x.scope \in Names(Scopes) /\ x.channel \in Names(Channels)
              /\ x = At(x.scope, Number, x.channel)
              /\ <<x.scope, Number>> \in groups \ skipped
              /\ Readable(x)
<1>1. Number \in 1..Shots
  <2>1. ask.shots \in Seq(1..Shots) /\ ask.shots # << >>
    BY AskAssumption DEF IInv, Types, Ask
  <2>2. Len(ask.shots) >= 1
    BY <2>1, EmptySeq, LenProperties
  <2>3. 1 \in 1..Len(ask.shots)
    BY <2>2, AskTypes DEF IInv
  <2> QED BY <2>3, AskTypes DEF IInv, Number
<1>2. ASSUME NEW x \in Promised
      PROVE  /\ x \in Recorded /\ x.scope \in Names(Scopes) /\ x.channel \in Names(Channels)
             /\ x = At(x.scope, Number, x.channel)
             /\ <<x.scope, Number>> \in groups \ skipped
             /\ Readable(x)
  <2>1. /\ x \in Recorded /\ <<x.scope, x.shot>> \in groups /\ samples[x] # 0
        /\ header[x] \in Scalings /\ x.shot = Number /\ <<x.scope, x.shot>> \notin skipped
    BY <1>2 DEF Promised, NotSkipped, IInv, ReadyKept
  <2>2. x \in Dataset
    BY <2>1, RecordedAssumption
  <2> QED BY <2>1, <2>2 DEF Dataset, At, Readable, Visible, Scaled
<1> QED BY <1>1, <1>2

(* What putting an entry in the result changes.                              *)
LEMMA PutEntry ==
  ASSUME NEW sc, NEW entry, Put(sc, entry)
  PROVE  /\ DOMAIN result' = DOMAIN result \cup {sc} /\ result'[sc] = entry
         /\ \A t \in DOMAIN result \ {sc} : result'[t] = result[t]
  BY DEF Put

LEMMA OpenScopeTree ==
  ASSUME IInv, TreeInv, OpenScope
  PROVE  TreeInv'
<1>0. PICK n \in Nat : n = place.scope
  BY DEF TreeInv, TreeTypes
<1>1. PICK sc : sc = Scope
  OBVIOUS
<1>2. /\ pc = "scope" /\ outcome = "none" /\ outcome' = "none" /\ place.item = 1
      /\ UNCHANGED <<groups, skipped, samples, header, ask, scaling, width, rows, held, ready>>
      /\ n \in 1..Len(Scopes) /\ sc = Scopes[n]
      /\ place \in [scope : Nat, item : Nat]
  BY <1>0, <1>1 DEF OpenScope, TreeInv, TreeTypes, fileVars, stackVars, Scope
<1>3. /\ DOMAIN result' = DOMAIN result \cup {sc}
      /\ result'[sc] = [channels |-> << >>, axis |-> Nobody]
      /\ \A t \in DOMAIN result \ {sc} : result'[t] = result[t]
  <2>1. Put(sc, Entry)
    BY <1>1 DEF OpenScope
  <2> QED BY <2>1, PutEntry DEF Entry
<1>4. \/ /\ <<sc, Number>> \in groups \ skipped /\ pc' = "channel" /\ place' = place
      \/ /\ <<sc, Number>> \notin groups \ skipped /\ pc' = "scope"
         /\ place' = [scope |-> n + 1, item |-> 1]
  BY <1>0, <1>1 DEF OpenScope, NextScope, Step
<1>5. Number' = Number /\ Promised' = Promised
  BY <1>2 DEF Number, Promised, NotSkipped
<1>6. FileInv'
  BY <1>2 DEF TreeInv, FileInv
<1>7. ScalingFound' /\ RowsScaled' /\ FinishedShotRead'
  BY <1>2, <1>4 DEF ScalingFound, RowsScaled, Stacking, FinishedShotRead
<1>8. Entries'
  <2>1. Nobody \in Held /\ DOMAIN << >> = {}
    BY BoundAssumption DEF Nobody, Held
  <2>2. \A t, c : At(t, Number, c)' = At(t, Number, c)
    BY <1>5 DEF At
  <2> QED BY <1>2, <1>3, <2>1, <2>2 DEF TreeInv, Entries, Scaled, Volts
<1>9. TreeTypes'
  <2>1. Scope' = sc \/ pc' = "scope"
    BY <1>1, <1>4 DEF Scope
  <2>2. place' \in [scope : Nat, item : Nat] /\ place'.scope \in 1..(Len(Scopes) + 1)
        /\ place'.item = 1
    BY <1>0, <1>2, <1>4, OrderTypes
  <2>3. pc' = "channel" => /\ place'.scope <= Len(Scopes) /\ Scope' \in DOMAIN result'
                           /\ <<Scope, Number>>' \in groups'
                           /\ place'.item \in 1..(Len(Channels) + 1)
    BY <1>0, <1>2, <1>3, <1>4, <1>5, <2>1, <2>2, OrderTypes
  <2> QED BY <1>2, <1>4, <2>2, <2>3 DEF TreeInv, TreeTypes
<1>10. \A x \in Promised : x.scope \in Passed \ {sc} => Present(x)'
  BY <1>2, <1>3 DEF TreeInv, ScopesPassed, Present
<1>11. ScopesPassed'
  <2>1. CASE pc' = "channel"
    BY <1>0, <1>1, <1>2, <1>4, <1>5, <1>10, <2>1 DEF ScopesPassed, Passed, Scope
  <2>2. CASE pc' = "scope"
    <3>1. \A x \in Promised : x.scope # sc
      BY <1>4, <2>2, PromisedThere
    <3>2. Passed' \subseteq Passed \cup {sc}
      <4>1. \A i \in 1..n : i = n \/ i \in 1..(n - 1)
        OBVIOUS
      <4> QED BY <1>0, <1>2, <1>4, <2>2, <4>1 DEF Passed
    <3> QED BY <1>2, <1>5, <1>10, <2>2, <3>1, <3>2 DEF ScopesPassed
  <2> QED BY <1>4, <2>1, <2>2
<1>12. ChannelsPassed'
  BY <1>2, <1>4 DEF ChannelsPassed
<1>13. HeldIsHere'
  BY <1>1, <1>3, <1>4 DEF HeldIsHere, HeldFits, Scope
<1>14. AxisFits'
  BY <1>3 DEF TreeInv, AxisFits
<1> QED BY <1>6, <1>7, <1>8, <1>9, <1>11, <1>12, <1>13, <1>14 DEF TreeInv

LEMMA CloseScopeTree ==
  ASSUME IInv, TreeInv, CloseScope
  PROVE  TreeInv'
<1>0. PICK n \in Nat : n = place.scope
  BY DEF TreeInv, TreeTypes
<1>1. PICK sc : sc = Scope
  OBVIOUS
<1>2. /\ pc = "channel" /\ pc' = "scope" /\ outcome = "none" /\ outcome' = "none"
      /\ UNCHANGED <<groups, skipped, samples, header, ask, scaling, width, rows, held, ready>>
      /\ n \in 1..Len(Scopes) /\ sc = Scopes[n] /\ place' = [scope |-> n + 1, item |-> 1]
      /\ place.item \in 1..(Len(Channels) + 1) /\ place.item > Len(Channels)
  BY <1>0, <1>1 DEF CloseScope, NextScope, Step, TreeInv, TreeTypes, fileVars, stackVars, Scope
<1>3. /\ sc \in DOMAIN result /\ HeldFits(result[sc])
      /\ result[sc] = [channels |-> result[sc].channels, axis |-> result[sc].axis]
  BY <1>1, <1>2 DEF TreeInv, TreeTypes, HeldIsHere, Entries
<1>4. PICK m \in 0..MaxLen : Put(sc, [result[sc] EXCEPT !.axis = Axis(m)])
  BY <1>1 DEF CloseScope
<1>5. PICK axis : axis = Axis(m)
  OBVIOUS
<1>6. /\ DOMAIN result' = DOMAIN result
      /\ result'[sc] = [channels |-> result[sc].channels, axis |-> axis]
      /\ \A t \in DOMAIN result \ {sc} : result'[t] = result[t]
  BY <1>3, <1>4, <1>5, PutEntry
<1>7. axis \in Held /\ (axis # Nobody => /\ axis.scope \in {held.scope, sc}
                                         /\ axis.len = held.len)
  <2>1. held \in Held /\ sc \in Names(Scopes) /\ Nobody \in Held
    BY <1>2, OrderTypes, BoundAssumption DEF TreeInv, TreeTypes, Held, Nobody
  <2> QED BY <1>1, <1>5, <2>1 DEF Axis, Held
<1>8. Number' = Number /\ Promised' = Promised
  BY <1>2 DEF Number, Promised, NotSkipped
<1>9. FileInv' /\ ScalingFound' /\ RowsScaled' /\ FinishedShotRead'
  BY <1>2 DEF TreeInv, FileInv, ScalingFound, RowsScaled, Stacking, FinishedShotRead
<1>10. Entries'
  <2>1. \A t, c : At(t, Number, c)' = At(t, Number, c)
    BY <1>8 DEF At
  <2> QED BY <1>2, <1>3, <1>6, <1>7, <2>1 DEF TreeInv, Entries, Scaled, Volts
<1>11. TreeTypes'
  <2>1. place' \in [scope : Nat, item : Nat] /\ place'.scope \in 1..(Len(Scopes) + 1)
        /\ place'.item = 1
    BY <1>2, OrderTypes
  <2> QED BY <1>2, <2>1 DEF TreeInv, TreeTypes
<1>12. ScopesPassed'
  <2>1. ASSUME NEW x \in Promised, x.scope \in Passed' PROVE Present(x)'
    <3>1. CASE x.scope = sc
      <4>1. PICK j \in 1..Len(Channels) : x.channel = Channels[j]
        BY PromisedThere, OrderTypes
      <4>2. j \in 1..(place.item - 1)
        BY <1>2, OrderTypes
      <4>3. Present(x)
        BY <1>1, <1>2, <3>1, <4>1, <4>2 DEF TreeInv, ChannelsPassed
      <4> QED BY <1>6, <3>1, <4>3 DEF Present
    <3>2. CASE x.scope # sc
      <4>1. PICK i \in 1..n : x.scope = Scopes[i]
        BY <1>2, <2>1 DEF Passed
      <4>2. i \in 1..(n - 1)
        BY <1>2, <3>2, <4>1
      <4>3. Present(x)
        BY <1>0, <1>1, <1>2, <3>2, <4>1, <4>2 DEF TreeInv, ScopesPassed, Passed
      <4> QED BY <1>6, <3>2, <4>3 DEF Present
    <3> QED BY <3>1, <3>2
  <2> QED BY <1>2, <1>8, <2>1 DEF ScopesPassed
<1>13. ChannelsPassed' /\ HeldIsHere'
  BY <1>2 DEF ChannelsPassed, HeldIsHere
<1>14. AxisFits'
  <2>1. result[sc].channels # << >> /\ axis # Nobody =>
          axis.scope = sc /\ \E c \in DOMAIN result[sc].channels :
                                axis.len = result[sc].channels[c].len
    BY <1>1, <1>3, <1>7 DEF HeldFits
  <2> QED BY <1>6, <2>1 DEF TreeInv, AxisFits
<1> QED BY <1>9, <1>10, <1>11, <1>12, <1>13, <1>14 DEF TreeInv

(* What reading a channel finds, whatever it then does with it.              *)
LEMMA ChannelHere ==
  ASSUME IInv, TreeInv, ReadChannel,
         NEW n, n = place.scope, NEW k, k = place.item, NEW sc, sc = Scope,
         NEW x, x = At(sc, Number, Channels[k])
  PROVE  /\ pc = "channel" /\ outcome = "none"
         /\ UNCHANGED <<groups, skipped, samples, header, ask, scaling, width, rows, ready>>
         /\ n \in 1..Len(Scopes) /\ sc = Scopes[n] /\ sc \in Names(Scopes)
         /\ k \in 1..Len(Channels) /\ Channels[k] \in Names(Channels)
         /\ place = [scope |-> n, item |-> k] /\ <<sc, Number>> \in groups
         /\ sc \in DOMAIN result /\ HeldFits(result[sc])
         /\ result[sc] = [channels |-> result[sc].channels, axis |-> Nobody]
         /\ x.scope = sc /\ x.shot = Number /\ x.channel = Channels[k]
         /\ Number' = Number /\ Promised' = Promised
<1>1. /\ pc = "channel" /\ outcome = "none"
      /\ UNCHANGED <<groups, skipped, samples, header, ask, scaling, width, rows, ready>>
      /\ n \in 1..Len(Scopes) /\ sc = Scopes[n]
      /\ k \in 1..Len(Channels)
      /\ <<sc, Number>> \in groups /\ sc \in DOMAIN result
  BY OrderTypes DEF ReadChannel, TreeInv, TreeTypes, fileVars, stackVars, Scope
<1>2. sc \in Names(Scopes) /\ Channels[k] \in Names(Channels)
  BY <1>1, OrderTypes
<1>3. place = [scope |-> n, item |-> k]
  BY DEF TreeInv, TreeTypes
<1>4. HeldFits(result[sc]) /\ result[sc] = [channels |-> result[sc].channels, axis |-> Nobody]
  BY <1>1 DEF TreeInv, HeldIsHere, Entries
<1>5. x.scope = sc /\ x.shot = Number /\ x.channel = Channels[k]
  BY DEF At
<1>6. Number' = Number /\ Promised' = Promised
  BY <1>1 DEF Number, Promised, NotSkipped
<1> QED BY <1>1, <1>2, <1>3, <1>4, <1>5, <1>6

(* The reader goes on to the next channel, with chans for the channels so far. *)
LEMMA ChannelPassed ==
  ASSUME IInv, TreeInv, ReadChannel,
         NEW n, n = place.scope, NEW k, k = place.item, NEW sc, sc = Scope,
         NEW x, x = At(sc, Number, Channels[k]),
         NEW chans, NEW was, was = result[sc].channels,
         place' = [scope |-> n, item |-> k + 1], pc' = "channel", outcome' = "none",
         held' \in Held, DOMAIN result' = DOMAIN result,
         \A t \in DOMAIN result \ {sc} : result'[t] = result[t],
         result'[sc] = [channels |-> chans, axis |-> Nobody],
         DOMAIN was \subseteq DOMAIN chans,
         \A y \in Promised : y.scope = sc /\ y.channel = Channels[k] =>
            Channels[k] \in DOMAIN chans,
         \A c \in DOMAIN chans :
            \/ c \in DOMAIN was /\ chans[c] = was[c]
            \/ c = Channels[k] /\ Readable(x) /\ chans[c] = Volts(x, header[x]),
         \/ chans = << >>
         \/ held'.scope = sc /\ \E c \in DOMAIN chans : held'.len = chans[c].len
  PROVE  TreeInv'
<1>1. /\ pc = "channel" /\ outcome = "none"
      /\ UNCHANGED <<groups, skipped, samples, header, ask, scaling, width, rows, ready>>
      /\ n \in 1..Len(Scopes) /\ sc = Scopes[n] /\ sc \in Names(Scopes)
      /\ k \in 1..Len(Channels) /\ Channels[k] \in Names(Channels)
      /\ place = [scope |-> n, item |-> k] /\ <<sc, Number>> \in groups
      /\ sc \in DOMAIN result /\ HeldFits(result[sc])
      /\ result[sc] = [channels |-> result[sc].channels, axis |-> Nobody]
      /\ x.scope = sc /\ x.shot = Number /\ x.channel = Channels[k]
      /\ Number' = Number /\ Promised' = Promised
  BY ChannelHere
<1>2. FileInv' /\ \A t, c : At(t, Number, c)' = At(t, Number, c)
  BY <1>1 DEF TreeInv, FileInv, At
<1>3. Len(Scopes) \in Nat /\ Len(Channels) \in Nat
  BY OrderTypes
<1>4. Scope' = sc
  BY <1>1 DEF Scope
<1>5. result'[sc].channels = chans /\ result'[sc].axis = Nobody
  OBVIOUS
<1>6. ScalingFound' /\ RowsScaled' /\ FinishedShotRead'
  BY <1>1 DEF ScalingFound, RowsScaled, Stacking, FinishedShotRead
<1>7. TreeTypes'
  <2>1. place' \in [scope : Nat, item : Nat] /\ place'.scope \in 1..(Len(Scopes) + 1)
        /\ place'.scope <= Len(Scopes) /\ place'.item \in 1..(Len(Channels) + 1)
    BY <1>1, <1>3
  <2>2. Scope' \in DOMAIN result' /\ <<Scope, Number>>' \in groups'
    BY <1>1, <1>4
  <2> QED BY <1>1, <2>1, <2>2 DEF TreeInv, TreeTypes
<1>8. Entries'
  <2>1. ASSUME NEW c \in DOMAIN chans, NEW y, y = At(sc, Number, c)
        PROVE  Scaled(y) /\ samples[y] # 0 /\ chans[c] = Volts(y, header[y])
    <3>1. CASE c \in DOMAIN was /\ chans[c] = was[c]
      BY <1>1, <2>1, <3>1 DEF TreeInv, Entries
    <3>2. CASE c = Channels[k] /\ Readable(x) /\ chans[c] = Volts(x, header[x])
      BY <2>1, <3>2 DEF Readable, Visible
    <3> QED BY <3>1, <3>2
  <2>2. \A y : Scaled(y)' = Scaled(y) /\ Volts(y, header[y])' = Volts(y, header[y])
    BY <1>1 DEF Scaled, Volts
  <2>3. Nobody \in Held
    BY BoundAssumption DEF Nobody, Held
  <2>4. ASSUME NEW t \in DOMAIN result'
        PROVE  /\ result'[t] = [channels |-> result'[t].channels, axis |-> result'[t].axis]
               /\ result'[t].axis \in Held
               /\ \A c \in DOMAIN result'[t].channels : \A y : y = At(t, Number, c) =>
                    /\ Scaled(y) /\ samples[y] # 0
                    /\ result'[t].channels[c] = Volts(y, header[y])
    <3>1. CASE t = sc
      BY <1>5, <2>1, <2>3, <3>1
    <3>2. CASE t # sc
      <4>1. t \in DOMAIN result /\ result'[t] = result[t]
        BY <3>2
      <4> QED BY <4>1 DEF TreeInv, Entries
    <3> QED BY <3>1, <3>2
  <2> QED BY <1>1, <1>2, <2>2, <2>4 DEF Entries
<1>9. \A y : Present(y) => Present(y)'
  BY <1>5 DEF Present
<1>10. ScopesPassed'
  BY <1>1, <1>4, <1>9 DEF TreeInv, ScopesPassed, Passed
<1>11. ChannelsPassed'
  <2>1. \A j \in 1..k : j = k \/ j \in 1..(k - 1)
    BY <1>1
  <2>2. \A y \in Promised : y.scope = sc /\ y.channel = Channels[k] => Present(y)'
    BY <1>1, <1>5 DEF Present
  <2>3. ASSUME NEW y \in Promised, NEW j \in 1..k, y.scope = sc, y.channel = Channels[j]
        PROVE  Present(y)'
    BY <1>1, <1>9, <2>1, <2>2, <2>3 DEF TreeInv, ChannelsPassed
  <2>4. place'.item - 1 = k
    BY <1>1
  <2> QED BY <1>1, <1>4, <2>3, <2>4 DEF ChannelsPassed
<1>12. HeldIsHere'
  BY <1>4, <1>5 DEF HeldIsHere, HeldFits
<1>13. AxisFits'
  BY <1>5 DEF TreeInv, AxisFits
<1> QED BY <1>2, <1>6, <1>7, <1>8, <1>10, <1>11, <1>12, <1>13 DEF TreeInv

LEMMA ReadChannelTree ==
  ASSUME IInv, TreeInv, ReadChannel
  PROVE  TreeInv'
<1>0. PICK n, k, sc, x, was : /\ n = place.scope /\ k = place.item /\ sc = Scope
                              /\ x = At(sc, Number, Channels[k])
                              /\ was = result[sc].channels
  OBVIOUS
<1>1. /\ pc = "channel" /\ outcome = "none"
      /\ UNCHANGED <<groups, skipped, samples, header, ask, scaling, width, rows, ready>>
      /\ n \in 1..Len(Scopes) /\ sc = Scopes[n] /\ sc \in Names(Scopes)
      /\ k \in 1..Len(Channels) /\ Channels[k] \in Names(Channels)
      /\ place = [scope |-> n, item |-> k] /\ <<sc, Number>> \in groups
      /\ sc \in DOMAIN result /\ HeldFits(result[sc])
      /\ result[sc] = [channels |-> result[sc].channels, axis |-> Nobody]
      /\ x.scope = sc /\ x.shot = Number /\ x.channel = Channels[k]
      /\ Number' = Number /\ Promised' = Promised
  BY <1>0, ChannelHere
<1>2. held \in Held
  BY DEF TreeInv, TreeTypes
<1>3. CASE Readable(x)
  <2>1. PICK chans : chans = [d \in DOMAIN was \cup {x.channel} |->
                                IF d = x.channel THEN Volts(x, header[x]) ELSE was[d]]
    OBVIOUS
  <2>2. /\ held' = [scope |-> sc, len |-> samples[x]]
        /\ Put(sc, [result[sc] EXCEPT !.channels = chans])
        /\ place' = [scope |-> n, item |-> k + 1]
        /\ pc' = "channel" /\ outcome' = "none"
    BY <1>0, <1>1, <1>3, <2>1 DEF ReadChannel, Step
  <2>3. [result[sc] EXCEPT !.channels = chans] = [channels |-> chans, axis |-> Nobody]
    BY <1>1
  <2>4. /\ DOMAIN result' = DOMAIN result
        /\ result'[sc] = [channels |-> chans, axis |-> Nobody]
        /\ \A t \in DOMAIN result \ {sc} : result'[t] = result[t]
    BY <1>1, <2>2, <2>3 DEF Put
  <2>5. held' \in Held
    BY <1>1, <1>3, <2>2 DEF Held, Readable, Visible, IInv, Types
  <2>6. x.channel \in DOMAIN chans /\ held'.scope = sc /\ held'.len = chans[x.channel].len
    BY <2>1, <2>2 DEF Volts
  <2>7. \A c \in DOMAIN chans : \/ c \in DOMAIN was /\ chans[c] = was[c]
                                \/ c = Channels[k] /\ Readable(x) /\ chans[c] = Volts(x, header[x])
    BY <1>1, <1>3, <2>1
  <2>8. DOMAIN was \subseteq DOMAIN chans /\ Channels[k] \in DOMAIN chans
    BY <1>1, <2>1
  <2> QED BY <1>0, <2>2, <2>4, <2>5, <2>6, <2>7, <2>8, ChannelPassed
<1>4. CASE ~Readable(x) /\ x \in Recorded /\ samples[x] # 0
  <2>1. pc' = "done" /\ outcome' = "error" /\ UNCHANGED <<place, held, result>>
    BY <1>0, <1>4 DEF ReadChannel, End, treeVars
  <2>2. \E y \in Recorded \ ready : y.shot = Number /\ <<y.scope, y.shot>> \in groups
    <3>1. CASE <<sc, Number>> \in skipped
      <4>1. PICK y \in Recorded \ ready : <<y.scope, y.shot>> = <<sc, Number>>
        BY <3>1 DEF TreeInv, FileInv
      <4> QED BY <1>1, <4>1
    <3>2. CASE ~Scaled(x)
      <4>1. x \in Recorded \ ready
        BY <1>4, <3>2 DEF IInv, ReadyKept, Scaled
      <4> QED BY <1>1, <4>1
    <3> QED BY <1>1, <1>4, <3>1, <3>2 DEF Readable, Visible
  <2>3. FinishedShotRead'
    BY <1>1, <2>2 DEF FinishedShotRead
  <2>4. FileInv' /\ ScalingFound' /\ RowsScaled'
    BY <1>1, <2>1 DEF TreeInv, FileInv, ScalingFound, RowsScaled, Stacking
  <2>5. TreeTypes'
    BY <1>1, <2>1 DEF TreeInv, TreeTypes
  <2>6. Entries' /\ AxisFits'
    <3>1. \A t, c : At(t, Number, c)' = At(t, Number, c)
      BY <1>1 DEF At
    <3> QED BY <1>1, <2>1, <3>1 DEF TreeInv, Entries, AxisFits, Scaled, Volts
  <2>7. ScopesPassed' /\ ChannelsPassed' /\ HeldIsHere'
    BY <2>1 DEF ScopesPassed, ChannelsPassed, HeldIsHere
  <2> QED BY <2>3, <2>4, <2>5, <2>6, <2>7 DEF TreeInv
<1>5. CASE ~(x \in Recorded /\ samples[x] # 0)
  <2>1. /\ ~Readable(x) /\ place' = [scope |-> n, item |-> k + 1] /\ pc' = "channel"
        /\ outcome' = "none" /\ UNCHANGED <<held, result>>
    BY <1>0, <1>1, <1>5 DEF ReadChannel, Step, treeVars, Readable, Visible
  <2>2. \A y \in Promised : ~(y.scope = sc /\ y.channel = Channels[k])
    BY <1>0, <2>1, PromisedThere
  <2>3. PICK chans : chans = was
    OBVIOUS
  <2>4. chans = << >> \/ (held.scope = sc /\ \E c \in DOMAIN chans : held.len = chans[c].len)
    BY <1>0, <1>1, <2>3 DEF HeldFits
  <2>5. /\ result'[sc] = [channels |-> chans, axis |-> Nobody]
        /\ held' \in Held /\ DOMAIN result' = DOMAIN result
        /\ \A t \in DOMAIN result \ {sc} : result'[t] = result[t]
    BY <1>0, <1>1, <1>2, <2>1, <2>3
  <2>6. /\ DOMAIN was \subseteq DOMAIN chans
        /\ \A c \in DOMAIN chans : c \in DOMAIN was /\ chans[c] = was[c]
    BY <2>3
  <2>7. \/ chans = << >>
        \/ held'.scope = sc /\ \E c \in DOMAIN chans : held'.len = chans[c].len
    BY <2>1, <2>4
  <2> QED BY <1>0, <2>1, <2>2, <2>5, <2>6, <2>7, ChannelPassed
<1> QED BY <1>3, <1>4, <1>5

LEMMA TreeDoneTree ==
  ASSUME IInv, TreeInv, TreeDone
  PROVE  TreeInv'
<1>1. /\ pc = "scope" /\ place.scope > Len(Scopes) /\ pc' = "done" /\ outcome' = "tree"
      /\ UNCHANGED <<groups, skipped, samples, header, place, ask, scaling, width, rows, held,
                     result, ready>>
      /\ place.scope \in 1..(Len(Scopes) + 1)
  BY DEF TreeDone, End, fileVars, stackVars, treeVars, TreeInv, TreeTypes
<1>2. Promised' = Promised /\ \A x : Present(x)' = Present(x)
  BY <1>1 DEF Promised, Present, Number, NotSkipped
<1>3. ScopesPassed'
  <2>1. ASSUME NEW x \in Promised PROVE Present(x)
    <3>1. PICK i \in 1..Len(Scopes) : x.scope = Scopes[i]
      BY PromisedThere, OrderTypes
    <3>2. x.scope \in Passed
      BY <1>1, <3>1, OrderTypes DEF Passed
    <3> QED BY <1>1, <3>2 DEF TreeInv, ScopesPassed
  <2> QED BY <1>1, <1>2, <2>1 DEF ScopesPassed
<1>4. FileInv' /\ ScalingFound' /\ RowsScaled' /\ TreeTypes'
  BY <1>1 DEF TreeInv, FileInv, ScalingFound, RowsScaled, Stacking, TreeTypes
<1>5. Entries' /\ AxisFits'
  BY <1>1 DEF TreeInv, Entries, AxisFits, At, Number, Scaled, Volts
<1>6. ChannelsPassed' /\ HeldIsHere' /\ FinishedShotRead'
  BY <1>1 DEF ChannelsPassed, HeldIsHere, FinishedShotRead
<1> QED BY <1>3, <1>4, <1>5, <1>6 DEF TreeInv

LEMMA TreeInductive == IInv /\ TreeInv /\ [Next]_vars => TreeInv'
<1> SUFFICES ASSUME IInv, TreeInv, [Next]_vars PROVE TreeInv'
  OBVIOUS
<1>1. CASE StartStack \/ StartTree
  BY <1>1, StartTreeInv DEF StartStack, StartTree
<1>2. CASE FindScaling \/ ReadRow \/ StackRows
  BY <1>2, StackReadTree
<1>3. CASE OpenScope \/ ReadChannel \/ CloseScope \/ TreeDone
  BY <1>3, OpenScopeTree, ReadChannelTree, CloseScopeTree, TreeDoneTree
<1>4. CASE Writer
  BY <1>4, WriterTree
<1>5. CASE UNCHANGED vars
  <2> USE <1>5 DEF vars, fileVars, stackVars, treeVars, TreeInv
  <2>1. FileInv' /\ TreeTypes' /\ AxisFits' /\ FinishedShotRead'
    BY DEF FileInv, TreeTypes, AxisFits, FinishedShotRead, Number, Scope
  <2>2. ScalingFound' /\ RowsScaled'
    BY DEF ScalingFound, RowsScaled, Stacking, Asked, At, Scaled, Volts
  <2>3. Entries'
    BY DEF Entries, At, Number, Scaled, Volts
  <2>4. ScopesPassed' /\ ChannelsPassed' /\ HeldIsHere'
    BY DEF ScopesPassed, ChannelsPassed, HeldIsHere, HeldFits, Promised, NotSkipped, Present,
           Passed, Scope, Number
  <2> QED BY <2>1, <2>2, <2>3, <2>4
<1> QED BY <1>1, <1>2, <1>3, <1>4, <1>5 DEF Next, StackRead, TreeRead

LEMMA TreeInvariant == Spec => [](IInv /\ TreeInv)
<1>1. Init => IInv /\ TreeInv
  BY InitInductive, TreeInit
<1>2. IInv /\ TreeInv /\ [Next]_vars => (IInv /\ TreeInv)'
  BY Inductive, TreeInductive
<1> QED BY <1>1, <1>2, PTL DEF Spec

(***************************************************************************)
(* The archive, the rows and the entries ShotArchive keeps have their      *)
(* types, and a group only has what the writer could have put in it.       *)
(***************************************************************************)
THEOREM TypeCorrect == Spec => []TypeOK
<1>1. IInv /\ TreeInv => TypeOK
  <2> SUFFICES ASSUME IInv, TreeInv PROVE TypeOK
    OBVIOUS
  <2>1. ready \subseteq Recorded
    BY DEF IInv, ReadyKept
  <2>2. ASSUME NEW sc \in DOMAIN result, NEW c \in DOMAIN result[sc].channels
        PROVE  c \in Names(Channels) /\ result[sc].channels[c] \in Row \ {NaN}
    <3>1. PICK x : x = At(sc, Number, c)
      OBVIOUS
    <3>2. x \in Recorded /\ header[x] \in Headers /\ samples[x] \in 0..MaxLen
          /\ result[sc].channels[c] = Volts(x, header[x])
      BY <3>1 DEF TreeInv, Entries, Scaled, IInv, Types
    <3>3. x.shot = Number /\ x.channel = c /\ Number \in 1..Shots /\ c \in Names(Channels)
      BY <3>1, <3>2, PromisedThere, RecordedAssumption DEF At, Dataset
    <3>4. x.shot \in 0..Shots /\ x.shot # 0
      BY <3>3, BoundAssumption
    <3> QED BY <3>2, <3>3, <3>4 DEF Volts, Row, NaN
  <2>3. \A sc \in DOMAIN result : result[sc].axis \in Held
    BY DEF TreeInv, Entries
  <2>4. DOMAIN result = DOMAIN result /\ \A sc \in DOMAIN result :
          DOMAIN result[sc].channels \subseteq Names(Channels)
    BY <2>2
  <2> QED BY <2>1, <2>2, <2>3, <2>4 DEF TypeOK, IInv, Types, TreeInv, FileInv, TreeTypes
<1> QED BY <1>1, TreeInvariant, PTL

(***************************************************************************)
(* Where the WAVEDESCs of the channel agree, a row of the stack is what    *)
(* read_hdf5_scope_data would have made of its shot, although one scaling, *)
(* that of the first shot that has one, is used for all rows.              *)
(***************************************************************************)
THEOREM RowsAsReadAlone == Spec => []SameAsSingle
<1>1. IInv /\ TreeInv => SameAsSingle
  <2> SUFFICES ASSUME IInv, TreeInv, outcome = "stack",
                      \A i, j \in DOMAIN rows : Scaled(Asked(i)) /\ Scaled(Asked(j)) =>
                        header[Asked(i)] = header[Asked(j)],
                      NEW i \in DOMAIN rows, rows[i] # NaN, Scaled(Asked(i))
               PROVE  rows[i] = Volts(Asked(i), header[Asked(i)])
    BY DEF SameAsSingle
  <2>1. Len(rows) = Len(ask.shots) /\ DOMAIN rows = 1..Len(rows)
    BY DEF IInv, Types, RowsAreShots
  <2>2. PICK j \in DOMAIN rows : Scaled(Asked(j)) /\ header[Asked(j)] = scaling
    BY <2>1 DEF TreeInv, ScalingFound, Stacking
  <2>3. rows[i] = Volts(Asked(i), scaling)
    BY <2>1 DEF TreeInv, RowsScaled, Stacking
  <2> QED BY <2>2, <2>3
<1> QED BY <1>1, TreeInvariant, PTL

(***************************************************************************)
(* read_hdf5_all_scopes_channels returns each channel of the shot under    *)
(* its own scope and with its own scaling, and every channel that was      *)
(* complete when it was called, whatever the writer adds meanwhile.        *)
(***************************************************************************)
THEOREM ResultIsTheShot == Spec => []TreeIsShot
<1>1. IInv /\ TreeInv => TreeIsShot
  BY DEF TreeInv, TreeIsShot, Entries, ScopesPassed, Promised, Present
<1> QED BY <1>1, TreeInvariant, PTL

(***************************************************************************)
(* The axis in a scope's entry is that scope's and has the length of one   *)
(* of its channels, although data, dt and t0 outlive the loop over the     *)
(* channels they were read in.                                             *)
(***************************************************************************)
THEOREM AxesFit == Spec => []AxisFits
<1>1. IInv /\ TreeInv => AxisFits
  BY DEF TreeInv
<1> QED BY <1>1, TreeInvariant, PTL

(***************************************************************************)
(* It raises only for a shot that was not finished when it was called.     *)
(***************************************************************************)
THEOREM FinishedShotsAreRead == Spec => []FinishedShotRead
<1>1. IInv /\ TreeInv => FinishedShotRead
  BY DEF TreeInv
<1> QED BY <1>1, TreeInvariant, PTL
=============================================================================
