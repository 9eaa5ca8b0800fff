----------------------------- MODULE ShotArchive -----------------------------
(***************************************************************************)
(* Reading an HDF5 archive that the acquisition program may still be       *)
(* writing (open_hdf5_readonly says both may have it open):                *)
(* read_hdf5_scope_channel_shots and read_hdf5_all_scopes_channels with    *)
(* read_hdf5_scope_data and read_hdf5_scope_tarr under them                *)
(* (src/lab_scopes/io/lecroy_files.py).                                    *)
(*                                                                         *)
(* The writer (external) makes the group of a shot, writes for each        *)
(* channel its samples and then its WAVEDESC, and may mark a shot as       *)
(* skipped instead of finishing it.  It only ever adds.  The reader looks  *)
(* at one shot, or one channel, in a step.  Samples are told apart by the  *)
(* shot they are of, and their number; a WAVEDESC by the scaling in it.    *)
(***************************************************************************)
EXTENDS Integers, Sequences

CONSTANTS Scopes,    \* the scope groups, in the order of the file
          Channels,  \* channels of a scope, in the order of a shot's group
          Recorded,  \* the datasets the writer will write: scope, shot, channel
          Shots,     \* bound on shot numbers
          MaxLen,    \* bound on samples
          Scalings,  \* what a WAVEDESC that can be decoded may say
          Asks       \* what a caller may ask for

Names(s) == {s[i] : i \in DOMAIN s}
Dataset == [scope : Names(Scopes), shot : 1..Shots, channel : Names(Channels)]
Ask == [scope : Names(Scopes), channel : Names(Channels), shots : Seq(1..Shots),
        expected : 0..MaxLen]

ASSUME BoundAssumption == Shots \in Nat /\ MaxLen \in Nat \ {0}
ASSUME OrderAssumption == Scopes \in Seq(Names(Scopes)) /\ Channels \in Seq(Names(Channels))
ASSUME RecordedAssumption == Recorded \subseteq Dataset
ASSUME AskAssumption == \A a \in Asks : a \in Ask /\ a.shots # << >>
ASSUME ScalingAssumption == Scalings \cap {"none", "bad"} = {}

VARIABLES groups,  \* the shot groups that exist: scope and shot
          skipped, \* those marked as skipped
          samples, \* number of samples of each dataset; 0 for none yet
          header,  \* the scaling its WAVEDESC says; "none" for none yet
          pc,      \* where the reader is
          place,   \* the shot, scope or channel it is at
          ask,     \* what the caller asked for
          scaling, \* gain, offset, dt, t0
          width,   \* nsamples; 0 for None
          rows,    \* rows so far: a shot, its number of samples and a scaling
          held,    \* data, dt, t0 as the last channel left them
          result,  \* per scope, its channels and its time axis
          outcome, \* how the call ended
          ready    \* history: what was complete when the call began

fileVars == <<groups, skipped, samples, header>>
stackVars == <<scaling, width, rows>>
treeVars == <<held, result>>
vars == <<fileVars, pc, place, ask, stackVars, treeVars, outcome, ready>>

Groups == {<<x.scope, x.shot>> : x \in Recorded}
At(sc, s, c) == [scope |-> sc, shot |-> s, channel |-> c]
Headers == Scalings \cup {"none", "bad"}
NaN == [shot |-> 0, len |-> 0, scaling |-> "none"]
Row == [shot : 0..Shots, len : 0..MaxLen, scaling : Headers]
Nobody == [scope |-> "none", len |-> 0]
Held == [scope : Names(Scopes) \cup {"none"}, len : 0..MaxLen]

TypeOK ==
  /\ groups \subseteq Groups
  /\ skipped \subseteq groups
  /\ samples \in [Recorded -> 0..MaxLen]
  /\ header \in [Recorded -> Headers]
  /\ \A x \in Recorded : /\ samples[x] # 0 => <<x.scope, x.shot>> \in groups
                     /\ header[x] # "none" => samples[x] # 0
  /\ pc \in {"idle", "scaling", "rows", "scope", "channel", "done"}
  /\ place \in [scope : Nat, item : Nat]
  /\ ask \in Asks
  /\ scaling \in Scalings \cup {"none"}
  /\ width \in 0..MaxLen
  /\ rows \in Seq(Row)
  /\ held \in Held
  /\ \A sc \in DOMAIN result :
       /\ DOMAIN result[sc].channels \subseteq Names(Channels)
       /\ \A c \in DOMAIN result[sc].channels : result[sc].channels[c] \in Row \ {NaN}
       /\ result[sc].axis \in Held
  /\ outcome \in {"none", "stack", "nothing", "tree", "error"}
  /\ ready \subseteq Recorded

Init ==
  /\ groups = {} /\ skipped = {}
  /\ samples = [x \in Recorded |-> 0] /\ header = [x \in Recorded |-> "none"]
  /\ pc = "idle" /\ place = [scope |-> 1, item |-> 1]
  /\ ask \in Asks
  /\ scaling = "none" /\ width = 0 /\ rows = << >>
  /\ held = Nobody /\ result = << >>
  /\ outcome = "none" /\ ready = {}
----------------------------------------------------------------------------
(* The writer. *)

Reader == <<pc, place, ask, stackVars, treeVars, outcome, ready>>

NewGroup(g) ==
  /\ g \in Groups \ groups
  /\ \A h \in Groups \ groups : h[1] = g[1] => h[2] >= g[2]
  /\ groups' = groups \cup {g}
  /\ UNCHANGED <<skipped, samples, header, Reader>>

Skip(g) ==
  /\ g \in groups \ skipped
  /\ \E x \in Recorded : <<x.scope, x.shot>> = g /\ header[x] = "none"
  /\ skipped' = skipped \cup {g}
  /\ UNCHANGED <<groups, samples, header, Reader>>

WriteSamples(x) ==
  /\ <<x.scope, x.shot>> \in groups \ skipped
  /\ samples[x] = 0
  /\ \E n \in 1..MaxLen : samples' = [samples EXCEPT ![x] = n]
  /\ UNCHANGED <<groups, skipped, header, Reader>>

WriteHeader(x) ==
  /\ <<x.scope, x.shot>> \in groups \ skipped
  /\ samples[x] # 0 /\ header[x] = "none"
  /\ \E h \in Scalings \cup {"bad"} : header' = [header EXCEPT ![x] = h]
  /\ UNCHANGED <<groups, skipped, samples, Reader>>

(* What is written after the call is of no interest. *)
Writer == pc # "done" /\
          \/ \E g \in Groups : NewGroup(g) \/ Skip(g)
          \/ \E x \in Recorded : WriteSamples(x) \/ WriteHeader(x)
----------------------------------------------------------------------------
(* What the reader can tell of a dataset. *)

Visible(x) == x \in Recorded /\ <<x.scope, x.shot>> \in groups \ skipped /\ samples[x] # 0

(* Variant: a header that cannot be decoded is not looked at. *)
ScaledIfThere(x) == x \in Recorded /\ header[x] # "none"

(* _scope_channel_scaling succeeds: there is a header, and it can be decoded. *)
Scaled(x) == x \in Recorded /\ header[x] \in Scalings

(* read_hdf5_scope_data returns and does not raise. *)
Readable(x) == Visible(x) /\ Scaled(x)

Volts(x, h) == [shot |-> x.shot, len |-> samples[x], scaling |-> h]

Start(step) ==
  /\ pc = "idle" /\ pc' = step
  /\ ask' \in Asks
  /\ ready' = {x \in Recorded : Readable(x)}
  /\ UNCHANGED <<fileVars, place, stackVars, treeVars, outcome>>

End(how) == pc' = "done" /\ outcome' = how
Step(scope, item) == place' = [scope |-> scope, item |-> item]
----------------------------------------------------------------------------
(* read_hdf5_scope_channel_shots *)

StartStack == Start("scaling")

Here == At(ask.scope, ask.shots[place.item], ask.channel)

(* Variant: a shot that cannot be scaled ends the search. *)
FindScalingInFirst ==
  /\ pc = "scaling"
  /\ IF place.item > Len(ask.shots) \/ (Visible(Here) /\ ~Scaled(Here))
       THEN End("nothing") /\ UNCHANGED <<place, scaling, width>>
     ELSE IF Readable(Here)
       THEN /\ scaling' = header[Here] /\ width' = ask.expected
            /\ pc' = "rows" /\ Step(1, 1) /\ UNCHANGED outcome
     ELSE Step(1, place.item + 1) /\ UNCHANGED <<pc, outcome, scaling, width>>
  /\ UNCHANGED <<fileVars, ask, rows, treeVars, ready>>

(* The first pass: the scaling of the first shot that has one. *)
FindScaling ==
  /\ pc = "scaling"
  /\ IF place.item > Len(ask.shots)
       THEN End("nothing") /\ UNCHANGED <<place, scaling, width>>
     ELSE IF Readable(Here)
       THEN /\ scaling' = header[Here] /\ width' = ask.expected
            /\ pc' = "rows" /\ Step(1, 1) /\ UNCHANGED outcome
     ELSE Step(1, place.item + 1) /\ UNCHANGED <<pc, outcome, scaling, width>>
  /\ UNCHANGED <<fileVars, ask, rows, treeVars, ready>>

Width == IF width = 0 /\ Visible(Here) THEN samples[Here] ELSE width

(* Variant: a shot without a row is left out. *)
ReadRowOrNone ==
  /\ pc = "rows" /\ place.item <= Len(ask.shots)
  /\ width' = Width
  /\ rows' = IF Visible(Here) /\ samples[Here] = width'
               THEN Append(rows, Volts(Here, scaling)) ELSE rows
  /\ Step(1, place.item + 1)
  /\ UNCHANGED <<fileVars, pc, ask, scaling, treeVars, outcome, ready>>

(* Variant: a longer shot is cut to the width. *)
ReadRowCut ==
  /\ pc = "rows" /\ place.item <= Len(ask.shots)
  /\ width' = Width
  /\ rows' = Append(rows, IF Visible(Here) /\ samples[Here] >= width'
                            THEN [Volts(Here, scaling) EXCEPT !.len = width'] ELSE NaN)
  /\ Step(1, place.item + 1)
  /\ UNCHANGED <<fileVars, pc, ask, scaling, treeVars, outcome, ready>>

(* The second pass: the row of one shot, which may give all rows their width. *)
ReadRow ==
  /\ pc = "rows" /\ place.item <= Len(ask.shots)
  /\ width' = Width
  /\ rows' = Append(rows, IF Visible(Here) /\ samples[Here] = width'
                            THEN Volts(Here, scaling) ELSE NaN)
  /\ Step(1, place.item + 1)
  /\ UNCHANGED <<fileVars, pc, ask, scaling, treeVars, outcome, ready>>

StackRows ==
  /\ pc = "rows" /\ place.item > Len(ask.shots)
  /\ End(IF width = 0 THEN "nothing" ELSE "stack")
  /\ UNCHANGED <<fileVars, place, ask, stackVars, treeVars, ready>>
----------------------------------------------------------------------------
(* read_hdf5_all_scopes_channels, for the first of the shots asked for. *)

StartTree == Start("scope")

Number == ask.shots[1]
Scope == Scopes[place.scope]
Entry == [channels |-> << >>, axis |-> Nobody]

NextScope == pc' = "scope" /\ Step(place.scope + 1, 1)
Put(sc, entry) ==
  result' = [t \in DOMAIN result \cup {sc} |-> IF t = sc THEN entry ELSE result[t]]

(* Variant: a scope that has nothing of the shot ends the loop. *)
OpenScopeOrStop ==
  /\ pc = "scope" /\ place.scope <= Len(Scopes)
  /\ Put(Scope, Entry)
  /\ IF <<Scope, Number>> \in groups \ skipped
       THEN pc' = "channel" /\ UNCHANGED place
       ELSE pc' = "scope" /\ Step(Len(Scopes) + 1, 1)
  /\ UNCHANGED <<fileVars, ask, stackVars, held, outcome, ready>>

(* Variant: the group of the shot is taken to exist. *)
OpenScopeUnlooked ==
  /\ pc = "scope" /\ place.scope <= Len(Scopes)
  /\ Put(Scope, Entry)
  /\ IF <<Scope, Number>> \notin groups THEN End("error") /\ UNCHANGED place
     ELSE /\ UNCHANGED outcome
          /\ IF <<Scope, Number>> \in skipped THEN NextScope
             ELSE pc' = "channel" /\ UNCHANGED place
  /\ UNCHANGED <<fileVars, ask, stackVars, held, ready>>

(* The next scope; without a group for this shot, or with a skipped one, its *)
(* entry stays empty.                                                       *)
OpenScope ==
  /\ pc = "scope" /\ place.scope <= Len(Scopes)
  /\ Put(Scope, Entry)
  /\ IF <<Scope, Number>> \in groups \ skipped
       THEN pc' = "channel" /\ UNCHANGED place ELSE NextScope
  /\ UNCHANGED <<fileVars, ask, stackVars, held, outcome, ready>>

(* One channel with samples; read_hdf5_scope_data raises, or gives volts. *)
ReadChannel ==
  /\ pc = "channel" /\ place.item <= Len(Channels)
  /\ LET x == At(Scope, Number, Channels[place.item])
         c == DOMAIN result[Scope].channels \cup {x.channel}
         volts == [d \in c |-> IF d = x.channel THEN Volts(x, header[x])
                               ELSE result[Scope].channels[d]]
     IN  IF Readable(x)
           THEN /\ held' = [scope |-> Scope, len |-> samples[x]]
                /\ Put(Scope, [result[Scope] EXCEPT !.channels = volts])
                /\ Step(place.scope, place.item + 1)
                /\ UNCHANGED <<pc, outcome>>
         ELSE IF x \in Recorded /\ samples[x] # 0
           THEN End("error") /\ UNCHANGED <<place, treeVars>>
         ELSE Step(place.scope, place.item + 1) /\ UNCHANGED <<pc, treeVars, outcome>>
  /\ UNCHANGED <<fileVars, ask, stackVars, ready>>

(* Variant: the time_array is used as it is. *)
AxisAsStored(n) == IF n = 0 \/ held = Nobody THEN Nobody
                   ELSE [scope |-> Scope, len |-> n]

(* The axis for a time_array of n samples in the file: that one, or one made *)
(* for the data held; none without a time_array or without data.            *)
Axis(n) == IF n = 0 \/ held = Nobody THEN Nobody
           ELSE IF n = held.len THEN [scope |-> Scope, len |-> n]
           ELSE held

(* include_tarr FALSE ends like a scope without a time_array. *)
CloseScope ==
  /\ pc = "channel" /\ place.item > Len(Channels)
  /\ \E n \in 0..MaxLen : Put(Scope, [result[Scope] EXCEPT !.axis = Axis(n)])
  /\ NextScope
  /\ UNCHANGED <<fileVars, ask, stackVars, held, outcome, ready>>

TreeDone ==
  /\ pc = "scope" /\ place.scope > Len(Scopes)
  /\ End("tree")
  /\ UNCHANGED <<fileVars, place, ask, stackVars, treeVars, ready>>

StackRead == StartStack \/ FindScaling \/ ReadRow \/ StackRows
TreeRead == StartTree \/ OpenScope \/ ReadChannel \/ CloseScope \/ TreeDone

Next == StackRead \/ TreeRead \/ Writer

Spec == Init /\ [][Next]_vars
----------------------------------------------------------------------------
Asked(i) == At(ask.scope, ask.shots[i], ask.channel)
NotSkipped(x) == <<x.scope, x.shot>> \notin skipped

(***************************************************************************)
(* Row i of the stack is the shot asked for in place i or NaN, and all     *)
(* rows have one width, the expected length if there is one, although the  *)
(* shots that gave the scaling and the width may be two different ones.    *)
(***************************************************************************)
RowsAreShots ==
  outcome = "stack" =>
    /\ Len(rows) = Len(ask.shots)
    /\ ask.expected # 0 => width = ask.expected
    /\ \A i \in DOMAIN rows :
         rows[i] # NaN => rows[i].shot = ask.shots[i] /\ rows[i].len = width

(***************************************************************************)
(* A shot that was complete when the call began is never lost to the race  *)
(* with the writer: it has a row, unless its length is not the width or it *)
(* has been marked as skipped since; and the call does not return None.    *)
(***************************************************************************)
CompleteKept ==
  \A i \in DOMAIN ask.shots : Asked(i) \in ready /\ NotSkipped(Asked(i)) =>
    /\ outcome # "nothing"
    /\ outcome = "stack" /\ samples[Asked(i)] = width => rows[i] # NaN

(***************************************************************************)
(* Where the WAVEDESCs of a channel agree, as the docstring of             *)
(* _scope_channel_scaling says they do, a row has the scaling that reading *)
(* its shot alone would have given it.                                     *)
(***************************************************************************)
SameAsSingle ==
  outcome = "stack" /\ (\A i, j \in DOMAIN rows :
      Scaled(Asked(i)) /\ Scaled(Asked(j)) => header[Asked(i)] = header[Asked(j)])
    => \A i \in DOMAIN rows : rows[i] # NaN /\ Scaled(Asked(i)) =>
         rows[i] = Volts(Asked(i), header[Asked(i)])

(***************************************************************************)
(* A channel in the result of all scopes is that scope's, of the shot      *)
(* asked for, scaled by its own WAVEDESC; and every channel that was       *)
(* complete when the call began is there.                                  *)
(***************************************************************************)
TreeIsShot ==
  outcome = "tree" =>
    /\ \A sc \in DOMAIN result : \A c \in DOMAIN result[sc].channels :
         LET x == At(sc, Number, c)
         IN  result[sc].channels[c] = Volts(x, header[x])
    /\ \A x \in ready : x.shot = Number /\ NotSkipped(x) =>
         x.scope \in DOMAIN result /\ x.channel \in DOMAIN result[x.scope].channels

(***************************************************************************)
(* The time axis of a scope with channels is its own, and fits its last    *)
(* channel.  A scope whose group has no samples yet gets an axis made for  *)
(* the scope before it.                                                    *)
(***************************************************************************)
AxisFits ==
  \A sc \in DOMAIN result :
    LET entry == result[sc]
    IN  entry.channels # << >> /\ entry.axis # Nobody =>
          /\ entry.axis.scope = sc
          /\ \E c \in DOMAIN entry.channels : entry.axis.len = entry.channels[c].len

(***************************************************************************)
(* The call for all scopes fails only for a channel of this shot that was  *)
(* not complete when it began: a shot that was finished can be read while  *)
(* the next one is being written.                                          *)
(***************************************************************************)
FinishedShotRead ==
  outcome = "error" => \E x \in Recorded \ ready :
                          x.shot = Number /\ <<x.scope, x.shot>> \in groups
=============================================================================
