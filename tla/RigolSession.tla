---------------------------- MODULE RigolSession ----------------------------
(***************************************************************************)
(* Shots taken with the RigolScope facade (src/lab_scopes/rigol/legacy.py) *)
(* as its docstring and the README show it: set_trigger_mode('SINGLE'),    *)
(* poll the status until STOP, ask which channels are displayed, acquire   *)
(* each, and take the time axis from time_array().                         *)
(*                                                                         *)
(* A command takes hold, and shows in the status, some time after it was   *)
(* written: command() sleeps after a few of them, and not after :SINGle,   *)
(* :RUN and :STOP.  A read of a channel is one step here: a record of the  *)
(* capture in memory or an error (RigolRead has its exchanges).  Every     *)
(* capture has a time axis of its own: depth and timebase may be changed   *)
(* in between.  Display buttons are pressed at any time.                   *)
(*                                                                         *)
(* A text reply that times out or is cut leaves the link "late": every     *)
(* text answer is then another query's, in this shot and in those after    *)
(* it, until a block is read whole.  A block given up leaves it "torn"     *)
(* until the caller connects again.  (RigolTransport has the bytes.)       *)
(***************************************************************************)
EXTENDS Integers, Sequences

CONSTANTS Order,  \* _ANALOG_CHANNELS, in order
          MaxGen, \* bound on captures
          MaxShot,   \* bound on shots
          MaxPending \* bound on the commands not obeyed yet, besides :SINGle

Channels == {Order[i] : i \in DOMAIN Order}

ASSUME BoundAssumption == MaxGen \in Nat \ {0} /\ MaxShot \in Nat /\ MaxPending \in Nat
ASSUME OrderAssumption == Order \in Seq(Channels)

VARIABLES trig,    \* what :TRIGger:STATus? answers
          pending, \* commands the scope has not obeyed yet, in order
          gen,     \* the capture its memory holds
          shown,   \* channels on screen
          link,    \* "step", or what earlier time-outs left on the link
          pc,      \* where the caller is
          next,    \* displayed_channels: the place in Order it asks for
          found,   \* shown: the channels it has found
          todo,    \* channels of this shot still to be acquired
          records, \* what each channel acquired in this shot is a record of
          meta,    \* _last_metadata: its keys in order, with their records
          last,    \* the record of the most recent acquire(); 0 before any
          shot,    \* shots begun
          base,    \* value of gen when this shot began
          hasty,   \* the caller saw STOP before the scope had taken SINGLE
          astray,  \* a record of this shot rests on another query's answer
          missed   \* in this shot a channel was switched, a read failed, or the
                   \* scan got no answer of its own

scopeVars == <<trig, pending, gen, shown>>
shotVars == <<shot, base, hasty, astray>>
cacheVars == <<records, meta, last>>
vars == <<scopeVars, link, pc, next, found, todo, cacheVars, shotVars, missed>>

Captures == 0..MaxGen
Mixed == MaxGen + 1 \* a record of no one capture, or with wrong points or axis
Records == 1..Mixed
Commands == {"single", "run", "stop"}

TypeOK ==
  /\ trig \in {"run", "wait", "stop"}
  /\ pending \in Seq(Commands)
  /\ gen \in Captures
  /\ shown \subseteq Channels
  /\ link \in {"step", "late", "torn"}
  /\ pc \in {"closed", "idle", "single", "poll", "scan", "read"}
  /\ next \in 1..(Len(Order) + 1)
  /\ found \subseteq Channels /\ todo \subseteq found
  /\ records \in [Channels -> Records \cup {0}]
  /\ meta \in Seq([channel : Channels, gen : Records])
  /\ \A i, j \in DOMAIN meta : meta[i].channel = meta[j].channel => i = j
  /\ last \in Records \cup {0}
  /\ shot \in 0..MaxShot /\ base \in Captures
  /\ hasty \in BOOLEAN /\ astray \in BOOLEAN /\ missed \in BOOLEAN

(* The scope may hold a capture of before. *)
Init ==
  /\ trig \in {"run", "stop"} /\ pending = << >> /\ gen \in 0..1 /\ shown \in SUBSET Channels
  /\ link = "step" /\ pc = "closed" /\ next = 1 /\ found = {} /\ todo = {}
  /\ records = [c \in Channels |-> 0] /\ meta = << >> /\ last = 0
  /\ shot = 0 /\ base = 0 /\ hasty = FALSE /\ astray = FALSE /\ missed = FALSE
----------------------------------------------------------------------------
(* The scope, and whoever stands in front of it. *)

Trigger ==
  /\ trig # "stop" /\ gen < MaxGen
  /\ gen' = gen + 1
  /\ trig' = IF trig = "wait" THEN "stop" ELSE trig
  /\ UNCHANGED <<pending, shown, link, pc, next, found, todo, cacheVars, shotVars, missed>>

Obey ==
  /\ pending # << >>
  /\ trig' = CASE Head(pending) = "single" -> "wait"
               [] Head(pending) = "run"    -> "run"
               [] OTHER                    -> "stop"
  /\ pending' = Tail(pending)
  /\ UNCHANGED <<gen, shown, link, pc, next, found, todo, cacheVars, shotVars, missed>>

PressDisplay(c) ==
  /\ shown' = IF c \in shown THEN shown \ {c} ELSE shown \cup {c}
  /\ missed' = TRUE
  /\ UNCHANGED <<trig, pending, gen, link, pc, next, found, todo, cacheVars, shotVars>>
----------------------------------------------------------------------------
(* The driver and its caller. *)

(* A text exchange may put the link out of step, and never puts it back.    *)
TextExchange == link' \in {link} \cup (IF link = "step" THEN {"late"} ELSE {})
OwnAnswer == link' = "step"

Write(command) == pending' = Append(pending, command) /\ UNCHANGED <<trig, gen, shown>>

(* The constructor; without an answer to *IDN? it closes and raises. *)
Connect ==
  /\ pc = "closed"
  /\ pc' = "idle" /\ link' = "step"
  /\ records' = [c \in Channels |-> 0] /\ meta' = << >> /\ last' = 0
  /\ UNCHANGED <<scopeVars, next, found, todo, shotVars, missed>>

Close ==
  /\ pc = "idle"
  /\ pc' = "closed"
  /\ UNCHANGED <<scopeVars, link, next, found, todo, cacheVars, shotVars, missed>>

(* Between shots the caller may watch the scope run, or stop it; the facade *)
(* asks for the status first.                                               *)
RunOrStop(command) ==
  /\ pc = "idle" /\ Len(pending) < MaxPending /\ Write(command)
  /\ TextExchange
  /\ UNCHANGED <<pc, next, found, todo, cacheVars, shotVars, missed>>

(* Variant: the channels found for the shot before are kept. *)
StartShotKeepsFound ==
  /\ pc = "idle" /\ shot < MaxShot
  /\ pc' = "single"
  /\ shot' = shot + 1 /\ base' = gen /\ hasty' = FALSE /\ astray' = FALSE /\ missed' = FALSE
  /\ next' = 1 /\ todo' = {}
  /\ records' = [c \in Channels |-> 0]
  /\ UNCHANGED <<scopeVars, link, found, meta, last>>

StartShot ==
  /\ pc = "idle" /\ shot < MaxShot
  /\ pc' = "single"
  /\ shot' = shot + 1 /\ base' = gen /\ hasty' = FALSE /\ astray' = FALSE /\ missed' = FALSE
  /\ next' = 1 /\ found' = {} /\ todo' = {}
  /\ records' = [c \in Channels |-> 0]
  /\ UNCHANGED <<scopeVars, link, meta, last>>

(* set_trigger_mode('SINGLE'); the status it asks for first may fail unseen *)
ArmSingle ==
  /\ pc = "single" /\ Write("single")
  /\ TextExchange
  /\ pc' = "poll"
  /\ UNCHANGED <<next, found, todo, cacheVars, shotVars, missed>>

(* Variant: one look at the status instead of a poll. *)
LookOnce ==
  /\ pc = "poll"
  /\ pc' = "scan"
  /\ UNCHANGED <<scopeVars, link, next, found, todo, cacheVars, shotVars, missed>>

(* wait_until_stopped: on a link in step STOP is the scope's own answer, and *)
(* on another one an answer to any query may read as STOP.                   *)
SeesStop ==
  /\ pc = "poll" /\ (link = "step" => trig = "stop")
  /\ TextExchange
  /\ pc' = "scan"
  /\ hasty' = (trig # "stop" \/ pending # << >>)
  /\ UNCHANGED <<scopeVars, next, found, todo, cacheVars, shot, base, astray, missed>>

(* An answer cut short reads as another state, and the status is polled on. *)
PollCut ==
  /\ pc = "poll" /\ link = "step"
  /\ link' = "late"
  /\ UNCHANGED <<scopeVars, pc, next, found, todo, cacheVars, shotVars, missed>>

(* Variant: the deadline counts only while the trigger is waited for. *)
DeadlineWhileArmed ==
  /\ pc = "poll" /\ trig = "wait"
  /\ TextExchange
  /\ pc' = "idle"
  /\ UNCHANGED <<scopeVars, next, found, todo, cacheVars, shotVars, missed>>

(* It raises TimeoutError, or a poll without an answer raises; the caller    *)
(* gives the shot up.                                                       *)
StopDeadline ==
  /\ pc = "poll"
  /\ TextExchange
  /\ pc' = "idle"
  /\ UNCHANGED <<scopeVars, next, found, todo, cacheVars, shotVars, missed>>

(* displayed_channels, one channel: shown, not shown, or passed over by its  *)
(* except; out of step the answer is whatever another query was answered.    *)
AskDisplay ==
  /\ pc = "scan" /\ next <= Len(Order)
  /\ TextExchange
  /\ next' = next + 1
  /\ \E on \in BOOLEAN : /\ OwnAnswer => on = (Order[next] \in shown)
                         /\ found' = IF on THEN found \cup {Order[next]} ELSE found
  /\ missed' = (missed \/ ~OwnAnswer)
  /\ UNCHANGED <<scopeVars, pc, todo, cacheVars, shotVars>>

(* Its queries for the MATH traces change nothing else. *)
ScanDone ==
  /\ pc = "scan" /\ next > Len(Order)
  /\ TextExchange
  /\ pc' = "read" /\ todo' = found
  /\ UNCHANGED <<scopeVars, next, found, cacheVars, shotVars, missed>>

Entry(c, g) == [channel |-> c, gen |-> g]

(* Variant: the metadata are a list, not a dictionary. *)
CachedAgain(c, g) == Append(meta, Entry(c, g))

(* Variant: a key that is there keeps its value. *)
CachedOnce(c, g) ==
  IF \E i \in DOMAIN meta : meta[i].channel = c THEN meta ELSE Append(meta, Entry(c, g))

(* _last_metadata[short] = metadata: a key that is there keeps its place *)
Cached(c, g) ==
  IF \E i \in DOMAIN meta : meta[i].channel = c
    THEN [i \in DOMAIN meta |-> IF meta[i].channel = c THEN Entry(c, g) ELSE meta[i]]
    ELSE Append(meta, Entry(c, g))

(* What a read whose answers were all its own, or one with another query's   *)
(* answers among them, may give; SINGLE still pending may come in between.   *)
Outcomes(own) == IF own /\ pending = << >> THEN {gen} ELSE {gen, Mixed} \ {0}

(* acquire; read_channel waits for STOP by itself, and needs a record.  Its  *)
(* blocks put the link in step, the scales it asks for after them may not    *)
(* keep it so.                                                               *)
Acquire(c) ==
  /\ pc = "read"
  /\ link' \in IF link = "torn" THEN {"torn"} ELSE {"step", "late"}
  /\ \E own \in BOOLEAN :
        /\ own => link = "step" /\ trig = "stop" /\ gen > 0
        /\ astray' = (astray \/ ~own)
        /\ \E g \in Outcomes(own) :
              /\ records' = [records EXCEPT ![c] = g]
              /\ meta' = Cached(c, g) /\ last' = g
  /\ todo' = todo \ {c}
  /\ UNCHANGED <<scopeVars, pc, next, found, shot, base, hasty, missed>>

(* It raises, in any of its exchanges; the caller goes on to the next channel. *)
AcquireFails(c) ==
  /\ pc = "read"
  /\ link' \in IF link = "torn" THEN {"torn"} ELSE {"step", "late", "torn"}
  /\ todo' = todo \ {c} /\ missed' = TRUE
  /\ UNCHANGED <<scopeVars, pc, next, found, cacheVars, shotVars>>

ShotDone ==
  /\ pc = "read" /\ todo = {}
  /\ pc' = "idle"
  /\ UNCHANGED <<scopeVars, link, next, found, todo, cacheVars, shotVars, missed>>

(* time_array(): the capture whose axis it gives; with no metadata yet, the  *)
(* axis of the settings                                                     *)
TimeArray == IF meta = << >> THEN gen ELSE meta[Len(meta)].gen

Poll == SeesStop \/ PollCut

Shot == \/ ArmSingle \/ StopDeadline \/ AskDisplay \/ ScanDone \/ ShotDone
        \/ \E c \in todo : Acquire(c) \/ AcquireFails(c)

(* A caller may acquire a channel a second time. *)
Next == \/ Connect \/ Close \/ StartShot \/ Poll \/ Shot
        \/ \E c \in found \ todo : Acquire(c)
        \/ \E command \in {"run", "stop"} : RunOrStop(command)
        \/ Trigger \/ Obey \/ \E c \in Channels : PressDisplay(c)

(* Exchanges return or time out; nothing is asked of the scope, which need   *)
(* never answer STOP.                                                        *)
Spec == Init /\ [][Next]_vars /\ WF_vars(Shot)
----------------------------------------------------------------------------
Read == {c \in Channels : records[c] # 0}

(***************************************************************************)
(* The records of a shot are all of one capture, and of one made after the *)
(* shot began, if the scope had taken SINGLE and stopped when its status   *)
(* was first read as STOP, and none of them rests on another query's       *)
(* answer.  Without the first the facade cannot tell the STOP of before,   *)
(* and a shot may even mix the old capture with the new one.               *)
(***************************************************************************)
OneCapture ==
  ~hasty /\ ~astray => \A c, d \in Read : records[c] = records[d] /\ records[c] > base

(***************************************************************************)
(* A shot in which no channel was switched, no read failed and the scan    *)
(* got its own answers - though shots before it may have left the link     *)
(* late, if a read has put it right since - has read exactly the channels  *)
(* displayed.                                                              *)
(***************************************************************************)
ShotExact == pc = "read" /\ todo = {} /\ ~missed => Read = shown

(***************************************************************************)
(* After a shot that acquired every channel acquired so far, in whatever   *)
(* order and none with another query's answer, time_array() gives the axis *)
(* of this shot's capture.                                                 *)
(***************************************************************************)
AxisOfShot ==
  Read # {} /\ ~hasty /\ ~astray /\ (\A i \in DOMAIN meta : meta[i].channel \in Read) =>
     \A c \in Read : TimeArray = records[c]

(***************************************************************************)
(* Every shot ends, also when the scope never triggers.                    *)
(***************************************************************************)
ShotEnds == pc = "single" ~> pc = "idle"

(***************************************************************************)
(* The docstring of time_array(): the axis is that of the most recent      *)
(* acquire(), on a scope that takes SINGLE before it is polled and whose   *)
(* answers come in time.                                                   *)
(***************************************************************************)
AxisOfLast == Read # {} /\ ~hasty /\ ~astray => TimeArray = last
=============================================================================
