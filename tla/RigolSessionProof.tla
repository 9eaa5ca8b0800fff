-------------------------- MODULE RigolSessionProof --------------------------
(***************************************************************************)
(* Proofs about RigolSession, for any order of channels and any bounds:    *)
(* its types, that the records of a shot are of one capture made in it,    *)
(* that time_array() has that capture's axis once every channel known has  *)
(* been acquired in it, and that a shot has read the displayed channels.   *)
(***************************************************************************)
EXTENDS RigolSession, SequenceTheorems, TLAPS

Key == [channel : Channels, gen : Records]

(* A key that is there keeps its place, a new one comes last: the metadata   *)
(* stay a dictionary.                                                        *)
LEMMA CachedKeys ==
  ASSUME TypeOK, NEW c \in Channels, NEW g \in Records
  PROVE  /\ Cached(c, g) \in Seq(Key)
         /\ Cached(c, g) # << >>
         /\ \A i, j \in DOMAIN Cached(c, g) :
              Cached(c, g)[i].channel = Cached(c, g)[j].channel => i = j
         /\ \A i \in DOMAIN Cached(c, g) :
              \/ Cached(c, g)[i] = Entry(c, g)
              \/ /\ Cached(c, g)[i].channel # c
                 /\ \E j \in DOMAIN meta : Cached(c, g)[i] = meta[j]
<1> DEFINE there == \E i \in DOMAIN meta : meta[i].channel = c
<1>a. meta \in Seq(Key)
  BY DEF TypeOK, Key
<1>b. Entry(c, g) = [channel |-> c, gen |-> g] /\ Entry(c, g) \in Key
  BY DEF Key, Entry
<1>c. Entry(c, g).channel = c
  BY <1>b
<1>d. /\ DOMAIN meta = 1..Len(meta) /\ Len(meta) \in Nat
      /\ \A i \in DOMAIN meta : meta[i] \in Key
  BY <1>a
<1>e. \A i, j \in DOMAIN meta : meta[i].channel = meta[j].channel => i = j
  BY DEF TypeOK
<1>0. /\ meta \in Seq(Key) /\ Entry(c, g) \in Key /\ Entry(c, g).channel = c
      /\ DOMAIN meta = 1..Len(meta) /\ Len(meta) \in Nat
      /\ \A i \in DOMAIN meta : meta[i] \in Key
      /\ \A i, j \in DOMAIN meta : meta[i].channel = meta[j].channel => i = j
  BY <1>a, <1>b, <1>c, <1>d, <1>e
<1>1. CASE there
  <2> DEFINE new == [i \in 1..Len(meta) |-> IF meta[i].channel = c THEN Entry(c, g) ELSE meta[i]]
  <2>1. Cached(c, g) = new
    BY <1>0, <1>1 DEF Cached
  <2>2. \A i \in 1..Len(meta) : new[i] \in Key
    BY <1>0
  <2>3. new \in Seq(Key) /\ Len(new) = Len(meta) /\ DOMAIN new = 1..Len(meta)
    <3> HIDE DEF new
    <3>1. DOMAIN new = 1..Len(meta) /\ new = [i \in 1..Len(meta) |-> new[i]]
      BY DEF new
    <3>2. new \in [1..Len(meta) -> Key]
      BY <2>2, <3>1
    <3> QED BY <1>0, <3>1, <3>2
  <2>4. Len(meta) > 0
    BY <1>0, <1>1
  <2>5. \A i \in 1..Len(meta) : new[i].channel = meta[i].channel
    BY <1>0
  <2>6. \A i, j \in DOMAIN new : new[i].channel = new[j].channel => i = j
    BY <1>0, <2>3, <2>5
  <2>7. \A i \in 1..Len(meta) : \/ new[i] = Entry(c, g)
                                \/ new[i].channel # c /\ new[i] = meta[i]
    BY <1>0
  <2> HIDE DEF new
  <2> QED BY <1>0, <2>1, <2>3, <2>4, <2>6, <2>7
<1>2. CASE ~there
  <2> DEFINE new == Append(meta, Entry(c, g))
  <2>1. Cached(c, g) = new
    BY <1>2 DEF Cached
  <2>2. /\ new \in Seq(Key) /\ DOMAIN new = 1..(Len(meta) + 1)
        /\ \A i \in 1..Len(meta) : new[i] = meta[i]
        /\ new[Len(meta) + 1] = Entry(c, g)
    BY <1>0
  <2>3. \A i \in DOMAIN new : \/ i = Len(meta) + 1 /\ new[i] = Entry(c, g)
                              \/ /\ i \in DOMAIN meta /\ new[i] = meta[i]
                                 /\ new[i].channel # c
    BY <1>0, <1>2, <2>2
  <2> HIDE DEF new
  <2>4. \A i, j \in DOMAIN new : new[i].channel = new[j].channel => i = j
    BY <1>0, <2>2, <2>3
  <2>5. new # << >>
    BY <1>0, <2>2
  <2> QED BY <1>0, <2>1, <2>2, <2>3, <2>4, <2>5
<1> QED BY <1>1, <1>2

(* What a read may give is a record, of the capture in memory if no answer   *)
(* was another query's and no command is pending.                            *)
LEMMA OutcomeRecord ==
  ASSUME TypeOK, NEW own \in BOOLEAN, own => gen > 0, NEW g \in Outcomes(own)
  PROVE  g \in Records /\ (own /\ pending = << >> => g = gen)
BY BoundAssumption DEF TypeOK, Captures, Outcomes, Records, Mixed

(* What a command adds to, and the scope takes from, the commands waiting.   *)
LEMMA Appended ==
  ASSUME TypeOK, NEW command \in Commands
  PROVE  /\ Append(pending, command) \in Seq(Commands)
         /\ Append(pending, command) # << >>
         /\ Append(pending, command)[Len(Append(pending, command))] = command
BY DEF TypeOK

LEMMA Obeyed ==
  ASSUME TypeOK, pending # << >>
  PROVE  /\ Tail(pending) \in Seq(Commands)
         /\ Tail(pending) = << >> => Head(pending) = pending[Len(pending)]
         /\ Tail(pending) # << >> => Tail(pending)[Len(Tail(pending))] = pending[Len(pending)]
<1>1. pending \in Seq(Commands)
  BY DEF TypeOK
<1>2. /\ Len(pending) \in Nat \ {0}
      /\ Tail(pending) \in Seq(Commands) /\ Len(Tail(pending)) = Len(pending) - 1
      /\ \A i \in 1..Len(Tail(pending)) : Tail(pending)[i] = pending[i + 1]
  BY <1>1, HeadTailProperties, EmptySeq
<1>3. CASE Tail(pending) = << >>
  <2>1. Len(pending) = 1
    BY <1>2, <1>3
  <2> QED BY <1>2, <1>3, <2>1
<1>4. CASE Tail(pending) # << >>
  <2>1. Len(Tail(pending)) \in Nat \ {0}
    BY <1>2, <1>4, EmptySeq
  <2> QED BY <1>2, <1>4, <2>1
<1> QED BY <1>2, <1>3, <1>4

(* Types.                                                                    *)
LEMMA InitTypes == Init => TypeOK
<1> SUFFICES ASSUME Init PROVE TypeOK
  OBVIOUS
<1>1. << >> \in Seq(Commands) /\ << >> \in Seq(Key)
  OBVIOUS
<1>2. gen \in Captures /\ 0 \in Captures /\ shot \in 0..MaxShot
  BY BoundAssumption DEF Init, Captures
<1>3. next \in 1..(Len(Order) + 1)
  <2>1. Len(Order) \in Nat
    BY OrderAssumption
  <2> QED BY <2>1 DEF Init
<1>4. records \in [Channels -> Records \cup {0}]
  BY DEF Init
<1>5. \A i, j \in DOMAIN meta : meta[i].channel = meta[j].channel => i = j
  BY DEF Init
<1>6. meta \in Seq(Key) /\ pending \in Seq(Commands)
  BY <1>1 DEF Init
<1>7. /\ trig \in {"run", "stop"} /\ shown \in SUBSET Channels /\ pc = "closed"
      /\ found = {} /\ todo = {} /\ last = 0 /\ base = 0
      /\ link = "step" /\ hasty = FALSE /\ astray = FALSE /\ missed = FALSE
  BY DEF Init
<1> QED BY <1>2, <1>3, <1>4, <1>5, <1>6, <1>7 DEF TypeOK, Key

LEMMA TypeInductive == TypeOK /\ [Next]_vars => TypeOK'
<1> SUFFICES ASSUME TypeOK, [Next]_vars PROVE TypeOK'
  OBVIOUS
<1> USE BoundAssumption
<1>0. Len(Order) \in Nat /\ DOMAIN Order = 1..Len(Order)
  BY OrderAssumption
<1>1. CASE Connect
  BY <1>1 DEF TypeOK, Connect, scopeVars, shotVars, Captures
<1>2. CASE Close
  BY <1>2 DEF TypeOK, Close, scopeVars, shotVars, cacheVars
<1>3. CASE StartShot
  <2>1. records' \in [Channels -> Records \cup {0}] /\ gen \in Captures
    BY <1>3 DEF TypeOK, StartShot, Captures
  <2>2. next' \in 1..(Len(Order) + 1) /\ shot' \in 0..MaxShot
    BY <1>0, <1>3 DEF TypeOK, StartShot
  <2> QED BY <1>3, <2>1, <2>2 DEF TypeOK, StartShot, scopeVars
<1>4. CASE ArmSingle
  <2>1. pending' \in Seq(Commands)
    BY <1>4, Appended DEF ArmSingle, Write, Commands
  <2> QED BY <1>4, <2>1 DEF TypeOK, ArmSingle, Write, TextExchange, shotVars, cacheVars
<1>5. CASE SeesStop
  BY <1>5 DEF TypeOK, SeesStop, TextExchange, scopeVars, cacheVars
<1>6. CASE StopDeadline
  BY <1>6 DEF TypeOK, StopDeadline, TextExchange, scopeVars, shotVars, cacheVars
<1>7. CASE AskDisplay
  <2>1. Order[next] \in Channels /\ next' \in 1..(Len(Order) + 1)
    BY <1>0, <1>7 DEF TypeOK, AskDisplay, Channels
  <2> QED BY <1>7, <2>1 DEF TypeOK, AskDisplay, TextExchange, scopeVars, shotVars, cacheVars
<1>8. CASE ScanDone
  BY <1>8 DEF TypeOK, ScanDone, TextExchange, scopeVars, shotVars, cacheVars
<1>9. CASE ShotDone
  BY <1>9 DEF TypeOK, ShotDone, scopeVars, shotVars, cacheVars
<1>10. ASSUME NEW c \in Channels, Acquire(c) PROVE TypeOK'
  <2>1. PICK own \in BOOLEAN :
          /\ own => gen > 0
          /\ astray' = (astray \/ ~own)
          /\ \E g \in Outcomes(own) : /\ records' = [records EXCEPT ![c] = g]
                                      /\ meta' = Cached(c, g) /\ last' = g
    BY <1>10 DEF Acquire
  <2>2. PICK g \in Outcomes(own) : /\ records' = [records EXCEPT ![c] = g]
                                   /\ meta' = Cached(c, g) /\ last' = g
    BY <2>1
  <2>3. g \in Records
    BY <2>1, OutcomeRecord
  <2>4. /\ meta' \in Seq(Key)
        /\ \A i, j \in DOMAIN meta' : meta'[i].channel = meta'[j].channel => i = j
    BY <2>2, <2>3, CachedKeys
  <2>5. link' \in {"step", "late", "torn"}
    BY <1>10 DEF Acquire
  <2> QED BY <1>10, <2>1, <2>2, <2>3, <2>4, <2>5 DEF TypeOK, Key, Acquire, scopeVars
<1>11. ASSUME NEW c \in todo, AcquireFails(c) PROVE TypeOK'
  BY <1>11 DEF TypeOK, AcquireFails, scopeVars, shotVars, cacheVars
<1>12. ASSUME NEW command \in {"run", "stop"}, RunOrStop(command) PROVE TypeOK'
  <2>1. pending' \in Seq(Commands)
    BY <1>12, Appended DEF RunOrStop, Write, Commands
  <2> QED BY <1>12, <2>1 DEF TypeOK, RunOrStop, Write, TextExchange, shotVars, cacheVars
<1>13. CASE Trigger
  BY <1>13 DEF TypeOK, Trigger, Captures, shotVars, cacheVars
<1>14. CASE Obey
  <2>1. pending' \in Seq(Commands)
    BY <1>14, Obeyed DEF Obey
  <2> QED BY <1>14, <2>1 DEF TypeOK, Obey, shotVars, cacheVars
<1>15. ASSUME NEW c \in Channels, PressDisplay(c) PROVE TypeOK'
  BY <1>15 DEF TypeOK, PressDisplay, shotVars, cacheVars
<1>16. CASE UNCHANGED vars
  BY <1>16 DEF TypeOK, vars, scopeVars, shotVars, cacheVars
<1>17. CASE PollCut
  BY <1>17 DEF TypeOK, PollCut, scopeVars, shotVars, cacheVars
<1>18. found \subseteq Channels /\ todo \subseteq Channels
  BY DEF TypeOK
<1> QED
  BY <1>1, <1>2, <1>3, <1>4, <1>5, <1>6, <1>7, <1>8, <1>9, <1>10, <1>11, <1>12, <1>13,
     <1>14, <1>15, <1>16, <1>17, <1>18 DEF Next, Poll, Shot

(***************************************************************************)
(* Every variable keeps its type; the cached metadata have one entry for   *)
(* each channel, as _last_metadata is a dictionary.                        *)
(***************************************************************************)
THEOREM TypeCorrect == Spec => []TypeOK
<1> QED BY InitTypes, TypeInductive, PTL DEF Spec
----------------------------------------------------------------------------
(* While the status is polled SINGLE is the last command waiting, or the     *)
(* scope has taken it: then STOP means a capture of this shot.               *)
SingleLast ==
  pc = "poll" => \/ pending # << >> /\ pending[Len(pending)] = "single"
                 \/ pending = << >> /\ trig = "wait"
                 \/ pending = << >> /\ trig = "stop" /\ gen > base

(* From there on nothing makes the scope capture again.                      *)
HeldStill ==
  pc \in {"scan", "read"} /\ ~hasty => pending = << >> /\ trig = "stop" /\ gen > base

NoneYet == pc \in {"single", "poll", "scan"} => Read = {}

ReadHeld == pc = "read" /\ ~hasty /\ ~astray => \A c \in Read : records[c] = gen

(* The metadata of a channel read in this shot are those of its record.      *)
KnownAxis ==
  \A i \in DOMAIN meta : meta[i].channel \in Read => meta[i].gen = records[meta[i].channel]

SomeMetadata == Read # {} => meta # << >>

IInv == /\ TypeOK
        /\ base <= gen
        /\ SingleLast /\ HeldStill /\ NoneYet
        /\ ReadHeld /\ OneCapture
        /\ KnownAxis /\ SomeMetadata

LEMMA InitInductive == Init => IInv
<1> SUFFICES ASSUME Init PROVE IInv
  OBVIOUS
<1>1. TypeOK
  BY InitTypes
<1>2. Read = {} /\ meta = << >> /\ base <= gen /\ pc = "closed"
  BY DEF Init, Read
<1>3. DOMAIN meta = {}
  BY <1>2
<1> QED BY <1>1, <1>2, <1>3 DEF IInv, SingleLast, HeldStill, NoneYet, ReadHeld, OneCapture, KnownAxis, SomeMetadata

(* Every step but a read keeps what has been read, or forgets it.            *)
LEMMA RecordsKept ==
  ASSUME IInv,
         \/ Read' = {}
         \/ /\ records' = records /\ meta' = meta
            /\ pc' = "read" => pc = "read" /\ gen' = gen
            /\ Read # {} => hasty' = hasty /\ base' = base /\ astray' = astray
  PROVE  ReadHeld' /\ OneCapture' /\ KnownAxis' /\ SomeMetadata'
<1>1. CASE Read' = {}
  BY <1>1 DEF ReadHeld, OneCapture, KnownAxis, SomeMetadata
<1>2. CASE Read' # {}
  <2>1. records' = records /\ meta' = meta /\ Read' = Read
    BY <1>2 DEF Read
  <2> QED BY <1>2, <2>1 DEF IInv, ReadHeld, OneCapture, KnownAxis, SomeMetadata
<1> QED BY <1>1, <1>2

LEMMA Inductive == IInv /\ [Next]_vars => IInv'
<1> SUFFICES ASSUME IInv, [Next]_vars PROVE IInv'
  OBVIOUS
<1>0. TypeOK /\ TypeOK'
  BY TypeInductive DEF IInv
<1>a. gen \in Nat /\ base \in Nat /\ gen' \in Nat /\ base' \in Nat
  BY <1>0, BoundAssumption DEF TypeOK, Captures
<1> DEFINE Rest == /\ base <= gen
                   /\ SingleLast /\ HeldStill /\ NoneYet
           Held == ReadHeld /\ OneCapture /\ KnownAxis /\ SomeMetadata
<1>1. CASE Connect
  <2>1. Read' = {}
    BY <1>1 DEF Connect, Read
  <2>2. Held'
    BY <1>0, <1>1, <2>1, RecordsKept DEF Connect, shotVars
  <2>3. Rest'
    BY <1>1, <2>1 DEF IInv, Connect, SingleLast, HeldStill, NoneYet, scopeVars, shotVars
  <2> QED BY <1>0, <2>2, <2>3 DEF IInv
<1>2. CASE Close
  <2>1. Held'
    BY <1>0, <1>2, RecordsKept DEF Close, scopeVars, shotVars, cacheVars
  <2>2. Rest'
    BY <1>2 DEF IInv, Close, SingleLast, HeldStill, NoneYet, scopeVars, shotVars
  <2> QED BY <1>0, <2>1, <2>2 DEF IInv
<1>3. CASE StartShot
  <2>1. Read' = {}
    BY <1>3 DEF StartShot, Read
  <2>2. Held'
    BY <2>1 DEF ReadHeld, OneCapture, KnownAxis, SomeMetadata
  <2>3. Rest'
    BY <1>3, <1>a, <2>1 DEF StartShot, SingleLast, HeldStill, NoneYet, scopeVars
  <2> QED BY <1>0, <2>2, <2>3 DEF IInv
<1>4. CASE ArmSingle
  <2>1. Read' = Read /\ Read = {}
    BY <1>4 DEF ArmSingle, IInv, NoneYet, Read, cacheVars
  <2>2. Held'
    BY <2>1 DEF ReadHeld, OneCapture, KnownAxis, SomeMetadata
  <2>3. SingleLast'
    BY <1>0, <1>4, Appended DEF ArmSingle, Write, Commands, SingleLast
  <2>4. Rest'
    BY <1>4, <2>1, <2>3 DEF IInv, ArmSingle, Write, HeldStill, NoneYet, shotVars
  <2> QED BY <1>0, <2>2, <2>4 DEF IInv
<1>5. CASE SeesStop
  <2>1. Read' = Read /\ Read = {}
    BY <1>5 DEF SeesStop, IInv, NoneYet, Read, cacheVars
  <2>2. Held'
    BY <2>1 DEF ReadHeld, OneCapture, KnownAxis, SomeMetadata
  <2>3. HeldStill'
    BY <1>5 DEF IInv, SeesStop, SingleLast, HeldStill, scopeVars
  <2>4. Rest'
    BY <1>5, <2>1, <2>3 DEF IInv, SeesStop, SingleLast, NoneYet, scopeVars
  <2> QED BY <1>0, <2>2, <2>4 DEF IInv
<1>6. CASE StopDeadline
  <2>1. Held'
    BY <1>0, <1>6, RecordsKept DEF StopDeadline, scopeVars, shotVars, cacheVars
  <2>2. Rest'
    BY <1>6 DEF IInv, StopDeadline, SingleLast, HeldStill, NoneYet, scopeVars, shotVars
  <2> QED BY <1>0, <2>1, <2>2 DEF IInv
<1>7. CASE AskDisplay
  <2>1. Read' = Read /\ Read = {}
    BY <1>7 DEF AskDisplay, IInv, NoneYet, Read, cacheVars
  <2>2. Held'
    BY <2>1 DEF ReadHeld, OneCapture, KnownAxis, SomeMetadata
  <2>3. Rest'
    BY <1>7, <2>1 DEF IInv, AskDisplay, SingleLast, HeldStill, NoneYet, scopeVars, shotVars
  <2> QED BY <1>0, <2>2, <2>3 DEF IInv
<1>8. CASE ScanDone
  <2>1. Read' = Read /\ Read = {}
    BY <1>8 DEF ScanDone, IInv, NoneYet, Read, cacheVars
  <2>2. Held'
    BY <2>1 DEF ReadHeld, OneCapture, KnownAxis, SomeMetadata
  <2>3. Rest'
    BY <1>8, <2>1 DEF IInv, ScanDone, SingleLast, HeldStill, NoneYet, scopeVars, shotVars
  <2> QED BY <1>0, <2>2, <2>3 DEF IInv
<1>9. CASE ShotDone
  <2>1. Held'
    BY <1>0, <1>9, RecordsKept DEF ShotDone, scopeVars, shotVars, cacheVars
  <2>2. Rest'
    BY <1>9 DEF IInv, ShotDone, SingleLast, HeldStill, NoneYet, scopeVars, shotVars
  <2> QED BY <1>0, <2>1, <2>2 DEF IInv
<1>10. ASSUME NEW c \in Channels, Acquire(c) PROVE IInv'
  <2>1. /\ pc = "read" /\ pc' = "read" /\ gen' = gen /\ base' = base
        /\ hasty' = hasty /\ trig' = trig /\ pending' = pending
    BY <1>10 DEF Acquire, scopeVars
  <2>2. PICK own \in BOOLEAN :
          /\ own => gen > 0
          /\ astray' = (astray \/ ~own)
          /\ \E g \in Outcomes(own) : /\ records' = [records EXCEPT ![c] = g]
                                      /\ meta' = Cached(c, g)
    BY <1>10 DEF Acquire
  <2>3. PICK g \in Outcomes(own) : /\ records' = [records EXCEPT ![c] = g]
                                   /\ meta' = Cached(c, g)
    BY <2>2
  <2>4. g \in Records /\ (own /\ pending = << >> => g = gen)
    BY <1>0, <2>2, OutcomeRecord
  <2>5. /\ records'[c] = g /\ g # 0
        /\ \A d \in Channels \ {c} : records'[d] = records[d]
    BY <1>0, <2>3, <2>4 DEF TypeOK, Records
  <2>6. Read' = Read \cup {c}
    BY <2>5 DEF Read
  <2>7. Rest'
    BY <2>1 DEF IInv, SingleLast, HeldStill, NoneYet
  <2>8. ReadHeld' /\ OneCapture'
    <3>1. ASSUME ~hasty, ~astray' PROVE gen > base /\ \A d \in Read' : records'[d] = gen
      <4>1. own /\ ~astray
        BY <2>2, <3>1
      <4>2. pending = << >> /\ gen > base
        BY <2>1, <3>1 DEF IInv, HeldStill
      <4>3. \A d \in Read : records[d] = gen
        BY <2>1, <3>1, <4>1 DEF IInv, ReadHeld
      <4> QED BY <2>4, <2>5, <2>6, <4>1, <4>2, <4>3 DEF Read
    <3> QED BY <2>1, <3>1 DEF ReadHeld, OneCapture
  <2>9. KnownAxis'
    <3> SUFFICES ASSUME NEW i \in DOMAIN Cached(c, g), Cached(c, g)[i].channel \in Read'
                 PROVE  Cached(c, g)[i].gen = records'[Cached(c, g)[i].channel]
      BY <2>3 DEF KnownAxis
    <3>1. CASE Cached(c, g)[i] = Entry(c, g)
      BY <2>5, <3>1 DEF Entry
    <3>2. CASE Cached(c, g)[i] # Entry(c, g)
      <4>1. /\ Cached(c, g)[i].channel # c
            /\ \E j \in DOMAIN meta : Cached(c, g)[i] = meta[j]
        BY <1>0, <2>4, <3>2, CachedKeys
      <4>2. Cached(c, g)[i].channel \in Read /\ Cached(c, g)[i].channel \in Channels
        BY <2>6, <4>1 DEF Read
      <4> QED BY <2>5, <4>1, <4>2 DEF IInv, KnownAxis
    <3> QED BY <3>1, <3>2
  <2>10. SomeMetadata'
    BY <1>0, <2>3, <2>4, CachedKeys DEF SomeMetadata
  <2> QED BY <1>0, <2>7, <2>8, <2>9, <2>10 DEF IInv
<1>11. ASSUME NEW c \in todo, AcquireFails(c) PROVE IInv'
  <2>1. Held'
    BY <1>0, <1>11, RecordsKept DEF AcquireFails, scopeVars, shotVars, cacheVars
  <2>2. Rest'
    BY <1>11 DEF IInv, AcquireFails, SingleLast, HeldStill, NoneYet, scopeVars, shotVars
  <2> QED BY <1>0, <2>1, <2>2 DEF IInv
<1>12. ASSUME NEW command \in {"run", "stop"}, RunOrStop(command) PROVE IInv'
  <2>1. Held'
    BY <1>0, <1>12, RecordsKept DEF RunOrStop, Write, shotVars, cacheVars
  <2>2. Rest'
    BY <1>12 DEF IInv, RunOrStop, Write, SingleLast, HeldStill, NoneYet, shotVars
  <2> QED BY <1>0, <2>1, <2>2 DEF IInv
<1>13. CASE Trigger
  <2>1. Read' = Read
    BY <1>13 DEF Trigger, Read, cacheVars
  <2>2. pc = "read" => hasty
    BY <1>13 DEF IInv, Trigger, HeldStill
  <2>3. Held'
    BY <1>13, <2>1, <2>2
       DEF IInv, Trigger, ReadHeld, OneCapture, KnownAxis, SomeMetadata, shotVars, cacheVars
  <2>4. gen' > base' /\ base' = base
    BY <1>13, <1>a DEF IInv, Trigger, shotVars
  <2>5. Rest'
    BY <1>13, <1>a, <2>1, <2>4
       DEF IInv, Trigger, SingleLast, HeldStill, NoneYet, shotVars
  <2> QED BY <1>0, <2>3, <2>5 DEF IInv
<1>14. CASE Obey
  <2>1. /\ Read' = Read /\ gen' = gen /\ base' = base /\ pc' = pc /\ hasty' = hasty
        /\ pending # << >> /\ pending' = Tail(pending)
    BY <1>14 DEF Obey, Read, shotVars, cacheVars
  <2>2. Held'
    BY <1>0, <1>14, RecordsKept DEF Obey, shotVars, cacheVars
  <2>3. SingleLast'
    <3>1. CASE Tail(pending) = << >>
      BY <1>0, <1>14, <2>1, <3>1, Obeyed DEF IInv, Obey, SingleLast
    <3>2. CASE Tail(pending) # << >>
      BY <1>0, <2>1, <3>2, Obeyed DEF IInv, SingleLast
    <3> QED BY <3>1, <3>2
  <2>4. HeldStill' /\ NoneYet' /\ base' <= gen'
    BY <2>1 DEF IInv, HeldStill, NoneYet
  <2> QED BY <1>0, <2>2, <2>3, <2>4 DEF IInv
<1>15. ASSUME NEW c \in Channels, PressDisplay(c) PROVE IInv'
  <2>1. Held'
    BY <1>0, <1>15, RecordsKept DEF PressDisplay, shotVars, cacheVars
  <2>2. Rest'
    BY <1>15 DEF IInv, PressDisplay, SingleLast, HeldStill, NoneYet, Read, shotVars, cacheVars
  <2> QED BY <1>0, <2>1, <2>2 DEF IInv
<1>16. CASE UNCHANGED vars
  <2>1. Held'
    BY <1>0, <1>16, RecordsKept DEF vars, scopeVars, shotVars, cacheVars
  <2>2. Rest'
    BY <1>16 DEF IInv, SingleLast, HeldStill, NoneYet, Read, vars, scopeVars, shotVars, cacheVars
  <2> QED BY <1>0, <2>1, <2>2 DEF IInv
<1>17. CASE PollCut
  <2>1. Held'
    BY <1>0, <1>17, RecordsKept DEF PollCut, scopeVars, shotVars, cacheVars
  <2>2. Rest'
    BY <1>17 DEF IInv, PollCut, SingleLast, HeldStill, NoneYet, Read, scopeVars, shotVars, cacheVars
  <2> QED BY <1>0, <2>1, <2>2 DEF IInv
<1>18. found \subseteq Channels /\ todo \subseteq Channels
  BY <1>0 DEF TypeOK
<1> QED
  BY <1>1, <1>2, <1>3, <1>4, <1>5, <1>6, <1>7, <1>8, <1>9, <1>10, <1>11, <1>12, <1>13,
     <1>14, <1>15, <1>16, <1>17, <1>18 DEF Next, Poll, Shot

(***************************************************************************)
(* However late the scope obeys, whoever presses its buttons and whatever  *)
(* late answers the shots before have left, if the scope had taken SINGLE  *)
(* and stopped when its status was read as STOP, and no read of this shot  *)
(* took another query's answer, all records of the shot are of one capture *)
(* and that capture is of this shot.                                       *)
(***************************************************************************)
THEOREM ShotOfOneCapture == Spec => []OneCapture
<1>1. IInv => OneCapture
  BY DEF IInv
<1> QED BY InitInductive, Inductive, <1>1, PTL DEF Spec

(***************************************************************************)
(* In such a shot time_array() has the axis of its capture once every      *)
(* channel in the cache has been acquired in it, whatever the order of its *)
(* keys.                                                                   *)
(***************************************************************************)
THEOREM TimeAxisOfShot == Spec => []AxisOfShot
<1>1. IInv => AxisOfShot
  <2> SUFFICES ASSUME IInv, Read # {}, ~hasty, ~astray,
                      \A i \in DOMAIN meta : meta[i].channel \in Read,
                      NEW c \in Read
               PROVE  TimeArray = records[c]
    BY DEF AxisOfShot
  <2>1. meta # << >> /\ meta \in Seq(Key)
    BY DEF IInv, SomeMetadata, TypeOK, Key
  <2>2. Len(meta) \in DOMAIN meta
    BY <2>1, EmptySeq
  <2>3. meta[Len(meta)].gen = records[meta[Len(meta)].channel]
    BY <2>2 DEF IInv, KnownAxis
  <2>4. meta[Len(meta)].channel \in Channels /\ c \in Channels
    BY <2>2 DEF Read
  <2> QED BY <2>1, <2>2, <2>3, <2>4 DEF IInv, OneCapture, TimeArray
<1> QED BY InitInductive, Inductive, <1>1, PTL DEF Spec

----------------------------------------------------------------------------
(* The scan has looked at the channels before next, and a read has taken     *)
(* from todo what it has recorded: as long as nothing was missed.            *)
Looked == {Order[i] : i \in 1..(next - 1)}

ScanExact ==
  ~missed => /\ pc \in {"single", "poll"} => next = 1 /\ found = {}
             /\ pc = "scan" => found = shown \cap Looked
             /\ pc = "read" => found = shown /\ Read = found \ todo

LEMMA ScanInductive == IInv /\ ScanExact /\ [Next]_vars => ScanExact'
<1> SUFFICES ASSUME IInv, ScanExact, [Next]_vars, ~missed' PROVE ScanExact'
  BY DEF ScanExact
<1>0. /\ TypeOK /\ Len(Order) \in Nat /\ DOMAIN Order = 1..Len(Order)
      /\ pc \in {"single", "poll", "scan"} => Read = {}
  BY OrderAssumption DEF IInv, NoneYet
<1> USE DEF ScanExact
<1>1. CASE Connect \/ Close \/ PollCut \/ StopDeadline \/ ShotDone
  BY <1>1 DEF Connect, Close, PollCut, StopDeadline, ShotDone
<1>2. CASE StartShot
  BY <1>2 DEF StartShot
<1>3. CASE ArmSingle
  BY <1>3 DEF ArmSingle
<1>4. CASE SeesStop
  <2>1. pc = "poll" /\ pc' = "scan" /\ UNCHANGED <<next, found, shown, missed>>
    BY <1>4 DEF SeesStop, scopeVars
  <2>2. Looked' = {} \/ next # 1
    BY <2>1 DEF Looked
  <2> QED BY <2>1, <2>2
<1>5. CASE AskDisplay
  <2>a. OwnAnswer /\ ~missed
    BY <1>5 DEF AskDisplay
  <2>b. next \in 1..Len(Order)
    BY <1>0, <1>5 DEF AskDisplay, TypeOK
  <2>1. /\ pc = "scan" /\ pc' = "scan" /\ next' = next + 1 /\ next \in 1..Len(Order)
        /\ found' = IF Order[next] \in shown THEN found \cup {Order[next]} ELSE found
        /\ shown' = shown /\ ~missed
    BY <1>5, <2>a, <2>b DEF AskDisplay, scopeVars
  <2>2. Looked' = Looked \cup {Order[next]}
    <3>1. \A i : i \in 1..(next' - 1) <=> i = next \/ i \in 1..(next - 1)
      BY <2>1
    <3> QED BY <3>1 DEF Looked
  <2>3. found = shown \cap Looked
    BY <2>1
  <2> QED BY <2>1, <2>2, <2>3
<1>6. CASE ScanDone
  <2>1. /\ pc = "scan" /\ pc' = "read" /\ next = Len(Order) + 1 /\ todo' = found
        /\ UNCHANGED <<found, shown, missed, records>>
    BY <1>0, <1>6 DEF ScanDone, TypeOK, scopeVars, cacheVars
  <2>2. Looked = Channels
    BY <1>0, <2>1 DEF Looked, Channels
  <2>3. Read' = {}
    BY <1>0, <2>1 DEF Read
  <2> QED BY <1>0, <2>1, <2>2, <2>3 DEF TypeOK
<1>7. ASSUME NEW c \in found, Acquire(c) PROVE ScanExact'
  <2>1. /\ pc = "read" /\ pc' = "read" /\ todo' = todo \ {c}
        /\ UNCHANGED <<found, shown, missed>>
    BY <1>7 DEF Acquire, scopeVars
  <2>2. PICK own \in BOOLEAN :
          /\ own => gen > 0
          /\ \E g \in Outcomes(own) : records' = [records EXCEPT ![c] = g]
    BY <1>7 DEF Acquire
  <2>3. PICK g \in Outcomes(own) : records' = [records EXCEPT ![c] = g]
    BY <2>2
  <2>4. g \in Records
    BY <1>0, <2>2, OutcomeRecord
  <2>5. records \in [Channels -> Records \cup {0}] /\ c \in Channels /\ g # 0
    BY <1>0, <1>7, <2>4 DEF TypeOK, Records
  <2>6. Read' = Read \cup {c}
    BY <2>3, <2>5 DEF Read
  <2> QED BY <1>7, <2>1, <2>6
<1>8. ASSUME NEW c \in todo, AcquireFails(c) PROVE ScanExact'
  BY <1>8 DEF AcquireFails
<1>9. ASSUME NEW command \in {"run", "stop"}, RunOrStop(command) PROVE ScanExact'
  BY <1>9 DEF RunOrStop
<1>10. CASE Trigger \/ Obey
  <2>1. UNCHANGED <<pc, next, found, todo, shown, records, missed>>
    BY <1>10 DEF Trigger, Obey, cacheVars
  <2> QED BY <2>1 DEF Looked, Read
<1>11. ASSUME NEW c \in Channels, PressDisplay(c) PROVE ScanExact'
  BY <1>11 DEF PressDisplay
<1>12. CASE UNCHANGED vars
  BY <1>12 DEF vars, scopeVars, cacheVars, Looked, Read
<1>13. todo \subseteq found
  BY <1>0 DEF TypeOK
<1> QED
  BY <1>1, <1>2, <1>3, <1>4, <1>5, <1>6, <1>7, <1>8, <1>9, <1>10, <1>11, <1>12, <1>13
     DEF Next, Poll, Shot

(***************************************************************************)
(* When a shot in which nobody pressed a display button, no read failed    *)
(* and the scan got its own answers is over, the channels read are exactly *)
(* those displayed: displayed_channels has left none out, none is left     *)
(* from a shot before, and late answers of shots before do not shift the   *)
(* scan once a read has put the link right.                                *)
(***************************************************************************)
THEOREM ShotHasTheDisplayed == Spec => []ShotExact
<1>1. Init => IInv /\ ScanExact
  BY InitInductive DEF Init, ScanExact
<1>2. IInv /\ ScanExact /\ [Next]_vars => (IInv /\ ScanExact)'
  BY Inductive, ScanInductive
<1>3. IInv /\ ScanExact => ShotExact
  BY DEF ScanExact, ShotExact
<1> QED BY <1>1, <1>2, <1>3, PTL DEF Spec
=============================================================================
