-------------------------- MODULE LeCroyShotProof --------------------------
(***************************************************************************)
(* For any number of slaves, modes and shots: a scope that began the shot  *)
(* unarmed and is reported complete by wait_for_stop_then_complete holds   *)
(* an edge of the shot in progress; complete scopes hold the same edge;    *)
(* and a slave that began the shot clean misses no edge of it before it is *)
(* told to stop.  This for scopes that obey CLEAR_SWEEPS in STOP or show a *)
(* written trigger mode at once: the run LeCroyShotStale shows that one of *)
(* the two is needed.                                                      *)
(***************************************************************************)
EXTENDS LeCroyShot, SequenceTheorems, TLAPS

Arming == {"pick", "clear", "single", "verify", "inr"}
Waiting == {"await", "stop", "counter"}
Stopping == {"abandon", "halt", "halted"}

(* Scopes the caller has written SINGLE to in this shot, until it stops them. *)
Written ==
  CASE pc = "pick"                -> Slaves \ todo
    [] pc \in {"clear", "single"} -> (Slaves \ todo) \ {cur}
    [] pc \in {"verify", "inr"}   -> (Slaves \ todo) \cup {cur}
    [] pc \in Waiting             -> Scopes
    [] OTHER                      -> {}

(* What a STOP and a counter together say of a scope. *)
Fresh(s) == mode[s] = "STOP" /\ sweeps[s] >= 1 => captured[s] > base

(* A steady scope has at most the SINGLE of this shot to take over. *)
OneTold == pc \in Arming \cup Waiting => \A s \in steady :
             told[s] = <<>> \/ (s \in Written /\ told[s] = <<"SINGLE">>)
WrittenFresh == \A s \in Written \cap steady : Fresh(s)
ClearedFresh == pc = "single" /\ ClearsInStop /\ cur \in steady => Fresh(cur)
CounterFresh == pc = "counter" /\ cur \in steady =>
                  /\ mode[cur] # "AUTO"
                  /\ sweeps[cur] >= 1 => captured[cur] > base
CompleteFresh == \A s \in complete \cap steady : mode[s] # "AUTO" /\ captured[s] > base
SlavesFirst ==
  /\ pc \in Arming => /\ todo \subseteq Slaves
                      /\ pc # "pick" => cur \notin todo
                      /\ pc # "pick" /\ cur = Master => todo = {}
                      /\ pc = "inr" => cur # Master
  /\ pc = "halt" => cur \notin todo

IInv == /\ TypeOK
        /\ OneTold
        /\ WrittenFresh
        /\ ClearedFresh
        /\ CounterFresh
        /\ CompleteFresh
        /\ SlavesFirst

Proviso == ClearsInStop \/ Lagging = {}

LEMMA InitInductive == Init => IInv
<1> SUFFICES ASSUME Init PROVE IInv
  OBVIOUS
<1> USE ScopesAssumption, HardwareAssumption, BoundAssumption
<1>1. TypeOK
  <2>1. sweeps \in [Scopes -> 0..MaxSweeps]
    <3>1. 0..1 \subseteq 0..MaxSweeps
      OBVIOUS
    <3> QED BY <3>1 DEF Init
  <2>2. mode \in [Scopes -> {"AUTO", "SINGLE", "STOP"}]
    BY DEF Init
  <2>3. Master \in Scopes
    BY DEF Scopes
  <2>4. <<>> \in Seq({"SINGLE", "STOP"})
    OBVIOUS
  <2> QED BY <2>1, <2>2, <2>3, <2>4 DEF Init, TypeOK, Steps
<1>2. OneTold /\ WrittenFresh /\ ClearedFresh /\ CounterFresh /\ CompleteFresh /\ SlavesFirst
  BY DEF Init, OneTold, WrittenFresh, Written, ClearedFresh, CounterFresh, CompleteFresh,
         SlavesFirst, Arming, Waiting
<1> QED BY <1>1, <1>2 DEF IInv

(* A mode is written to a scope, or taken over by it. *)
LEMMA ModesWritten ==
  ASSUME TypeOK, NEW m \in {"SINGLE", "STOP"}, Write(m)
  PROVE  /\ mode' \in [Scopes -> {"AUTO", "SINGLE", "STOP"}]
         /\ told' \in [Scopes -> Seq({"SINGLE", "STOP"})]
         /\ listening' \subseteq {s \in Scopes : mode'[s] = "SINGLE"}
         /\ UNCHANGED <<inr, sweeps, captured, pulse>>
<1> USE DEF TypeOK, Write
<1>1. Append(told[cur], m) \in Seq({"SINGLE", "STOP"})
  BY AppendProperties
<1>2. told' \in [Scopes -> Seq({"SINGLE", "STOP"})]
  BY <1>1
<1>3. /\ mode' \in [Scopes -> {"AUTO", "SINGLE", "STOP"}]
      /\ listening' \subseteq {s \in Scopes : mode'[s] = "SINGLE"}
  OBVIOUS
<1> QED BY <1>2, <1>3

LEMMA ModesTaken ==
  ASSUME TypeOK, NEW s \in Scopes, ScopeApplies(s)
  PROVE  /\ mode' \in [Scopes -> {"AUTO", "SINGLE", "STOP"}]
         /\ told' \in [Scopes -> Seq({"SINGLE", "STOP"})]
         /\ listening' \subseteq {t \in Scopes : mode'[t] = "SINGLE"}
         /\ mode'[s] \in {"SINGLE", "STOP"}
         /\ \A t \in Scopes \ {s} : mode'[t] = mode[t] /\ told'[t] = told[t]
<1> USE DEF TypeOK, ScopeApplies
<1>1. Head(told[s]) \in {"SINGLE", "STOP"} /\ Tail(told[s]) \in Seq({"SINGLE", "STOP"})
  BY HeadTailProperties
<1>2. told' \in [Scopes -> Seq({"SINGLE", "STOP"})]
  BY <1>1
<1>3. mode' \in [Scopes -> {"AUTO", "SINGLE", "STOP"}] /\ mode'[s] \in {"SINGLE", "STOP"}
  BY <1>1
<1> QED BY <1>2, <1>3

LEMMA TypeInductive == TypeOK /\ [Next]_vars => TypeOK'
<1> SUFFICES ASSUME TypeOK, [Next]_vars PROVE TypeOK'
  OBVIOUS
<1> USE ScopesAssumption, HardwareAssumption, BoundAssumption DEF TypeOK, Steps, Scopes
<1>1. CASE UNCHANGED vars
  BY <1>1 DEF vars, scopeVars, callerVars
<1>2. CASE StartShot
  BY <1>2 DEF StartShot, scopeVars
<1>3. CASE PickNext \/ PickWait \/ PickStop
  BY <1>3 DEF PickNext, PickWait, PickStop, Reach, scopeVars
<1>4. CASE ClearSweeps
  BY <1>4 DEF ClearSweeps, Goto
<1>5. CASE WriteSingle \/ WriteStop
  <2>1. PICK m \in {"SINGLE", "STOP"} : Write(m)
    BY <1>5 DEF WriteSingle, WriteStop
  <2>2. Goto("verify") \/ Goto("halted")
    BY <1>5 DEF WriteSingle, WriteStop
  <2> HIDE DEF TypeOK
  <2>3. /\ mode' \in [Scopes -> {"AUTO", "SINGLE", "STOP"}]
        /\ told' \in [Scopes -> Seq({"SINGLE", "STOP"})]
        /\ listening' \subseteq {s \in Scopes : mode'[s] = "SINGLE"}
        /\ UNCHANGED <<inr, sweeps, captured, pulse>>
    BY <2>1, ModesWritten
  <2> QED BY <2>2, <2>3 DEF TypeOK, Goto
<1>6. CASE VerifyMode \/ VerifyGivesUp \/ VerifyStop \/ StopGivesUp \/ AllStopped
  BY <1>6 DEF VerifyMode, VerifyGivesUp, VerifyStop, StopGivesUp, AllStopped, Armed, Goto,
              Round, scopeVars
<1>7. CASE ReadInr
  BY <1>7 DEF ReadInr, Goto
<1>8. CASE InrDeadline
  BY <1>8 DEF InrDeadline, Round, scopeVars
<1>9. CASE SeesStop \/ WaitDeadline
  BY <1>9 DEF SeesStop, WaitDeadline, Goto, scopeVars
<1>10. CASE ReadCounter
  BY <1>10 DEF ReadCounter, scopeVars
<1>11. CASE ShotEnds
  BY <1>11 DEF ShotEnds, Goto, Round, scopeVars
<1>12. CASE MasterFires
  <2>1. \A s \in Scopes : Counted(s) \in 0..MaxSweeps
    BY DEF Counted
  <2>2. /\ pulse' \in Nat /\ pulse' \in 0..pulse' /\ 0..pulse \subseteq 0..pulse'
        /\ base' \in 0..pulse'
    BY <1>12 DEF MasterFires, callerVars
  <2>3. captured' \in [Scopes -> 0..pulse']
    BY <1>12, <2>2 DEF MasterFires
  <2>4. sweeps' \in [Scopes -> 0..MaxSweeps]
    BY <1>12, <2>1 DEF MasterFires
  <2>5. mode' \in [Scopes -> {"AUTO", "SINGLE", "STOP"}] /\ listening' = {}
    BY <1>12 DEF MasterFires
  <2>6. UNCHANGED <<told, inr, pc, cur, todo, complete, shot, steady, clean>>
    BY <1>12 DEF MasterFires, callerVars
  <2> QED BY <2>2, <2>3, <2>4, <2>5, <2>6
<1>13. ASSUME NEW s \in Scopes, ScopeApplies(s) PROVE TypeOK'
  <2> HIDE DEF TypeOK
  <2>1. /\ mode' \in [Scopes -> {"AUTO", "SINGLE", "STOP"}]
        /\ told' \in [Scopes -> Seq({"SINGLE", "STOP"})]
        /\ listening' \subseteq {t \in Scopes : mode'[t] = "SINGLE"}
    BY <1>13, ModesTaken
  <2> QED BY <1>13, <2>1 DEF TypeOK, ScopeApplies, callerVars
<1>14. ASSUME NEW s \in Scopes, ScopeReady(s) PROVE TypeOK'
  BY <1>14 DEF ScopeReady, callerVars
<1>15. ASSUME NEW s \in Scopes, FreeRun(s) PROVE TypeOK'
  <2>1. Counted(s) \in 0..MaxSweeps /\ 0 \in 0..pulse
    BY DEF Counted
  <2>2. sweeps' \in [Scopes -> 0..MaxSweeps] /\ captured' \in [Scopes -> 0..pulse]
    BY <1>15, <2>1 DEF FreeRun
  <2> QED BY <1>15, <2>2 DEF FreeRun, callerVars
<1> QED BY <1>1, <1>2, <1>3, <1>4, <1>5, <1>6, <1>7, <1>8, <1>9, <1>10, <1>11, <1>12,
           <1>13, <1>14, <1>15 DEF Next, Caller, Hardware, Arm, Wait, Stop

(***************************************************************************)
(* The trigger modes, counters, captures and provenance LeCroyShot keeps   *)
(* have their types in every reachable state.                              *)
(***************************************************************************)
THEOREM TypeCorrect == Spec => []TypeOK
<1>1. Init => TypeOK
  BY InitInductive DEF IInv
<1> QED BY <1>1, TypeInductive, PTL DEF Spec

(* The order the caller arms scopes in. *)
LEMMA OrderInductive == TypeOK /\ SlavesFirst /\ [Next]_vars => SlavesFirst'
<1> SUFFICES ASSUME TypeOK, SlavesFirst, [Next]_vars PROVE SlavesFirst'
  OBVIOUS
<1> USE ScopesAssumption DEF SlavesFirst, Arming
<1>1. CASE UNCHANGED callerVars
  BY <1>1 DEF callerVars
<1>2. CASE StartShot \/ PickNext
  BY <1>2 DEF StartShot, PickNext, Reach
<1>3. CASE Arm
  BY <1>3 DEF Arm, ClearSweeps, WriteSingle, VerifyMode, VerifyGivesUp, Armed, ReadInr,
              InrDeadline, Goto, Round
<1>4. CASE PickWait \/ Wait \/ ShotEnds \/ Stop
  BY <1>4 DEF PickWait, Wait, SeesStop, ReadCounter, WaitDeadline, ShotEnds, Stop, PickStop,
              WriteStop, VerifyStop, StopGivesUp, AllStopped, Goto, Round, Reach
<1>5. CASE Hardware
  BY <1>5, <1>1 DEF Hardware, MasterFires, ScopeApplies, ScopeReady, FreeRun
<1> QED BY <1>1, <1>2, <1>3, <1>4, <1>5 DEF Next, Caller, vars

FreshInv == OneTold /\ WrittenFresh /\ ClearedFresh /\ CounterFresh /\ CompleteFresh

(* The scopes may move at any moment without making a stale scope look fresh. *)
LEMMA HardwareFresh == TypeOK /\ FreshInv /\ Hardware => FreshInv'
<1> SUFFICES ASSUME TypeOK, FreshInv, Hardware PROVE FreshInv'
  OBVIOUS
<1> USE DEF FreshInv
<1>1. /\ UNCHANGED callerVars
      /\ Written' = Written
  BY DEF Hardware, MasterFires, ScopeApplies, ScopeReady, FreeRun, callerVars, Written
<1>2. Written \subseteq Scopes /\ complete \subseteq Scopes /\ cur \in Scopes
  BY DEF Written, TypeOK, Scopes
<1>3. ASSUME NEW s \in Scopes
      PROVE  /\ told[s] \in {<<>>, <<"SINGLE">>} /\ Fresh(s) => Fresh(s)'
             /\ mode[s] # "AUTO" => mode'[s] # "AUTO"
             /\ mode[s] # "AUTO" /\ captured[s] > base => captured'[s] > base
             /\ mode[s] # "AUTO" /\ (sweeps[s] >= 1 => captured[s] > base)
                  => (sweeps'[s] >= 1 => captured'[s] > base)
             /\ told[s] = <<>> => told'[s] = <<>>
             /\ told[s] = <<"SINGLE">> => told'[s] \in {<<>>, <<"SINGLE">>}
  <2> USE <1>1, <1>3 DEF TypeOK, Fresh, callerVars
  <2>1. CASE MasterFires
    <3>1. CASE s \in listening
      <4>1. pulse' = pulse + 1 /\ pulse \in Nat /\ base \in 0..pulse
        BY <2>1 DEF MasterFires
      <4>2. captured'[s] = pulse' /\ mode'[s] = "STOP" /\ told' = told /\ base' = base
        BY <2>1, <3>1 DEF MasterFires
      <4>3. pulse + 1 > base
        BY <4>1
      <4>4. captured'[s] > base /\ captured'[s] > base'
        BY <4>1, <4>2, <4>3
      <4> QED BY <4>2, <4>4
    <3>2. CASE s \notin listening
      BY <2>1, <3>2 DEF MasterFires
    <3> QED BY <3>1, <3>2
  <2>2. ASSUME NEW t \in Scopes, ScopeApplies(t) PROVE <1>3!2
    <3>1. Head(<<"SINGLE">>) = "SINGLE" /\ Tail(<<"SINGLE">>) = <<>>
      OBVIOUS
    <3>2. Head(told[t]) \in {"SINGLE", "STOP"}
      BY <2>2, HeadTailProperties DEF ScopeApplies
    <3> QED BY <2>2, <3>1, <3>2 DEF ScopeApplies
  <2>3. ASSUME NEW t \in Scopes, ScopeReady(t) PROVE <1>3!2
    BY <2>3 DEF ScopeReady
  <2>4. ASSUME NEW t \in Scopes, FreeRun(t) PROVE <1>3!2
    BY <2>4 DEF FreeRun
  <2> QED BY <2>1, <2>2, <2>3, <2>4 DEF Hardware
<1>4. OneTold'
  BY <1>1, <1>2, <1>3 DEF OneTold, callerVars, TypeOK
<1>5. WrittenFresh'
  <2>1. \A s \in Written \cap steady : told[s] \in {<<>>, <<"SINGLE">>}
    BY DEF OneTold, Written, Arming, Waiting
  <2> QED BY <1>1, <1>2, <1>3, <2>1 DEF WrittenFresh, callerVars
<1>6. ClearedFresh'
  <2>1. pc = "single" /\ cur \in steady => told[cur] \in {<<>>, <<"SINGLE">>}
    BY DEF OneTold, Arming
  <2> QED BY <1>1, <1>2, <1>3, <2>1 DEF ClearedFresh, Fresh, callerVars
<1>7. CounterFresh'
  BY <1>1, <1>2, <1>3 DEF CounterFresh, callerVars
<1>8. CompleteFresh'
  BY <1>1, <1>2, <1>3 DEF CompleteFresh, callerVars
<1> QED BY <1>4, <1>5, <1>6, <1>7, <1>8

(* Neither does any exchange of the caller's, given the proviso. *)
LEMMA CallerFresh ==
  Proviso /\ TypeOK /\ SlavesFirst /\ FreshInv /\ Caller => FreshInv'
<1> SUFFICES ASSUME Proviso, TypeOK, SlavesFirst, FreshInv, Caller PROVE FreshInv'
  OBVIOUS
<1> USE ScopesAssumption DEF FreshInv, OneTold, WrittenFresh, ClearedFresh, CounterFresh,
        CompleteFresh, Written, Fresh, TypeOK, Scopes, Arming, Waiting
<1>1. CASE StartShot
  BY <1>1 DEF StartShot, scopeVars
<1>2. CASE PickNext
  <2>1. Written' = Written /\ pc = "pick" /\ pc' = "clear"
    BY <1>2 DEF PickNext, Reach, SlavesFirst
  <2>2. UNCHANGED <<mode, told, sweeps, captured, complete, base, steady>>
    BY <1>2 DEF PickNext, Reach, scopeVars
  <2> HIDE DEF Written, TypeOK
  <2> QED BY <2>1, <2>2
<1>3. CASE ClearSweeps
  BY <1>3 DEF ClearSweeps, Goto
<1>4. CASE WriteSingle
  <2> HIDE DEF TypeOK
  <2>1. cur \in steady => told[cur] = <<>>
    BY <1>4 DEF WriteSingle
  <2>2. Append(<<>>, "SINGLE") = <<"SINGLE">>
    OBVIOUS
  <2>3. /\ UNCHANGED <<sweeps, captured, todo, cur, complete, base, steady>>
        /\ pc = "single" /\ pc' = "verify"
    BY <1>4 DEF WriteSingle, Write, Goto
  <2>4. \A s \in Scopes \ {cur} : told'[s] = told[s] /\ mode'[s] = mode[s]
    BY <1>4 DEF WriteSingle, Write, TypeOK
  <2>5. cur \in steady => told'[cur] \in {<<>>, <<"SINGLE">>}
    BY <1>4, <2>1, <2>2 DEF WriteSingle, Write, TypeOK
  <2>6. cur \in steady => Fresh(cur)'
    BY <1>4, <2>3 DEF WriteSingle, Write, TypeOK, Proviso
  <2>7. mode[cur] # "AUTO" => mode'[cur] # "AUTO"
    BY <1>4 DEF WriteSingle, Write, TypeOK
  <2>8. steady \subseteq Scopes /\ cur \in Scopes /\ complete \subseteq Scopes
    BY DEF TypeOK
  <2>9. OneTold'
    BY <2>3, <2>4, <2>5, <2>8
  <2>10. WrittenFresh' /\ ClearedFresh' /\ CounterFresh'
    BY <2>3, <2>4, <2>6, <2>8
  <2>11. CompleteFresh'
    BY <2>3, <2>4, <2>7, <2>8
  <2> QED BY <2>9, <2>10, <2>11
<1>5. CASE VerifyMode \/ VerifyGivesUp
  BY <1>5 DEF VerifyMode, VerifyGivesUp, Armed, Goto, Round, scopeVars, SlavesFirst
<1>6. CASE ReadInr \/ InrDeadline
  <2>1. Written' \subseteq Written
    BY <1>6 DEF ReadInr, InrDeadline, Goto, Round
  <2>2. /\ UNCHANGED <<mode, told, sweeps, captured, complete, base, steady>>
        /\ pc = "inr" /\ pc' \in {"pick", "abandon"}
    BY <1>6 DEF ReadInr, InrDeadline, Goto, Round, scopeVars
  <2>3. pc' = "pick" => Written' = Written
    <3> SUFFICES ASSUME pc' = "pick" PROVE Written' = Written
      OBVIOUS
    <3>1. pc = "inr" /\ cur \in Slaves \ todo /\ UNCHANGED <<cur, todo>>
      BY <1>6 DEF ReadInr, InrDeadline, Goto, Round, SlavesFirst
    <3> QED BY <3>1
  <2> HIDE DEF Written, TypeOK
  <2> QED BY <2>1, <2>2, <2>3
<1>7. CASE PickWait \/ SeesStop \/ WaitDeadline \/ ShotEnds
  BY <1>7 DEF PickWait, SeesStop, WaitDeadline, ShotEnds, Goto, Round, Reach, scopeVars
<1>8. CASE ReadCounter
  BY <1>8 DEF ReadCounter, scopeVars
<1>9. CASE PickStop \/ VerifyStop \/ StopGivesUp \/ AllStopped
  BY <1>9 DEF PickStop, VerifyStop, StopGivesUp, AllStopped, Goto, Reach, scopeVars
<1>10. CASE WriteStop
  BY <1>10 DEF WriteStop, Write, Goto
<1> QED BY <1>1, <1>2, <1>3, <1>4, <1>5, <1>6, <1>7, <1>8, <1>9, <1>10
        DEF Caller, Arm, Wait, Stop

LEMMA StepInductive == Proviso /\ IInv /\ [Next]_vars => IInv'
<1> SUFFICES ASSUME Proviso, IInv, [Next]_vars PROVE IInv'
  OBVIOUS
<1>1. TypeOK' /\ SlavesFirst'
  BY TypeInductive, OrderInductive DEF IInv
<1>2. FreshInv'
  <2>1. CASE UNCHANGED vars
    BY <2>1 DEF IInv, FreshInv, OneTold, WrittenFresh, ClearedFresh, CounterFresh, CompleteFresh,
                Written, Fresh, vars, scopeVars, callerVars
  <2>2. CASE Hardware
    BY <2>2, HardwareFresh DEF IInv, FreshInv
  <2>3. CASE Caller
    BY <2>3, CallerFresh DEF IInv, FreshInv
  <2> QED BY <2>1, <2>2, <2>3 DEF Next
<1> QED BY <1>1, <1>2 DEF IInv, FreshInv

(***************************************************************************)
(* wait_for_stop_then_complete reports complete only scopes that hold an   *)
(* edge of the shot in progress, for scopes that obey CLEAR_SWEEPS in STOP *)
(* or show a written trigger mode at once, and that began the shot unarmed *)
(* with no mode of an earlier shot to take over.                           *)
(***************************************************************************)
THEOREM CompleteScopesAreFresh == Proviso => (Spec => []CompletionFresh)
<1> SUFFICES ASSUME Proviso PROVE Spec => []CompletionFresh
  OBVIOUS
<1>1. Init => IInv
  BY InitInductive
<1>2. IInv /\ [Next]_vars => IInv'
  BY StepInductive
<1>3. IInv => CompletionFresh
  BY DEF IInv, CompleteFresh, CompletionFresh
<1> QED BY <1>1, <1>2, <1>3, PTL DEF Spec
----------------------------------------------------------------------------
(***************************************************************************)
(* One edge per shot, which every slave that began it clean captures until *)
(* it is told to stop.                                                     *)
(*                                                                         *)
(* A master that begins a shot steady is armed only by the SINGLE of this  *)
(* shot, so that it pulses at most once before the next one, the stopping  *)
(* of the scopes included.  When it does, the clean slaves not yet told to *)
(* stop listen: their ready bit can only have come from the arming that    *)
(* wait_for_trigger_ready then confirmed.                                  *)
(***************************************************************************)
Armable == mode[Master] = "SINGLE" \/ (told[Master] # <<>> /\ Head(told[Master]) = "SINGLE")

Incomplete == pc \in Arming \cup Stopping => complete # Scopes

MasterOnce ==
  /\ mode[Master] # "AUTO"
  /\ Master \in steady =>
       /\ told[Master] \in {<<>>, <<"SINGLE">>, <<"STOP">>, <<"SINGLE", "STOP">>}
       /\ mode[Master] = "SINGLE" => told[Master] \in {<<>>, <<"STOP">>}
       /\ Master \notin ToldToStop => told[Master] \in {<<>>, <<"SINGLE">>}
       /\ pulse <= base + 1
       /\ pulse > base => captured[Master] > base
       /\ Armable => pulse = base
       /\ pc \in Arming /\ Master \notin Written => ~Armable /\ pulse = base

(* The slaves the caller has read a ready bit from and not told to stop. *)
Ready == CASE pc = "pick"                                 -> Slaves \ todo
           [] pc \in {"clear", "single", "verify", "inr"} -> (Slaves \ todo) \ {cur}
           [] pc \in Waiting                              -> Slaves
           [] OTHER -> IF Armable THEN Slaves \ ToldToStop ELSE {}

CleanReady == Master \in steady /\ pulse = base => clean \cap Ready \subseteq listening
CleanTold == \A s \in clean \ ToldToStop : \/ told[s] = <<>>
                                           \/ told[s] = <<"SINGLE">> /\ mode[s] = "STOP"
CleanWaits == pc \in Arming => \A s \in clean \ Written :
                mode[s] = "STOP" /\ told[s] = <<>> /\ s \notin inr
CleanArmed == pc \in {"verify", "inr"} /\ cur \in clean /\ pulse = base =>
                mode[cur] # "AUTO" /\ (cur \in inr => cur \in listening)

EdgeInv == /\ Incomplete
           /\ MasterOnce
           /\ CleanReady
           /\ CleanTold
           /\ CleanWaits
           /\ CleanArmed

(* The four lists of modes a steady master can have to take over. *)
LEMMA Heads == /\ Head(<<"SINGLE">>) = "SINGLE" /\ Tail(<<"SINGLE">>) = <<>>
               /\ Head(<<"STOP">>) = "STOP" /\ Tail(<<"STOP">>) = <<>>
               /\ Head(<<"SINGLE", "STOP">>) = "SINGLE"
               /\ Tail(<<"SINGLE", "STOP">>) = <<"STOP">>
               /\ Append(<<>>, "SINGLE") = <<"SINGLE">>
               /\ Append(<<>>, "STOP") = <<"STOP">>
               /\ Append(<<"SINGLE">>, "STOP") = <<"SINGLE", "STOP">>
               /\ <<"SINGLE">> # <<>> /\ <<"STOP">> # <<>> /\ <<"SINGLE", "STOP">> # <<>>
               /\ <<"SINGLE">> # <<"STOP">> /\ <<"SINGLE", "STOP">> # <<"STOP">>
               /\ <<"SINGLE">> # <<"SINGLE", "STOP">>
<1>1. Head(<<"SINGLE">>) = "SINGLE" /\ Head(<<"STOP">>) = "STOP"
  OBVIOUS
<1>2. Tail(<<"SINGLE">>) = <<>> /\ Tail(<<"STOP">>) = <<>>
  OBVIOUS
<1>3. Head(<<"SINGLE", "STOP">>) = "SINGLE"
  OBVIOUS
<1>4. Tail(<<"SINGLE", "STOP">>) = <<"STOP">>
  OBVIOUS
<1>5. Append(<<>>, "SINGLE") = <<"SINGLE">> /\ Append(<<>>, "STOP") = <<"STOP">>
  OBVIOUS
<1>6. Append(<<"SINGLE">>, "STOP") = <<"SINGLE", "STOP">>
  <2> DEFINE M == {"SINGLE", "STOP"}
             a == Append(<<"SINGLE">>, "STOP")
             b == <<"SINGLE", "STOP">>
  <2>1. <<"SINGLE">> \in Seq(M) /\ b \in Seq(M) /\ Len(<<"SINGLE">>) = 1 /\ Len(b) = 2
    OBVIOUS
  <2>2. a \in Seq(M) /\ Len(a) = 2 /\ a[1] = "SINGLE" /\ a[2] = "STOP"
    BY <2>1, AppendProperties
  <2>3. b[1] = "SINGLE" /\ b[2] = "STOP"
    OBVIOUS
  <2>4. \A i \in 1..Len(a) : a[i] = b[i]
    BY <2>2, <2>3
  <2> HIDE DEF a, b, M
  <2>5. a = b
    BY <2>1, <2>2, <2>4, SeqEqual
  <2> QED BY <2>5 DEF a, b
<1>7. /\ <<"SINGLE">> # <<>> /\ <<"STOP">> # <<>> /\ <<"SINGLE", "STOP">> # <<>>
      /\ <<"SINGLE">> # <<"STOP">> /\ <<"SINGLE", "STOP">> # <<"STOP">>
      /\ <<"SINGLE">> # <<"SINGLE", "STOP">>
  OBVIOUS
<1> QED BY <1>1, <1>2, <1>3, <1>4, <1>5, <1>6, <1>7

(* The master fires: once, and not while the caller arms a slave. *)
LEMMA FiresEdge == TypeOK /\ SlavesFirst /\ EdgeInv /\ MasterFires => EdgeInv'
<1> SUFFICES ASSUME TypeOK, SlavesFirst, EdgeInv, MasterFires PROVE EdgeInv'
  OBVIOUS
<1> USE ScopesAssumption
<1>1. /\ UNCHANGED <<pc, cur, todo, complete, shot, base, steady, clean, told, inr>>
      /\ Written' = Written
      /\ ToldToStop' = ToldToStop
  BY DEF MasterFires, callerVars, Written, ToldToStop
<1>2. /\ Master \in Scopes /\ base \in Nat /\ pulse \in Nat /\ base <= pulse
      /\ clean \subseteq Scopes /\ pulse' = pulse + 1
  BY DEF TypeOK, Scopes, MasterFires
<1>3. /\ mode[Master] = "SINGLE" /\ mode'[Master] = "STOP" /\ captured'[Master] = pulse'
      /\ \A s \in Scopes : mode'[s] \in {mode[s], "STOP"}
      /\ \A s \in Scopes : mode[s] = "STOP" => mode'[s] = "STOP"
  BY <1>2 DEF MasterFires, TypeOK
<1>4. pulse' # base'
  BY <1>1, <1>2
<1>5. Incomplete' /\ CleanReady' /\ CleanArmed'
  BY <1>1, <1>4 DEF EdgeInv, Incomplete, CleanReady, CleanArmed
<1>6. CleanTold' /\ CleanWaits'
  BY <1>1, <1>2, <1>3 DEF EdgeInv, CleanTold, CleanWaits
<1>7. MasterOnce'
  <2>1. CASE Master \in steady
    <3>1. pulse = base /\ told[Master] \in {<<>>, <<"STOP">>}
      BY <1>3, <2>1 DEF EdgeInv, MasterOnce, Armable
    <3>2. ~(pc \in Arming /\ Master \notin Written)
      BY <1>3, <2>1 DEF EdgeInv, MasterOnce, Armable
    <3>3. ~Armable'
      BY <1>1, <1>3, <3>1, Heads DEF Armable
    <3>4. pulse' <= base' + 1 /\ captured'[Master] > base'
      BY <1>1, <1>2, <1>3, <3>1
    <3> QED BY <1>1, <1>3, <3>1, <3>2, <3>3, <3>4 DEF EdgeInv, MasterOnce
  <2>2. CASE Master \notin steady
    BY <1>1, <1>3, <2>2 DEF MasterOnce
  <2> QED BY <2>1, <2>2
<1> QED BY <1>5, <1>6, <1>7 DEF EdgeInv

(* A scope takes over a mode: the master's STOP never comes before its SINGLE. *)
LEMMA AppliesEdge ==
  ASSUME TypeOK, SlavesFirst, EdgeInv, NEW t \in Scopes, ScopeApplies(t) PROVE EdgeInv'
<1> USE ScopesAssumption
<1>1. /\ UNCHANGED <<pc, cur, todo, complete, shot, base, steady, clean, inr, pulse, captured>>
      /\ Written' = Written
      /\ ToldToStop' = ToldToStop
  BY DEF ScopeApplies, callerVars, Written, ToldToStop
<1>2. Master \in Scopes /\ clean \subseteq Scopes /\ cur \in Scopes
  BY DEF TypeOK, Scopes
<1>3. /\ mode'[t] \in {"SINGLE", "STOP"}
      /\ \A s \in Scopes \ {t} : mode'[s] = mode[s] /\ told'[s] = told[s]
  BY ModesTaken
<1>4. /\ told[t] # <<>> /\ listening' = listening \ {t}
      /\ mode'[t] = Head(told[t]) /\ told'[t] = Tail(told[t])
  BY DEF ScopeApplies, TypeOK
<1>5. Incomplete' /\ CleanWaits'
  <2>1. ASSUME pc \in Arming, NEW s \in clean \ Written
        PROVE  mode'[s] = "STOP" /\ told'[s] = <<>> /\ s \notin inr'
    <3>1. mode[s] = "STOP" /\ told[s] = <<>> /\ s \notin inr
      BY <2>1 DEF EdgeInv, CleanWaits
    <3> QED BY <1>1, <1>2, <1>3, <1>4, <3>1
  <2> QED BY <1>1, <2>1 DEF EdgeInv, Incomplete, CleanWaits
<1>6. ASSUME t = Master, Master \in steady
      PROVE  /\ Armable' => Armable
             /\ told'[Master] \in {<<>>, <<"STOP">>}
             /\ told[Master] = <<"SINGLE">> => told'[Master] = <<>>
  <2>1. told[Master] \in {<<"SINGLE">>, <<"STOP">>, <<"SINGLE", "STOP">>}
    BY <1>4, <1>6 DEF EdgeInv, MasterOnce
  <2> QED BY <1>4, <1>6, <2>1, Heads DEF Armable
<1>7. Master \in steady => (Armable' => Armable)
  BY <1>2, <1>3, <1>6 DEF Armable
<1>8. MasterOnce'
  <2>1. mode'[Master] # "AUTO"
    BY <1>2, <1>3 DEF EdgeInv, MasterOnce
  <2>2. CASE t = Master /\ Master \in steady
    <3>1. Master \notin ToldToStop' => told'[Master] = <<>>
      BY <1>1, <1>4, <1>6, <2>2 DEF EdgeInv, MasterOnce
    <3> QED BY <1>1, <1>6, <1>7, <2>1, <2>2, <3>1 DEF EdgeInv, MasterOnce
  <2>3. CASE t # Master /\ Master \in steady
    <3>1. mode'[Master] = mode[Master] /\ told'[Master] = told[Master]
      BY <1>2, <1>3, <2>3
    <3> QED BY <1>1, <1>7, <2>1, <3>1 DEF EdgeInv, MasterOnce
  <2>4. CASE Master \notin steady
    BY <1>1, <2>1, <2>4 DEF MasterOnce
  <2> QED BY <2>2, <2>3, <2>4
<1>9. CleanTold'
  <2>1. ASSUME NEW s \in clean \ ToldToStop
        PROVE  \/ told'[s] = <<>>
               \/ told'[s] = <<"SINGLE">> /\ mode'[s] = "STOP"
    BY <1>2, <1>3, <1>4, Heads DEF EdgeInv, CleanTold
  <2> QED BY <1>1, <2>1 DEF CleanTold
<1>10. t \in clean \ ToldToStop => t \notin listening
  BY <1>4 DEF EdgeInv, CleanTold, TypeOK
<1>11. CleanReady'
  <2>1. Master \in steady => Ready' \subseteq Ready /\ (Ready \cap ToldToStop) \subseteq ToldToStop
    BY <1>1, <1>7 DEF Ready
  <2>2. Master \in steady => Ready \cap ToldToStop = {}
    BY DEF Ready, ToldToStop, EdgeInv, Incomplete, Arming, Waiting, Stopping, TypeOK, Steps
  <2> QED BY <1>1, <1>4, <1>10, <2>1, <2>2 DEF EdgeInv, CleanReady
<1>12. CleanArmed'
  <2>1. pc \in {"verify", "inr"} => cur \notin ToldToStop
    BY DEF ToldToStop
  <2> QED BY <1>1, <1>2, <1>3, <1>4, <1>10, <2>1 DEF EdgeInv, CleanArmed
<1> QED BY <1>5, <1>8, <1>9, <1>11, <1>12 DEF EdgeInv

(* The scopes may move at any moment. *)
LEMMA HardwareEdge == TypeOK /\ SlavesFirst /\ EdgeInv /\ Hardware => EdgeInv'
<1> SUFFICES ASSUME TypeOK, SlavesFirst, EdgeInv, Hardware PROVE EdgeInv'
  OBVIOUS
<1>1. ASSUME NEW t \in Scopes, ScopeReady(t) PROVE EdgeInv'
  <2> USE <1>1 DEF ScopeReady, callerVars
  <2>1. Armable' = Armable /\ Written' = Written /\ ToldToStop' = ToldToStop
    BY DEF Armable, Written, ToldToStop
  <2>2. Ready' = Ready
    BY <2>1 DEF Ready
  <2>3. Incomplete' /\ MasterOnce'
    BY <2>1 DEF EdgeInv, Incomplete, MasterOnce
  <2>4. CleanReady' /\ CleanTold' /\ CleanArmed'
    BY <2>1, <2>2 DEF EdgeInv, CleanReady, CleanTold, CleanArmed
  <2>5. CleanWaits'
    BY <2>1 DEF EdgeInv, CleanWaits
  <2> QED BY <2>3, <2>4, <2>5 DEF EdgeInv
<1>2. ASSUME NEW t \in Scopes, FreeRun(t) PROVE EdgeInv'
  <2> USE <1>2 DEF FreeRun, callerVars
  <2>1. Armable' = Armable /\ Written' = Written /\ ToldToStop' = ToldToStop
    BY DEF Armable, Written, ToldToStop
  <2>2. Ready' = Ready
    BY <2>1 DEF Ready
  <2>3. Incomplete' /\ MasterOnce'
    BY <2>1 DEF EdgeInv, Incomplete, MasterOnce, TypeOK
  <2>4. CleanReady' /\ CleanTold' /\ CleanArmed'
    BY <2>1, <2>2 DEF EdgeInv, CleanReady, CleanTold, CleanArmed
  <2>5. CleanWaits'
    BY <2>1 DEF EdgeInv, CleanWaits
  <2> QED BY <2>3, <2>4, <2>5 DEF EdgeInv
<1> QED BY <1>1, <1>2, FiresEdge, AppliesEdge DEF Hardware

(* The caller reads from the scopes, or goes on: no scope moves. *)
LEMMA ReadsEdge ==
  ASSUME TypeOK, SlavesFirst, CompleteFresh, EdgeInv, UNCHANGED scopeVars,
         \/ PickNext \/ VerifyMode \/ VerifyGivesUp \/ InrDeadline \/ PickWait \/ Wait
         \/ ShotEnds \/ PickStop \/ VerifyStop \/ StopGivesUp \/ AllStopped
  PROVE  EdgeInv'
<1> USE ScopesAssumption DEF scopeVars
<1>1. /\ UNCHANGED <<base, steady, clean, shot>>
      /\ Armable' = Armable
  BY DEF PickNext, VerifyMode, VerifyGivesUp, InrDeadline, PickWait, Wait, SeesStop, ReadCounter,
         WaitDeadline, ShotEnds, PickStop, VerifyStop, StopGivesUp, AllStopped, Armed, Goto,
         Round, Reach, Armable
<1>2. Master \in Scopes /\ clean \subseteq Slaves /\ Slaves \subseteq Scopes
  BY DEF TypeOK, Scopes
<1>3. CASE PickNext
  <2>1. /\ Written' = Written /\ Ready' = Ready /\ ToldToStop' = ToldToStop
        /\ pc = "pick" /\ pc' = "clear" /\ complete' = complete
    BY <1>3 DEF PickNext, Reach, SlavesFirst, Written, Ready, ToldToStop, Arming, Waiting
  <2> QED BY <1>1, <2>1 DEF EdgeInv, Incomplete, MasterOnce, CleanReady, CleanTold, CleanWaits,
             CleanArmed, Arming, Stopping
<1>4. CASE VerifyMode \/ VerifyGivesUp
  <2>1. /\ Armed /\ pc = "verify" /\ complete' = complete
        /\ Written' = Written /\ ToldToStop' = ToldToStop
    BY <1>4 DEF VerifyMode, VerifyGivesUp, Armed, Goto, Round, SlavesFirst, Written, ToldToStop,
         Arming, Waiting, Scopes
  <2>2. Ready' = Ready
    BY <2>1 DEF Armed, Goto, Round, SlavesFirst, Ready, Arming, Waiting
  <2>3. (pc' = "inr" /\ cur' = cur) \/ pc' = "await"
    BY <2>1 DEF Armed, Goto, Round
  <2> QED BY <1>1, <2>1, <2>2, <2>3 DEF EdgeInv, Incomplete, MasterOnce, CleanReady, CleanTold,
             CleanWaits, CleanArmed, Arming, Stopping
<1>5. CASE InrDeadline
  <2>1. /\ pc = "inr" /\ pc' = "abandon" /\ todo' = Scopes /\ complete' = complete
        /\ Master \notin Written /\ ToldToStop = {} /\ ToldToStop' = {}
    BY <1>5, <1>2 DEF InrDeadline, Round, SlavesFirst, Written, ToldToStop, Arming,
         Waiting
  <2>2. Master \in steady => Ready' = {}
    BY <1>1, <2>1 DEF EdgeInv, MasterOnce, Ready, Arming, Waiting
  <2> QED BY <1>1, <2>1, <2>2 DEF EdgeInv, Incomplete, MasterOnce, CleanReady, CleanTold,
             CleanWaits, CleanArmed, Arming, Stopping
<1>6. CASE PickWait \/ Wait
  <2>1. /\ pc \in Waiting /\ pc' \in Waiting
        /\ ToldToStop' = ToldToStop /\ Ready' = Ready
    BY <1>6 DEF PickWait, Wait, SeesStop, ReadCounter, WaitDeadline, Goto, Reach, Ready,
         ToldToStop, Waiting
  <2> QED BY <1>1, <2>1 DEF EdgeInv, Incomplete, MasterOnce, CleanReady, CleanTold, CleanWaits,
             CleanArmed, Arming, Stopping, Waiting
<1>7. CASE ShotEnds
  <2>1. /\ pc \in Waiting /\ pc' \in {"idle", "abandon"} /\ complete' = complete
        /\ pc' = "abandon" => complete # Scopes
        /\ ToldToStop = {} /\ ToldToStop' = {} /\ Ready' \subseteq Ready
    BY <1>7, <1>2 DEF ShotEnds, Goto, Round, Ready, ToldToStop, Waiting
  <2> QED BY <1>1, <2>1 DEF EdgeInv, Incomplete, MasterOnce, CleanReady, CleanTold, CleanWaits,
             CleanArmed, Arming, Stopping
<1>8. CASE PickStop \/ VerifyStop \/ StopGivesUp
  <2>1. /\ pc \in Stopping /\ pc' \in Stopping /\ complete' = complete
        /\ ToldToStop' = ToldToStop
    BY <1>8 DEF PickStop, VerifyStop, StopGivesUp, Goto, Reach, ToldToStop, Stopping, TypeOK
  <2>2. Ready' = Ready
    BY <1>1, <2>1 DEF Ready, Stopping, Waiting
  <2> QED BY <1>1, <2>1, <2>2 DEF EdgeInv, Incomplete, MasterOnce, CleanReady, CleanTold,
             CleanWaits, CleanArmed, Arming, Stopping
<1>9. CASE AllStopped
  <2>1. /\ pc = "abandon" /\ pc' = "idle" /\ complete' = complete /\ complete # Scopes
        /\ ToldToStop = Scopes /\ ToldToStop' = Scopes
    BY <1>9 DEF AllStopped, Goto, ToldToStop, EdgeInv, Incomplete, Stopping
  <2>2. Ready' = {}
    BY <1>2, <2>1 DEF Ready, Waiting
  <2> QED BY <1>1, <2>1, <2>2 DEF EdgeInv, Incomplete, MasterOnce, CleanReady, CleanTold,
             CleanWaits, CleanArmed, Arming, Stopping
<1> QED BY <1>3, <1>4, <1>5, <1>6, <1>7, <1>8, <1>9

(* SINGLE is written to a scope that has nothing to take over, if it is steady. *)
LEMMA SingleEdge ==
  ASSUME TypeOK, SlavesFirst, OneTold, EdgeInv, WriteSingle PROVE EdgeInv'
<1> USE ScopesAssumption
<1>1. /\ UNCHANGED <<cur, todo, complete, base, steady, clean, inr, pulse, captured>>
      /\ pc = "single" /\ pc' = "verify" /\ Write("SINGLE")
      /\ ToldToStop = {} /\ ToldToStop' = {}
      /\ Ready' = Ready /\ Written' = Written \cup {cur} /\ cur \notin Written
      /\ cur \in Scopes /\ Master \in Scopes /\ clean \subseteq Slaves \cap steady
      /\ Slaves \subseteq Scopes
  BY DEF WriteSingle, Write, Goto, ToldToStop, Ready, Written, SlavesFirst, Arming,
         Waiting, TypeOK, Scopes
<1>2. \A s \in Scopes \ {cur} : /\ told'[s] = told[s] /\ mode'[s] = mode[s]
                                /\ s \in listening' <=> s \in listening
  BY <1>1 DEF Write, TypeOK
<1>3. cur \in steady => told[cur] = <<>>
  BY <1>1 DEF OneTold, Arming
<1>4. /\ \/ told'[cur] = Append(told[cur], "SINGLE") /\ mode'[cur] = mode[cur]
         \/ told'[cur] = told[cur] /\ mode'[cur] = "SINGLE"
  BY <1>1 DEF Write, TypeOK
<1>5. \/ told'[cur] = Append(told[cur], "SINGLE") /\ listening' = listening
      \/ listening' = listening \ {cur}
  BY <1>1 DEF Write, TypeOK
<1>6. Incomplete'
  BY <1>1 DEF EdgeInv, Incomplete, Arming, Stopping
<1>7. MasterOnce'
  <2>1. CASE cur = Master
    <3>1. Master \in steady => ~Armable /\ pulse = base /\ mode[Master] = "STOP"
      BY <1>1, <2>1 DEF EdgeInv, MasterOnce, Armable, Arming, TypeOK
    <3>2. Master \in steady => \/ told'[Master] = <<"SINGLE">> /\ mode'[Master] = "STOP"
                               \/ told'[Master] = <<>> /\ mode'[Master] = "SINGLE"
      BY <1>3, <1>4, <2>1, <3>1, Heads
    <3>3. mode'[Master] # "AUTO"
      BY <1>4, <2>1 DEF EdgeInv, MasterOnce
    <3>4. base \in Nat /\ pulse \in Nat
      BY DEF TypeOK
    <3> QED BY <1>1, <2>1, <3>1, <3>2, <3>3, <3>4, Heads DEF MasterOnce, Arming
  <2>2. CASE cur # Master
    <3>1. Armable' = Armable /\ told'[Master] = told[Master] /\ mode'[Master] = mode[Master]
      BY <1>1, <1>2, <2>2 DEF Armable
    <3> QED BY <1>1, <2>2, <3>1 DEF EdgeInv, MasterOnce, Arming
  <2> QED BY <2>1, <2>2
<1>8. cur \in clean => mode[cur] = "STOP" /\ cur \notin inr /\ cur \notin listening
  BY <1>1 DEF EdgeInv, CleanWaits, Arming, TypeOK
<1>9. CleanReady'
  <2>1. cur \notin Ready
    BY <1>1 DEF Ready, Waiting
  <2> QED BY <1>1, <1>2, <2>1 DEF EdgeInv, CleanReady
<1>10. CleanTold'
  <2>1. cur \in clean => \/ told'[cur] = <<>>
                         \/ told'[cur] = <<"SINGLE">> /\ mode'[cur] = "STOP"
    BY <1>1, <1>3, <1>4, <1>8, Heads
  <2> QED BY <1>1, <1>2, <2>1 DEF EdgeInv, CleanTold
<1>11. CleanWaits'
  BY <1>1, <1>2 DEF EdgeInv, CleanWaits, Arming
<1>12. CleanArmed'
  BY <1>1, <1>4, <1>8 DEF CleanArmed
<1> QED BY <1>6, <1>7, <1>9, <1>10, <1>11, <1>12 DEF EdgeInv

(* STOP is written to a scope that is exempt from then on. *)
LEMMA StopEdge == ASSUME TypeOK, SlavesFirst, EdgeInv, WriteStop PROVE EdgeInv'
<1> USE ScopesAssumption
<1>1. /\ UNCHANGED <<cur, todo, complete, base, steady, clean, inr, pulse, captured>>
      /\ pc = "halt" /\ pc' = "halted" /\ Write("STOP")
      /\ cur \notin ToldToStop /\ ToldToStop' = ToldToStop \cup {cur}
      /\ cur \in Scopes /\ Master \in Scopes /\ clean \subseteq Slaves /\ Slaves \subseteq Scopes
  <2>1. /\ pc = "halt" /\ pc' = "halted" /\ Write("STOP")
        /\ UNCHANGED <<cur, todo, complete, base, steady, clean, inr, pulse, captured>>
    BY DEF WriteStop, Write, Goto
  <2>2. /\ cur \in Scopes /\ Master \in Scopes /\ clean \subseteq Slaves
        /\ Slaves \subseteq Scopes
    BY DEF TypeOK, Scopes
  <2>3. ToldToStop = (Scopes \ todo) \ {cur} /\ ToldToStop' = Scopes \ todo
    BY <2>1 DEF ToldToStop
  <2>4. cur \notin todo
    BY <2>1 DEF SlavesFirst
  <2> QED BY <2>1, <2>2, <2>3, <2>4
<1>2. \A s \in Scopes \ {cur} : /\ told'[s] = told[s] /\ mode'[s] = mode[s]
                                /\ s \in listening' <=> s \in listening
  BY <1>1 DEF Write, TypeOK
<1>3. \/ told'[cur] = Append(told[cur], "STOP") /\ mode'[cur] = mode[cur]
      \/ told'[cur] = told[cur] /\ mode'[cur] = "STOP"
  BY <1>1 DEF Write, TypeOK
<1>4. Incomplete' /\ CleanWaits' /\ CleanArmed'
  BY <1>1 DEF EdgeInv, Incomplete, CleanWaits, CleanArmed, Arming, Stopping
<1>5. Master \in steady => (Armable' => Armable)
  <2>1. CASE cur = Master
    <3>1. Master \in steady => told[Master] \in {<<>>, <<"SINGLE">>}
      BY <1>1, <2>1 DEF EdgeInv, MasterOnce
    <3> QED BY <1>3, <2>1, <3>1, Heads DEF Armable
  <2>2. CASE cur # Master
    BY <1>1, <1>2, <2>2 DEF Armable
  <2> QED BY <2>1, <2>2
<1>6. MasterOnce'
  <2>1. CASE cur = Master
    <3>1. Master \in steady =>
            /\ told[Master] \in {<<>>, <<"SINGLE">>}
            /\ mode[Master] = "SINGLE" => told[Master] = <<>>
      BY <1>1, <2>1, Heads DEF EdgeInv, MasterOnce
    <3>2. Master \in steady =>
            /\ told'[Master] \in {<<>>, <<"SINGLE">>, <<"STOP">>, <<"SINGLE", "STOP">>}
            /\ mode'[Master] = "SINGLE" => told'[Master] \in {<<>>, <<"STOP">>}
      BY <1>3, <2>1, <3>1, Heads
    <3>3. mode'[Master] # "AUTO"
      BY <1>3, <2>1 DEF EdgeInv, MasterOnce
    <3> QED BY <1>1, <1>5, <2>1, <3>2, <3>3 DEF EdgeInv, MasterOnce, Arming
  <2>2. CASE cur # Master
    <3>1. told'[Master] = told[Master] /\ mode'[Master] = mode[Master]
      BY <1>1, <1>2, <2>2
    <3> QED BY <1>1, <1>5, <2>2, <3>1 DEF EdgeInv, MasterOnce, Arming
  <2> QED BY <2>1, <2>2
<1>7. CleanTold'
  BY <1>1, <1>2 DEF EdgeInv, CleanTold
<1>8. CleanReady'
  <2>1. Master \in steady => Ready' \subseteq Ready \ {cur}
    BY <1>1, <1>5 DEF Ready, Waiting
  <2>2. Ready \subseteq Slaves
    BY DEF Ready
  <2> QED BY <1>1, <1>2, <2>1, <2>2 DEF EdgeInv, CleanReady
<1> QED BY <1>4, <1>6, <1>7, <1>8 DEF EdgeInv

(* A shot begins with a master that is not armed, if it is steady. *)
LEMMA BeginEdge == ASSUME TypeOK, EdgeInv, StartShot PROVE EdgeInv'
<1> USE ScopesAssumption
<1>1. /\ UNCHANGED <<mode, told, listening, inr, pulse, captured>>
      /\ pc' = "pick" /\ todo' = Slaves /\ complete' = {} /\ base' = pulse
      /\ steady' = {s \in Scopes : told[s] = <<>> /\ mode[s] # "SINGLE"}
      /\ clean' = {s \in Slaves \cap steady' : mode[s] = "STOP" /\ s \notin inr}
  BY DEF StartShot, scopeVars
<1>2. Master \in Scopes /\ ToldToStop' = {} /\ Written' = {} /\ Ready' = {} /\ pulse \in Nat
  BY <1>1 DEF Scopes, ToldToStop, Written, Ready, Waiting, TypeOK
<1>3. Incomplete' /\ CleanReady' /\ CleanTold' /\ CleanWaits' /\ CleanArmed'
  BY <1>1, <1>2 DEF Incomplete, CleanReady, CleanTold, CleanWaits, CleanArmed
<1>4. MasterOnce'
  BY <1>1, <1>2 DEF EdgeInv, MasterOnce, Armable
<1> QED BY <1>3, <1>4 DEF EdgeInv

(* clear_sweeps touches no trigger; a ready bit that is read came from this arming. *)
LEMMA ConfirmEdge ==
  ASSUME TypeOK, SlavesFirst, EdgeInv, ClearSweeps \/ ReadInr PROVE EdgeInv'
<1> USE ScopesAssumption
<1>1. /\ UNCHANGED <<cur, todo, complete, base, steady, clean, mode, told, listening, pulse,
                     captured>>
      /\ Armable' = Armable
  BY DEF ClearSweeps, ReadInr, Goto, Armable
<1>2. CASE ClearSweeps
  <2>1. /\ pc = "clear" /\ pc' = "single" /\ inr' = inr
        /\ Written' = Written /\ Ready' = Ready /\ ToldToStop' = ToldToStop
    BY <1>1, <1>2 DEF ClearSweeps, Goto, Written, Ready, ToldToStop, Waiting
  <2> QED BY <1>1, <2>1 DEF EdgeInv, Incomplete, MasterOnce, CleanReady, CleanTold, CleanWaits,
             CleanArmed, Arming, Stopping
<1>3. CASE ReadInr
  <2>1. /\ pc = "inr" /\ pc' = "pick" /\ cur \in inr /\ inr' = inr \ {cur}
        /\ cur \in Slaves \ todo
    BY <1>3 DEF ReadInr, Goto, SlavesFirst, Arming, TypeOK, Scopes
  <2>2. /\ Written' = Written /\ Ready' = Ready \cup {cur}
        /\ ToldToStop = {} /\ ToldToStop' = {}
    BY <1>1, <2>1 DEF Written, Ready, ToldToStop, Waiting
  <2> QED BY <1>1, <2>1, <2>2 DEF EdgeInv, Incomplete, MasterOnce, CleanReady, CleanTold,
             CleanWaits, CleanArmed, Arming, Stopping
<1> QED BY <1>2, <1>3

LEMMA EdgeInductive ==
  /\ Init => EdgeInv
  /\ IInv /\ EdgeInv /\ [Next]_vars => EdgeInv'
<1>1. Init => EdgeInv
  BY ScopesAssumption, HardwareAssumption
  DEF Init, EdgeInv, Incomplete, MasterOnce, CleanReady, CleanTold, CleanWaits, CleanArmed,
      Armable, Arming, Stopping, Scopes
<1>2. ASSUME IInv, EdgeInv, [Next]_vars PROVE EdgeInv'
  <2> USE <1>2 DEF IInv
  <2>1. CASE UNCHANGED vars
    <3>1. /\ Armable' = Armable /\ Written' = Written /\ ToldToStop' = ToldToStop
      BY <2>1 DEF Armable, Written, ToldToStop, vars, scopeVars, callerVars
    <3>2. Ready' = Ready
      BY <2>1, <3>1 DEF Ready, vars, scopeVars, callerVars
    <3> QED BY <2>1, <3>1, <3>2 DEF EdgeInv, Incomplete, MasterOnce, CleanReady, CleanTold,
               CleanWaits, CleanArmed, vars, scopeVars, callerVars
  <2>2. CASE Hardware
    BY <2>2, HardwareEdge
  <2>3. CASE StartShot
    BY <2>3, BeginEdge
  <2>4. CASE WriteSingle
    BY <2>4, SingleEdge
  <2>5. CASE WriteStop
    BY <2>5, StopEdge
  <2>6. CASE ClearSweeps \/ ReadInr
    BY <2>6, ConfirmEdge
  <2>7. CASE \/ PickNext \/ VerifyMode \/ VerifyGivesUp \/ InrDeadline \/ PickWait \/ Wait
             \/ ShotEnds \/ PickStop \/ VerifyStop \/ StopGivesUp \/ AllStopped
    <3>1. UNCHANGED scopeVars
      BY <2>7 DEF PickNext, VerifyMode, VerifyGivesUp, InrDeadline, PickWait, Wait, SeesStop,
         ReadCounter, WaitDeadline, ShotEnds, PickStop, VerifyStop, StopGivesUp, AllStopped, Reach
    <3> QED BY <2>7, <3>1, ReadsEdge
  <2> QED BY <2>1, <2>2, <2>3, <2>4, <2>5, <2>6, <2>7 DEF Next, Caller, Arm, Stop
<1> QED BY <1>1, <1>2

(***************************************************************************)
(* When wait_for_stop_then_complete has reported every scope complete they *)
(* all hold the same edge, the one the master pulsed out in this shot: not *)
(* one of them has been left with an earlier edge, or caught a later one.  *)
(* The shot began with every scope unarmed and the modes of earlier shots  *)
(* taken over.                                                             *)
(***************************************************************************)
THEOREM AllHoldTheSameEdge == Proviso => (Spec => []SameEdge)
<1> SUFFICES ASSUME Proviso PROVE Spec => []SameEdge
  OBVIOUS
<1>1. Init => IInv /\ EdgeInv
  BY InitInductive, EdgeInductive
<1>2. IInv /\ EdgeInv /\ [Next]_vars => (IInv /\ EdgeInv)'
  BY StepInductive, EdgeInductive
<1>3. IInv /\ EdgeInv => SameEdge
  <2> SUFFICES ASSUME TypeOK, CompleteFresh, MasterOnce, complete = Scopes, steady = Scopes
               PROVE  \A s \in Scopes : captured[s] = base + 1
    BY DEF IInv, EdgeInv, SameEdge
  <2>1. Master \in steady
    BY DEF Scopes
  <2> QED BY <2>1 DEF TypeOK, CompleteFresh, MasterOnce
<1> QED BY <1>1, <1>2, <1>3, PTL DEF Spec

(***************************************************************************)
(* No step of the scopes or of the caller makes the master pulse while a   *)
(* slave that began the shot in STOP, its ready bit clear, does not listen *)
(* for the pulse, unless that slave has been told to stop: the handshake   *)
(* of arm_single_and_confirm never lets the master be armed too early for  *)
(* such a slave, and nothing takes the slave off before its own STOP.  The *)
(* master began the shot unarmed.                                          *)
(***************************************************************************)
THEOREM CleanSlavesSeeThePulse == Proviso => (Spec => NoEdgeMissed)
<1> SUFFICES ASSUME Proviso PROVE Spec => NoEdgeMissed
  OBVIOUS
<1> DEFINE Seen == pulse' # pulse /\ Master \in steady =>
                     \A s \in clean \ ToldToStop : captured'[s] = pulse'
<1>1. Init => IInv /\ EdgeInv
  BY InitInductive, EdgeInductive
<1>2. IInv /\ EdgeInv /\ [Next]_vars => (IInv /\ EdgeInv)'
  BY StepInductive, EdgeInductive
<1>3. IInv /\ EdgeInv /\ [Next]_vars => [Seen]_vars
  <2> SUFFICES ASSUME IInv, EdgeInv, Next, pulse' # pulse, Master \in steady
               PROVE  \A s \in clean \ ToldToStop : captured'[s] = pulse'
    OBVIOUS
  <2>1. MasterFires
    BY DEF Next, Caller, Arm, Wait, Stop, Hardware, StartShot, PickNext, ClearSweeps,
           WriteSingle, VerifyMode, VerifyGivesUp, ReadInr, InrDeadline, PickWait, SeesStop,
           ReadCounter, WaitDeadline, ShotEnds, PickStop, WriteStop, VerifyStop, StopGivesUp,
           AllStopped, Write, Reach, ScopeApplies, ScopeReady, FreeRun, scopeVars
  <2>2. TypeOK /\ SlavesFirst /\ MasterOnce /\ CleanReady /\ CompleteFresh
    BY DEF IInv, EdgeInv
  <2>3. /\ mode[Master] = "SINGLE" /\ Armable
        /\ Master \in Scopes /\ clean \subseteq Slaves /\ Slaves \subseteq Scopes
    BY <2>1, <2>2 DEF MasterFires, TypeOK, Armable, Scopes
  <2>4. pulse = base /\ ~(pc \in Arming /\ Master \notin Written)
    BY <2>2, <2>3 DEF MasterOnce
  <2>5. Slaves \ ToldToStop \subseteq Ready
    <3>1. CASE pc \in Arming
      <4>1. pc \in {"verify", "inr"} /\ cur = Master
        BY <2>4, <3>1, ScopesAssumption DEF Arming, Waiting, Written
      <4>2. todo = {}
        BY <2>2, <3>1, <4>1 DEF SlavesFirst
      <4> QED BY <4>1, <4>2, ScopesAssumption DEF Ready
    <3>2. CASE pc \notin Arming
      BY <2>3, <3>2 DEF Ready, Arming
    <3> QED BY <3>1, <3>2
  <2>6. clean \ ToldToStop \subseteq listening
    BY <2>2, <2>3, <2>4, <2>5 DEF CleanReady
  <2>7. \A s \in listening : captured'[s] = pulse'
    BY <2>1, <2>2 DEF MasterFires, TypeOK
  <2> QED BY <2>6, <2>7
<1> QED BY <1>1, <1>2, <1>3, PTL DEF Spec, NoEdgeMissed
=============================================================================
