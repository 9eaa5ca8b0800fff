-------------------------- MODULE LeCroyAverageProof --------------------------
(***************************************************************************)
(* For any number of sweeps, late clears and calls, an averaged or single  *)
(* trace wait_for_max_sweeps reports complete is made of the sweeps asked  *)
(* for, and stays as it is: unless the call went on from a trigger mode    *)
(* the scope had not taken, which doubt records.                           *)
(***************************************************************************)
EXTENDS LeCroyAverage, TLAPS

(* Which way the call goes, by the number of sweeps it waits for. *)
Single == {"clearOne", "single", "poll"}
Route ==
  /\ pc # "idle" => told.status = "nothing"
  /\ pc \in Single => wanted = 1
  /\ pc \notin Single \cup {"idle", "verify"} => wanted > 1
  /\ pc = "verify" => (wanted = 1 <=> written = "SINGLE")
  /\ pc = "poll" => written = "SINGLE"

(* The call has returned a trace, and the caller has made no other. *)
Returned == pc = "idle" /\ told.status # "nothing"

(* STOP after SINGLE, once the scope has taken SINGLE, means a sweep. *)
OneSweep ==
  /\ pc \in {"verify", "poll"} /\ wanted = 1 /\ ~pending =>
       mode = "SINGLE" \/ (mode = "STOP" /\ new >= 1)
  /\ pc = "poll" /\ ~doubt => ~pending
  /\ Returned /\ wanted = 1 /\ told.status = "complete" /\ ~doubt => new >= 1

(* CLEAR_SWEEPS meets a scope that runs, and so counts only what follows it. *)
Runs == pc = "clear" /\ ~doubt => mode = "AUTO" /\ ~pending
Cleared ==
  \/ pc \in {"norm", "cleared", "format", "count", "stop", "final"}
  \/ pc = "verify" /\ written \in {"NORM", "STOP"}
  \/ Returned /\ wanted > 1
OnlyNew == Cleared /\ ~doubt /\ ~clearing => old = 0

(* What the loop that counts leaves behind when it has not timed out. *)
Reached ==
  /\ pc = "count" => timedOut
  /\ \/ pc \in {"stop", "final"}
     \/ pc = "verify" /\ written = "STOP"
     => (timedOut \/ last >= wanted)

(* The scope has taken STOP: neither a sweep nor a late clear can come. *)
Stopped ==
  /\ pc = "final" /\ ~doubt => mode = "STOP" /\ ~pending
  /\ Returned /\ ~doubt /\ (wanted > 1 \/ told.status = "complete") =>
       mode = "STOP" /\ ~pending

AverageInv == Route /\ OneSweep /\ Runs /\ OnlyNew /\ Reached /\ Stopped
IInv == TypeOK /\ AverageInv /\ AverageFresh /\ AverageFrozen
----------------------------------------------------------------------------
LEMMA TypeInductive == TypeOK /\ [Next]_vars => TypeOK'
<1> SUFFICES ASSUME TypeOK, [Next]_vars PROVE TypeOK'
  OBVIOUS
<1> DEFINE Results == [status : {"nothing", "complete", "timeout"}, n : Sweeps]
<1> USE BoundAssumption DEF Sweeps, Counter
<1>1. told' \in Results
  <2>1. told \in Results /\ old + new \in Sweeps
    BY DEF TypeOK
  <2>2. CASE UNCHANGED told
    BY <2>1, <2>2
  <2>3. ASSUME NEW status \in {"complete", "timeout"}, NEW n \in Sweeps, Return(status, n)
        PROVE  told' \in Results
    BY <2>3 DEF Return
  <2>4. CASE StartCall
    BY <2>4 DEF StartCall
  <2>5. CASE PollStop \/ PollDeadline \/ ReadFinal
    BY <2>1, <2>2, <2>3, <2>5 DEF PollStop, PollDeadline, ReadFinal, Goto
  <2>6. CASE Next /\ ~StartCall /\ ~PollStop /\ ~PollDeadline /\ ~ReadFinal
    BY <2>2, <2>6 DEF Next, Call, Verify, One, Prepare, Count, VerifyMode, VerifyGivesUp, ClearOne,
      ClearAll, ArmOne, Unfreeze, TriggerNormally, Freeze, WriteMode, ReadInitial, SetFormat,
      ReadCount, SeesCleared, ClearDeadline, CountDeadline, Goto, Sweep, ModeShows, ClearTakes,
      driverVars
  <2> QED BY <2>2, <2>4, <2>5, <2>6 DEF vars, driverVars
<1> HIDE DEF Results
<1>2. old' \in Sweeps /\ new' \in Sweeps /\ (old + new)' \in Sweeps
  <2>0. old \in Sweeps /\ new \in Sweeps /\ old + new \in Sweeps
    BY DEF TypeOK
  <2>1. CASE UNCHANGED <<old, new>>
    BY <2>0, <2>1
  <2>2. CASE StartCall
    <3>1. old' = old + new /\ new' = 0 /\ old' + new' = old + new
      BY <2>0, <2>2 DEF StartCall
    <3> QED BY <2>0, <3>1
  <2>3. CASE old' = 0 /\ new' = 0
    BY <2>3
  <2>4. CASE Sweep
    <3>1. old' = old /\ new' = new + 1 /\ old + new < MaxSweeps
      BY <2>4 DEF Sweep
    <3> QED BY <2>0, <3>1
  <2>5. Call \/ ModeShows \/ ClearTakes => UNCHANGED <<old, new>> \/ (old' = 0 /\ new' = 0)
    BY DEF Call, Verify, One, Prepare, Count, VerifyMode, VerifyGivesUp, ClearOne, ClearAll, Clear,
      ArmOne, Unfreeze, TriggerNormally, Freeze, WriteMode, ReadInitial, SetFormat, ReadCount,
      SeesCleared, ClearDeadline, CountDeadline, PollStop, PollDeadline, ReadFinal, ModeShows,
      ClearTakes, scopeVars, sweepVars
  <2> QED BY <2>1, <2>2, <2>3, <2>4, <2>5 DEF Next, vars, scopeVars, sweepVars
<1> HIDE DEF Sweeps, Counter
<1> DEFINE Others == /\ mode \in Modes /\ written \in Modes /\ pending \in BOOLEAN
                     /\ clearing \in BOOLEAN /\ late \in 0..MaxLate
                     /\ pc \in Steps /\ wanted \in 1..MaxWanted
                     /\ initial \in Sweeps /\ last \in Sweeps
                     /\ timedOut \in BOOLEAN /\ doubt \in BOOLEAN
                     /\ calls \in 0..MaxCalls
<1>3. Others'
  <2>0. Others /\ Counter \in Sweeps /\ 0 \in Sweeps
    BY DEF TypeOK, Counter, Sweeps
  <2> USE <2>0 DEF Modes, Steps
  <2>1. CASE UNCHANGED vars
    BY <2>1 DEF vars, scopeVars, modeVars, sweepVars, driverVars
  <2>2. CASE StartCall
    <3>1. calls' \in 0..MaxCalls
      BY <2>2 DEF StartCall
    <3>2. wanted' \in 1..MaxWanted /\ pc' \in Steps
      BY <2>2 DEF StartCall
    <3> QED BY <2>2, <3>1, <3>2 DEF StartCall, modeVars, Keep
  <2>3. CASE Verify
    BY <2>3 DEF Verify, VerifyMode, VerifyGivesUp, AfterMode, Keep, scopeVars, modeVars, sweepVars
  <2>4. CASE ClearOne \/ ClearAll
    <3>1. clearing' \in BOOLEAN
      BY <2>4, Zenon DEF ClearOne, ClearAll, Clear
    <3>2. late' \in 0..MaxLate
      BY <2>4, SMT DEF ClearOne, ClearAll, Clear
    <3> QED BY <2>4, <3>1, <3>2, Zenon DEF ClearOne, ClearAll, Clear, Goto, Keep, modeVars
  <2>5. CASE ArmOne \/ Unfreeze \/ TriggerNormally \/ Freeze
    BY <2>5 DEF ArmOne, Unfreeze, TriggerNormally, Freeze, WriteMode, Goto, Keep, sweepVars
  <2>6. CASE PollStop \/ PollDeadline \/ ReadFinal
    BY <2>6 DEF PollStop, PollDeadline, ReadFinal, Return, Goto, Keep, scopeVars, modeVars,
                sweepVars
  <2>7. CASE ReadInitial \/ ReadCount \/ SetFormat
    <3>1. timedOut' \in BOOLEAN
      <4>1. (Counter < wanted) \in BOOLEAN
        OBVIOUS
      <4> QED BY <2>7, <4>1, Zenon DEF ReadInitial, ReadCount, SetFormat
    <3>2. initial' \in Sweeps /\ last' \in Sweeps /\ pc' \in Steps
      BY <2>7 DEF ReadInitial, ReadCount, SetFormat, Goto
    <3> QED BY <2>7, <3>1, <3>2
            DEF ReadInitial, ReadCount, SetFormat, Goto, scopeVars, modeVars, sweepVars
  <2>8. CASE SeesCleared \/ ClearDeadline \/ CountDeadline
    BY <2>8 DEF SeesCleared, ClearDeadline, CountDeadline, Goto, Keep, scopeVars, modeVars,
                sweepVars
  <2>9. CASE Sweep \/ ModeShows \/ ClearTakes
    <3>1. mode' \in Modes /\ pending' \in BOOLEAN /\ clearing' \in BOOLEAN
      <4>1. CASE Sweep
        BY <4>1, Zenon DEF Sweep
      <4>2. CASE ModeShows
        BY <4>2, Zenon DEF ModeShows, sweepVars
      <4>3. CASE ClearTakes
        BY <4>3, Zenon DEF ClearTakes, modeVars
      <4> QED BY <2>9, <4>1, <4>2, <4>3
    <3> QED BY <2>9, <3>1, Zenon
        DEF Sweep, ModeShows, ClearTakes, modeVars, sweepVars, driverVars
  <2> QED BY <2>1, <2>2, <2>3, <2>4, <2>5, <2>6, <2>7, <2>8, <2>9
          DEF Next, Call, One, Prepare, Count
<1> QED BY <1>1, <1>2, <1>3 DEF TypeOK, Results

LEMMA InitInductive == Init => IInv
<1> SUFFICES ASSUME Init PROVE IInv
  OBVIOUS
<1>1. TypeOK
  <2>1. told \in [status : {"nothing", "complete", "timeout"}, n : Sweeps]
    BY BoundAssumption DEF Init, Sweeps
  <2>2. old + new \in Sweeps
    BY BoundAssumption DEF Init, Sweeps
  <2>3. mode \in Modes /\ pc \in Steps /\ wanted \in 1..MaxWanted
    BY BoundAssumption DEF Init, Modes, Steps
  <2>4. calls \in 0..MaxCalls /\ late \in 0..MaxLate /\ 0 \in Sweeps
    BY BoundAssumption DEF Init, Sweeps
  <2> QED BY <2>1, <2>2, <2>3, <2>4 DEF Init, TypeOK
<1>2. AverageInv /\ AverageFresh /\ AverageFrozen
  BY DEF Init, AverageInv, Route, Single, Returned, OneSweep, Runs, Cleared, OnlyNew, Reached,
         Stopped, AverageFresh, AverageFrozen
<1> QED BY <1>1, <1>2 DEF IInv

(***************************************************************************)
(* The trigger modes, sweep counts and results LeCroyAverage keeps have    *)
(* their types in every reachable state.                                   *)
(***************************************************************************)
THEOREM TypeCorrect == Spec => []TypeOK
<1>1. Init => TypeOK
  BY InitInductive DEF IInv
<1> QED BY <1>1, TypeInductive, PTL DEF Spec

(* The scope sweeps, and takes modes and clears, at any moment. *)
LEMMA ScopeKeeps ==
  TypeOK /\ AverageInv /\ (Sweep \/ ModeShows \/ ClearTakes) => AverageInv'
<1> SUFFICES ASSUME TypeOK, AverageInv, Sweep \/ ModeShows \/ ClearTakes PROVE AverageInv'
  OBVIOUS
<1> USE DEF TypeOK, Modes, Sweeps, AverageInv
<1>1. UNCHANGED <<driverVars, written>>
  BY DEF Sweep, ModeShows, ClearTakes, modeVars, sweepVars
<1>2. Route' /\ Reached'
  BY <1>1 DEF Route, Reached, driverVars
<1>3. OneSweep'
  BY <1>1 DEF OneSweep, Stopped, Returned, Route, Sweep, ModeShows, ClearTakes, driverVars, modeVars,
              sweepVars
<1>4. Runs'
  BY <1>1 DEF Runs, Sweep, ModeShows, ClearTakes, driverVars, modeVars, sweepVars
<1>5. OnlyNew'
  BY <1>1 DEF OnlyNew, Cleared, Returned, Sweep, ModeShows, ClearTakes, driverVars, modeVars,
              sweepVars
<1>6. Stopped'
  BY <1>1 DEF Stopped, Returned, Sweep, ModeShows, ClearTakes, driverVars, modeVars, sweepVars
<1> QED BY <1>2, <1>3, <1>4, <1>5, <1>6

LEMMA DriverKeeps == TypeOK /\ AverageInv /\ (StartCall \/ Call) => AverageInv'
<1> SUFFICES ASSUME TypeOK, AverageInv, StartCall \/ Call PROVE AverageInv'
  OBVIOUS
<1> USE DEF TypeOK, Modes, Sweeps, Steps, AverageInv, Route, Single, Returned, OneSweep, Runs,
            Cleared, OnlyNew, Reached, Stopped
<1>1. CASE StartCall
  BY <1>1 DEF StartCall, modeVars, Keep
<1>2. CASE Verify
  <2> USE DEF Keep, scopeVars, modeVars, sweepVars, AfterMode
  <2>1. CASE VerifyMode
    BY <2>1 DEF VerifyMode, Accepted
  <2>2. CASE VerifyGivesUp
    BY <2>2 DEF VerifyGivesUp
  <2> QED BY <1>2, <2>1, <2>2 DEF Verify
<1>3. CASE ClearOne \/ ClearAll
  BY <1>3 DEF ClearOne, ClearAll, Clear, Goto, Keep, modeVars
<1>4. CASE ArmOne \/ Unfreeze \/ TriggerNormally \/ Freeze
  BY <1>4 DEF ArmOne, Unfreeze, TriggerNormally, Freeze, WriteMode, Goto, Keep, sweepVars
<1>5. CASE PollStop \/ PollDeadline
  BY <1>5 DEF PollStop, PollDeadline, Return, Keep, scopeVars, modeVars, sweepVars
<1>6. CASE ReadInitial \/ SetFormat \/ ReadCount
  BY <1>6 DEF ReadInitial, SetFormat, ReadCount, Counter, Goto, scopeVars, modeVars, sweepVars
<1>7. CASE SeesCleared \/ ClearDeadline \/ CountDeadline
  BY <1>7 DEF SeesCleared, ClearDeadline, CountDeadline, Goto, Keep, scopeVars, modeVars, sweepVars
<1>8. CASE ReadFinal
  BY <1>8 DEF ReadFinal, Return, Goto, Keep, scopeVars, modeVars, sweepVars
<1> QED BY <1>1, <1>2, <1>3, <1>4, <1>5, <1>6, <1>7, <1>8 DEF Call, One, Prepare, Count

(* A call returns what the scope then shows, and the scope has been stopped. *)
LEMMA ResultKeeps ==
  TypeOK /\ AverageInv /\ AverageFresh /\ AverageFrozen /\ [Next]_vars =>
    AverageFresh' /\ AverageFrozen'
<1> SUFFICES ASSUME TypeOK, AverageInv, AverageFresh, AverageFrozen, [Next]_vars
             PROVE  AverageFresh' /\ AverageFrozen'
  OBVIOUS
<1> USE DEF TypeOK, Sweeps, AverageInv, AverageFresh, AverageFrozen, Counter
<1>1. CASE UNCHANGED vars
  BY <1>1 DEF vars, scopeVars, modeVars, sweepVars, driverVars
<1>2. CASE Sweep \/ ModeShows \/ ClearTakes
  <2>1. CASE pc # "idle"
    BY <1>2, <2>1 DEF Route, Sweep, ModeShows, ClearTakes, driverVars
  <2>2. CASE pc = "idle"
    BY <1>2, <2>2 DEF Stopped, Returned, OneSweep, Sweep, ModeShows, ClearTakes, modeVars, sweepVars,
                      driverVars
  <2> QED BY <2>1, <2>2
<1>3. CASE StartCall
  BY <1>3 DEF StartCall
<1>4. CASE PollStop \/ PollDeadline
  BY <1>4 DEF PollStop, PollDeadline, Return, Route, Single, OneSweep, scopeVars, sweepVars,
              modeVars
<1>5. CASE ReadFinal
  BY <1>5 DEF ReadFinal, Return, Goto, Route, Single, OnlyNew, Cleared, Reached, scopeVars, modeVars,
              sweepVars
<1>6. CASE Call /\ ~PollStop /\ ~PollDeadline /\ ~ReadFinal
  <2>1. pc # "idle" /\ told' = told
    BY <1>6 DEF Call, Verify, One, Prepare, Count, VerifyMode, VerifyGivesUp, ClearOne, ClearAll,
      ArmOne, Unfreeze, TriggerNormally, Freeze, WriteMode, ReadInitial, SetFormat, ReadCount,
      SeesCleared, ClearDeadline, CountDeadline, Goto
  <2> QED BY <2>1 DEF Route
<1> QED BY <1>1, <1>2, <1>3, <1>4, <1>5, <1>6 DEF Next

LEMMA StepInductive == IInv /\ [Next]_vars => IInv'
<1> SUFFICES ASSUME IInv, [Next]_vars PROVE IInv'
  OBVIOUS
<1>1. TypeOK'
  BY TypeInductive DEF IInv
<1>2. AverageInv'
  <2>1. CASE UNCHANGED vars
    BY <2>1 DEF IInv, AverageInv, Route, Returned, OneSweep, Runs, Cleared, OnlyNew, Reached, Stopped,
                vars, scopeVars, modeVars, sweepVars, driverVars
  <2> QED BY <2>1, ScopeKeeps, DriverKeeps DEF IInv, Next
<1>3. AverageFresh' /\ AverageFrozen'
  BY ResultKeeps DEF IInv
<1> QED BY <1>1, <1>2, <1>3 DEF IInv

(***************************************************************************)
(* wait_for_max_sweeps never reports complete an average with fewer sweeps *)
(* than asked for or with sweeps from before the call, nor a single sweep  *)
(* that is not of this call, once the scope has obeyed its last clear and  *)
(* had taken every mode it was told.                                       *)
(***************************************************************************)
THEOREM CompleteAveragesAreFresh == Spec => []AverageFresh
<1>1. IInv => AverageFresh
  BY DEF IInv
<1> QED BY <1>1, InitInductive, StepInductive, PTL DEF Spec

(***************************************************************************)
(* The average a call has returned holds as many sweeps as it said, until  *)
(* the next call: the scope is stopped for the transfer that follows.      *)
(***************************************************************************)
THEOREM ReturnedAveragesAreFrozen == Spec => []AverageFrozen
<1>1. IInv => AverageFrozen
  BY DEF IInv
<1> QED BY <1>1, InitInductive, StepInductive, PTL DEF Spec
=============================================================================
