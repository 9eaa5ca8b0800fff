---------------------------- MODULE LeCroyAverage ----------------------------
(***************************************************************************)
(* Waiting for an averaged trace: wait_for_max_sweeps and wait_for_sweeps  *)
(* (src/lab_scopes/lecroy/scope.py), on a scope that keeps sweeping        *)
(* between any two exchanges and may obey CLEAR_SWEEPS late.               *)
(*                                                                         *)
(* The sweep counter is split into the sweeps from before the call and     *)
(* those since; the driver reads only their sum.  A trigger mode takes     *)
(* hold some time after it is written, which is what the read-back loop of *)
(* set_trigger_mode is for.                                                *)
(***************************************************************************)
EXTENDS Integers

CONSTANTS MaxWanted, \* bound on AverageSweeps
          MaxSweeps, \* bound on the sweep counter, for model checking
          MaxLate,   \* bound on the clears the scope obeys late
          MaxCalls   \* bound on calls of wait_for_max_sweeps

ASSUME BoundAssumption == /\ MaxWanted \in Nat \ {0}
                          /\ MaxSweeps \in Nat \ {0}
                          /\ MaxLate \in Nat
                          /\ MaxCalls \in Nat

VARIABLES mode,     \* the scope's trigger mode, as it answers TRIG_MODE?
          written,  \* the mode the driver has written last
          pending,  \* the scope has not taken it yet
          old, new, \* sweeps in its average from before this call, and since
          clearing, \* a CLEAR_SWEEPS it has not obeyed yet
          late,     \* clears it obeyed late
          pc,       \* where the driver is
          wanted,   \* NSweeps
          initial,  \* initial_sweeps_per_acq
          last,     \* gaaak: the last count the wait read
          timedOut, \* timed_out
          told,     \* what the last call returned: a status and a count
          doubt,    \* this call went on from a mode the scope had not taken
          calls     \* calls begun

modeVars == <<mode, written, pending>>
sweepVars == <<old, new, clearing, late>>
scopeVars == <<modeVars, sweepVars>>
driverVars == <<pc, wanted, initial, last, timedOut, told, doubt, calls>>
vars == <<scopeVars, driverVars>>

Sweeps == 0..MaxSweeps
Modes == {"AUTO", "NORM", "SINGLE", "STOP"}
Steps == {"idle", "clearOne", "single", "verify", "poll", "initial", "auto", "clear",
          "norm", "cleared", "format", "count", "stop", "final"}

TypeOK ==
  /\ mode \in Modes /\ written \in Modes /\ pending \in BOOLEAN
  /\ old \in Sweeps /\ new \in Sweeps /\ old + new \in Sweeps
  /\ clearing \in BOOLEAN
  /\ late \in 0..MaxLate
  /\ pc \in Steps
  /\ wanted \in 1..MaxWanted
  /\ initial \in Sweeps /\ last \in Sweeps
  /\ timedOut \in BOOLEAN
  /\ told \in [status : {"nothing", "complete", "timeout"}, n : Sweeps]
  /\ doubt \in BOOLEAN
  /\ calls \in 0..MaxCalls

Init ==
  /\ mode \in {"AUTO", "NORM", "STOP"} /\ written = mode /\ pending = FALSE
  /\ old \in Sweeps /\ new = 0
  /\ clearing = FALSE /\ late = 0
  /\ pc = "idle" /\ wanted = 1 /\ initial = 0 /\ last = 0 /\ timedOut = FALSE
  /\ told = [status |-> "nothing", n |-> 0]
  /\ doubt = FALSE /\ calls = 0
----------------------------------------------------------------------------
(* The scope. *)

Counter == old + new

Sweep ==
  /\ mode # "STOP" /\ Counter < MaxSweeps
  /\ new' = new + 1
  /\ mode' = IF mode = "SINGLE" THEN "STOP" ELSE mode
  /\ UNCHANGED <<written, pending, old, clearing, late, driverVars>>

ModeShows ==
  /\ pending
  /\ pending' = FALSE /\ mode' = written
  /\ UNCHANGED <<written, sweepVars, driverVars>>

ClearTakes ==
  /\ clearing /\ mode # "STOP"
  /\ clearing' = FALSE /\ old' = 0 /\ new' = 0
  /\ UNCHANGED <<modeVars, late, driverVars>>

(* CLEAR_SWEEPS: ignored in STOP, obeyed at once or late otherwise *)
Clear ==
  /\ IF mode = "STOP" THEN UNCHANGED <<old, new, clearing, late>>
     ELSE \/ old' = 0 /\ new' = 0 /\ clearing' = FALSE /\ UNCHANGED late
          \/ late < MaxLate /\ late' = late + 1 /\ clearing' = TRUE /\ UNCHANGED <<old, new>>
  /\ UNCHANGED modeVars
----------------------------------------------------------------------------
(* The driver. *)

Goto(step) == pc' = step /\ UNCHANGED <<wanted, told, doubt, calls>>
Keep == UNCHANGED <<initial, last, timedOut>>

Return(status, n) ==
  /\ pc' = "idle"
  /\ told' = [status |-> status, n |-> n]
  /\ UNCHANGED <<wanted, doubt, calls>>

(* wait_for_max_sweeps; max_averaging_count has found how many sweeps to wait for *)
StartCall ==
  /\ pc = "idle" /\ calls < MaxCalls
  /\ calls' = calls + 1
  /\ wanted' \in 1..MaxWanted
  /\ pc' = IF wanted' = 1 THEN "clearOne" ELSE "initial"
  /\ old' = Counter /\ new' = 0
  /\ told' = [status |-> "nothing", n |-> 0]
  /\ doubt' = FALSE
  /\ UNCHANGED <<modeVars, clearing, late>> /\ Keep

ClearOne ==
  /\ pc = "clearOne" /\ Clear
  /\ Goto("single") /\ Keep

(* set_trigger_mode: its write *)
WriteMode(step, newMode) ==
  /\ pc = step
  /\ written' = newMode /\ pending' = TRUE
  /\ Goto("verify") /\ Keep
  /\ UNCHANGED <<mode, sweepVars>>

(* What follows the call that wrote the mode. *)
AfterMode == CASE written = "SINGLE" -> "poll"
               [] written = "AUTO"   -> "clear"
               [] written = "NORM"   -> IF initial > 1 THEN "cleared" ELSE "format"
               [] written = "STOP"   -> "final"

(* The loop goes on for STOP after SINGLE: an edge may have come at once. *)
Accepted == mode = written \/ (written = "SINGLE" /\ mode = "STOP")

(* Variant: the mode is not read back. *)
ModeBelieved ==
  /\ pc = "verify"
  /\ Goto(AfterMode) /\ Keep
  /\ UNCHANGED scopeVars

(* set_trigger_mode: its loop *)
VerifyMode ==
  /\ pc = "verify" /\ Accepted
  /\ pc' = AfterMode
  /\ doubt' = (doubt \/ pending)
  /\ Keep /\ UNCHANGED <<scopeVars, wanted, told, calls>>

(* Twenty-five answers were not accepted; it returns all the same. *)
VerifyGivesUp ==
  /\ pc = "verify" /\ ~Accepted
  /\ pc' = AfterMode
  /\ doubt' = TRUE
  /\ Keep /\ UNCHANGED <<scopeVars, wanted, told, calls>>

ArmOne == WriteMode("single", "SINGLE")

PollStop ==
  /\ pc = "poll" /\ mode = "STOP"
  /\ Return("complete", 1) /\ Keep
  /\ UNCHANGED scopeVars

PollDeadline ==
  /\ pc = "poll"
  /\ Return("timeout", 0) /\ Keep
  /\ UNCHANGED scopeVars

(* Variant: sweeps are counted from the first, not from none. *)
ReadInitialFromFirst ==
  /\ pc = "initial"
  /\ initial' = Counter - 1
  /\ Goto("auto")
  /\ UNCHANGED <<scopeVars, last, timedOut>>

(* wait_for_sweeps *)
ReadInitial ==
  /\ pc = "initial"
  /\ initial' = Counter
  /\ Goto("auto")
  /\ UNCHANGED <<scopeVars, last, timedOut>>

Unfreeze == WriteMode("auto", "AUTO")

ClearAll ==
  /\ pc = "clear" /\ Clear
  /\ Goto("norm") /\ Keep

TriggerNormally == WriteMode("norm", "NORM")

(* The wait, up to ten seconds, for the counter to show the clear. *)
SeesCleared ==
  /\ pc = "cleared"
  /\ Counter < initial \/ Counter <= 1
  /\ Goto("format") /\ Keep
  /\ UNCHANGED scopeVars

ClearDeadline ==
  /\ pc = "cleared"
  /\ Goto("format") /\ Keep
  /\ UNCHANGED scopeVars

(* COMM_FORMAT, and the locals of the loop that counts *)
SetFormat ==
  /\ pc = "format"
  /\ last' = 0 /\ timedOut' = TRUE
  /\ Goto("count")
  /\ UNCHANGED <<scopeVars, initial>>

ReadCount ==
  /\ pc = "count"
  /\ last' = Counter
  /\ timedOut' = (Counter < wanted)
  /\ Goto(IF Counter >= wanted THEN "stop" ELSE "count")
  /\ UNCHANGED <<scopeVars, initial>>

(* Variant: the deadline is looked at only while no sweep has come. *)
DeadlineBeforeFirst ==
  /\ pc = "count" /\ last = 0
  /\ Goto("stop") /\ Keep
  /\ UNCHANGED scopeVars

CountDeadline ==
  /\ pc = "count"
  /\ Goto("stop") /\ Keep
  /\ UNCHANGED scopeVars

(* Variant: the scope is left running. *)
StopSkipped ==
  /\ pc = "stop"
  /\ Goto("final") /\ Keep
  /\ UNCHANGED scopeVars

Freeze == WriteMode("stop", "STOP")

(* Variant: a counter that went back is not noticed. *)
ReturnAtOnce ==
  /\ pc = "final"
  /\ Return(IF timedOut THEN "timeout" ELSE "complete", Counter)
  /\ Keep
  /\ UNCHANGED scopeVars

(* The final count; when the counter has gone back the call starts again. *)
ReadFinal ==
  /\ pc = "final"
  /\ IF last > Counter THEN Goto("initial")
     ELSE Return(IF timedOut THEN "timeout" ELSE "complete", Counter)
  /\ Keep
  /\ UNCHANGED scopeVars

Verify == VerifyMode \/ VerifyGivesUp
One == ClearOne \/ ArmOne \/ PollStop \/ PollDeadline
Prepare == ReadInitial \/ Unfreeze \/ ClearAll \/ TriggerNormally \/ SeesCleared
             \/ ClearDeadline \/ SetFormat
Count == ReadCount \/ CountDeadline \/ Freeze \/ ReadFinal

Call == Verify \/ One \/ Prepare \/ Count
Next == StartCall \/ Call \/ Sweep \/ ModeShows \/ ClearTakes

(* Exchanges return, and time passes in the loop that counts. *)
Spec == Init /\ [][Next]_vars /\ WF_vars(Call) /\ WF_vars(CountDeadline)
----------------------------------------------------------------------------
(***************************************************************************)
(* A call that reports completion has at least the sweeps it was asked for *)
(* since it began, and when it averages none from before, provided its     *)
(* last clear has been obeyed: the read-back of AUTO keeps CLEAR_SWEEPS    *)
(* from meeting a scope in STOP, and a clear that took hold in the middle  *)
(* of the count is noticed and the count begun again.  Nothing is claimed  *)
(* of a call that went on from a mode not taken, as it does after SINGLE   *)
(* on a scope still in STOP: that STOP is then taken for the sweep.        *)
(***************************************************************************)
AverageFresh ==
  told.status = "complete" /\ ~clearing /\ ~doubt =>
    /\ new >= wanted
    /\ wanted > 1 => old = 0

(***************************************************************************)
(* The averaged trace is frozen for transfer: it has the number of sweeps  *)
(* the call returned, for as long as the caller makes no other call.       *)
(***************************************************************************)
AverageFrozen == told.status # "nothing" /\ wanted > 1 /\ ~doubt => told.n = Counter

(***************************************************************************)
(* Every call returns, also when late clears make it start again.          *)
(***************************************************************************)
CallReturns == pc # "idle" ~> pc = "idle"
=============================================================================
