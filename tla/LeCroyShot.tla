----------------------------- MODULE LeCroyShot -----------------------------
(***************************************************************************)
(* One shot taken on several LeCroy scopes at once: every slave is armed   *)
(* and confirmed (arm_single_and_confirm), then the master is armed once   *)
(* (arm_master_single), then each scope is waited for                      *)
(* (wait_for_stop_then_complete); src/lab_scopes/lecroy/scope.py.          *)
(*                                                                         *)
(* The master's trigger output drives the slaves' external input.  An      *)
(* action is one exchange with one scope; the scopes trigger, re-arm and   *)
(* raise register bits between any two of them.  The program that calls    *)
(* these methods (external) arms the slaves one after the other, withholds *)
(* the master when one is not confirmed, stops the scopes one by one, in   *)
(* any order, after a shot that is not complete, and goes on to the next   *)
(* shot, be all of them stopped by then or not.                            *)
(***************************************************************************)
EXTENDS Integers, Sequences

CONSTANTS Master, Slaves,
          Lagging,      \* scopes that take a trigger mode over some time after the write
          ClearsInStop, \* CLEAR_SWEEPS is obeyed by a scope in STOP
          StartModes,   \* trigger modes the slaves may start in
          MaxShot,      \* bound on shots, for model checking
          MaxSweeps     \* bound on the sweep counter, for model checking

Scopes == Slaves \cup {Master}

ASSUME ScopesAssumption == Master \notin Slaves
ASSUME HardwareAssumption == /\ Lagging \subseteq Scopes
                             /\ ClearsInStop \in BOOLEAN
                             /\ StartModes \subseteq {"AUTO", "STOP"}
ASSUME BoundAssumption == MaxShot \in Nat /\ MaxSweeps \in Nat \ {0}

VARIABLES mode,      \* each scope's trigger mode
          told,      \* trigger modes written to each scope, not taken over yet
          listening, \* scopes whose trigger engine waits for an edge
          inr,       \* scopes whose INR register holds the trigger-ready bit
          sweeps,    \* each scope's sweep counter
          captured,  \* the pulse each scope's memory comes from; 0 for none of ours
          pulse,     \* trigger pulses the master has put out
          pc, cur,   \* where the caller is, and the scope it talks to
          todo,      \* scopes this phase has still to reach
          complete,  \* scopes wait_for_stop_then_complete returned True for
          shot,      \* shots begun
          base,      \* value of pulse when this shot began
          steady,    \* scopes that began this shot unarmed, no mode to take over
          clean      \* steady slaves that began it in STOP and with INR clear

scopeVars == <<mode, told, listening, inr, sweeps, captured, pulse>>
callerVars == <<pc, cur, todo, complete, shot, base, steady, clean>>
vars == <<scopeVars, callerVars>>

Steps == {"pick", "clear", "single", "verify", "inr", "await", "stop", "counter",
          "abandon", "halt", "halted", "idle"}

TypeOK ==
  /\ mode \in [Scopes -> {"AUTO", "SINGLE", "STOP"}]
  /\ told \in [Scopes -> Seq({"SINGLE", "STOP"})]
  /\ listening \subseteq {s \in Scopes : mode[s] = "SINGLE"}
  /\ inr \subseteq Scopes
  /\ sweeps \in [Scopes -> 0..MaxSweeps]
  /\ pulse \in Nat
  /\ captured \in [Scopes -> 0..pulse]
  /\ pc \in Steps
  /\ cur \in Scopes
  /\ todo \subseteq Scopes
  /\ complete \subseteq Scopes
  /\ shot \in 0..MaxShot
  /\ base \in 0..pulse
  /\ steady \subseteq Scopes
  /\ clean \subseteq Slaves \cap steady

(* A scope in STOP may hold the sweep of an earlier session. *)
Init ==
  /\ mode \in [Scopes -> StartModes \cup {"STOP"}]
  /\ mode[Master] = "STOP"
  /\ told = [s \in Scopes |-> <<>>]
  /\ listening = {} /\ inr = {}
  /\ sweeps \in [Scopes -> 0..1]
  /\ captured = [s \in Scopes |-> 0]
  /\ pulse = 0
  /\ pc = "idle" /\ cur = Master /\ todo = {} /\ complete = {}
  /\ shot = 0 /\ base = 0 /\ steady = {} /\ clean = {}
----------------------------------------------------------------------------
(* The scopes. *)

Counted(s) == IF sweeps[s] < MaxSweeps THEN sweeps[s] + 1 ELSE MaxSweeps

(* The mode written a while ago shows; for SINGLE the trigger engine re-arms. *)
ScopeApplies(s) ==
  /\ told[s] # <<>>
  /\ mode' = [mode EXCEPT ![s] = Head(told[s])]
  /\ told' = [told EXCEPT ![s] = Tail(@)]
  /\ listening' = listening \ {s}
  /\ UNCHANGED <<inr, sweeps, captured, pulse, callerVars>>

(* The trigger engine has re-armed: it listens and latches the ready bit. *)
ScopeReady(s) ==
  /\ mode[s] = "SINGLE" /\ s \notin listening
  /\ listening' = listening \cup {s}
  /\ inr' = inr \cup {s}
  /\ UNCHANGED <<mode, told, sweeps, captured, pulse, callerVars>>

(* The master's edge comes: it captures, stops and pulses; so do those that listen. *)
MasterFires ==
  /\ Master \in listening
  /\ pulse' = pulse + 1
  /\ captured' = [s \in Scopes |-> IF s \in listening THEN pulse' ELSE captured[s]]
  /\ sweeps' = [s \in Scopes |-> IF s \in listening THEN Counted(s) ELSE sweeps[s]]
  /\ mode' = [s \in Scopes |-> IF s \in listening THEN "STOP" ELSE mode[s]]
  /\ listening' = {}
  /\ UNCHANGED <<told, inr, callerVars>>

(* A scope in AUTO sweeps by itself, and latches the ready bit each time. *)
FreeRun(s) ==
  /\ mode[s] = "AUTO"
  /\ sweeps' = [sweeps EXCEPT ![s] = Counted(s)]
  /\ captured' = [captured EXCEPT ![s] = 0]
  /\ inr' = inr \cup {s}
  /\ UNCHANGED <<mode, told, listening, pulse, callerVars>>

Hardware == \/ MasterFires
            \/ \E s \in Scopes : ScopeApplies(s) \/ ScopeReady(s) \/ FreeRun(s)
----------------------------------------------------------------------------
(* The caller, and the methods it calls. *)

Goto(step) ==
  pc' = step /\ UNCHANGED <<cur, todo, complete, shot, base, steady, clean>>

(* The next scope of this phase, out of those it has still to reach. *)
Reach(scopes, step) ==
  /\ cur' \in scopes /\ todo' = todo \ {cur'} /\ pc' = step
  /\ UNCHANGED <<scopeVars, complete, shot, base, steady, clean>>

(* A phase that has every scope to reach. *)
Round(step) == pc' = step /\ todo' = Scopes
               /\ UNCHANGED <<cur, complete, shot, base, steady, clean>>

(* set_trigger_mode, its write *)
Write(m) ==
  /\ IF cur \in Lagging
     THEN told' = [told EXCEPT ![cur] = Append(@, m)] /\ UNCHANGED <<mode, listening>>
     ELSE /\ mode' = [mode EXCEPT ![cur] = m]
          /\ listening' = listening \ {cur}
          /\ UNCHANGED told
  /\ UNCHANGED <<inr, sweeps, captured, pulse>>

StartShot ==
  /\ pc = "idle" /\ shot < MaxShot
  /\ pc' = "pick" /\ todo' = Slaves
  /\ complete' = {} /\ shot' = shot + 1 /\ base' = pulse
  /\ steady' = {s \in Scopes : told[s] = <<>> /\ mode[s] # "SINGLE"}
  /\ clean' = {s \in Slaves \cap steady' : mode[s] = "STOP" /\ s \notin inr}
  /\ UNCHANGED <<scopeVars, cur>>

(* The next slave, and the master when every slave is confirmed. *)
PickNext ==
  /\ pc = "pick"
  /\ Reach(IF todo = {} THEN {Master} ELSE todo, "clear")

(* clear_sweeps *)
ClearSweeps ==
  /\ pc = "clear"
  /\ sweeps' = IF mode[cur] = "STOP" /\ ~ClearsInStop THEN sweeps
               ELSE [sweeps EXCEPT ![cur] = 0]
  /\ Goto("single")
  /\ UNCHANGED <<mode, told, listening, inr, captured, pulse>>

(* Variant: the wrong branch of set_trigger_mode, one that keeps triggering. *)
WriteNorm ==
  /\ pc = "single"
  /\ mode' = [mode EXCEPT ![cur] = "NORM"]
  /\ Goto("verify")
  /\ UNCHANGED <<told, listening, inr, sweeps, captured, pulse>>

(* set_trigger_mode("SINGLE"), its write *)
WriteSingle ==
  /\ pc = "single"
  /\ Write("SINGLE")
  /\ Goto("verify")

(* What follows set_trigger_mode: a slave is confirmed, the master is not. *)
Armed == IF cur = Master THEN Round("await") ELSE Goto("inr")

(* Variant: the master is armed again when it does not read back SIN. *)
VerifyStrictly ==
  /\ pc = "verify" /\ mode[cur] \in {"SINGLE", "STOP"}
  /\ IF cur = Master /\ mode[cur] # "SINGLE" THEN Goto("clear") ELSE Armed
  /\ UNCHANGED scopeVars

(* set_trigger_mode, its loop: SIN, or STO for an edge that came at once *)
VerifyMode ==
  /\ pc = "verify" /\ mode[cur] \in {"SINGLE", "STOP"}
  /\ Armed
  /\ UNCHANGED scopeVars

(* Twenty-five answers were neither; set_trigger_mode returns all the same. *)
VerifyGivesUp ==
  /\ pc = "verify" /\ mode[cur] = "AUTO"
  /\ Armed
  /\ UNCHANGED scopeVars

(* Variant: the mode is taken for a sign that the trigger is ready. *)
ReadMode ==
  /\ pc = "inr" /\ mode[cur] = "SINGLE"
  /\ Goto("pick")
  /\ UNCHANGED scopeVars

(* wait_for_trigger_ready: INR? finds the bit, and clears it *)
ReadInr ==
  /\ pc = "inr" /\ cur \in inr
  /\ inr' = inr \ {cur}
  /\ Goto("pick")
  /\ UNCHANGED <<mode, told, listening, sweeps, captured, pulse>>

(* It returns False; the caller withholds the master. *)
InrDeadline ==
  /\ pc = "inr"
  /\ Round("abandon")
  /\ UNCHANGED scopeVars

PickWait ==
  /\ pc = "await" /\ todo # {}
  /\ Reach(todo, "stop")

(* wait_for_stop_then_complete, stage 1: the mode reads STOP *)
SeesStop ==
  /\ pc = "stop" /\ mode[cur] = "STOP"
  /\ Goto("counter")
  /\ UNCHANGED scopeVars

(* Variant: STOP alone is taken for a fresh sweep. *)
StopIsEnough ==
  /\ pc = "counter"
  /\ pc' = "await" /\ complete' = complete \cup {cur}
  /\ UNCHANGED <<scopeVars, cur, todo, shot, base, steady, clean>>

(* Stage 2: the counter shows a sweep since the arm-time clear, or it polls on. *)
ReadCounter ==
  /\ pc = "counter"
  /\ IF sweeps[cur] >= 1 THEN pc' = "await" /\ complete' = complete \cup {cur}
                         ELSE pc' = "stop" /\ UNCHANGED complete
  /\ UNCHANGED <<scopeVars, cur, todo, shot, base, steady, clean>>

(* Variant: the deadline is looked at only when the scope is seen to run. *)
DeadlineWhileRunning ==
  /\ pc = "stop" /\ mode[cur] # "STOP"
  /\ Goto("await")
  /\ UNCHANGED scopeVars

(* It returns False. *)
WaitDeadline ==
  /\ pc = "stop"
  /\ Goto("await")
  /\ UNCHANGED scopeVars

ShotEnds ==
  /\ pc = "await" /\ todo = {}
  /\ IF complete = Scopes THEN Goto("idle") ELSE Round("abandon")
  /\ UNCHANGED scopeVars

(* The next scope to stop, and the end of the shot when there is none. *)
PickStop ==
  /\ pc = "abandon" /\ todo # {}
  /\ Reach(todo, "halt")

AllStopped ==
  /\ pc = "abandon" /\ todo = {}
  /\ Goto("idle")
  /\ UNCHANGED scopeVars

(* set_trigger_mode("STOP"), its write *)
WriteStop ==
  /\ pc = "halt"
  /\ Write("STOP")
  /\ Goto("halted")

(* Its loop: STO, or twenty-five other answers; it returns all the same. *)
VerifyStop ==
  /\ pc = "halted" /\ mode[cur] = "STOP"
  /\ Goto("abandon")
  /\ UNCHANGED scopeVars

StopGivesUp ==
  /\ pc = "halted" /\ mode[cur] # "STOP"
  /\ Goto("abandon")
  /\ UNCHANGED scopeVars

Arm == ClearSweeps \/ WriteSingle \/ VerifyMode \/ VerifyGivesUp \/ ReadInr \/ InrDeadline
Wait == SeesStop \/ ReadCounter \/ WaitDeadline
Stop == PickStop \/ WriteStop \/ VerifyStop \/ StopGivesUp \/ AllStopped
Caller == StartShot \/ PickNext \/ Arm \/ PickWait \/ Wait \/ ShotEnds \/ Stop

Next == Caller \/ Hardware

(* Every exchange returns; a deadline is looked at on every turn of its loop. *)
Spec == Init /\ [][Next]_vars /\ WF_vars(Caller) /\ SF_vars(WaitDeadline)
----------------------------------------------------------------------------
(***************************************************************************)
(* wait_for_stop_then_complete returns True only for a scope that captured *)
(* an edge of this shot: neither a STOP left over from an earlier shot nor *)
(* a counter left over is taken for fresh data.  A scope that takes over a *)
(* STOP of an earlier shot in mid-shot, the read-back of that STOP having  *)
(* given up, is not steady: nothing tells that STOP from one of this shot. *)
(***************************************************************************)
CompletionFresh == \A s \in complete \cap steady : captured[s] > base

(***************************************************************************)
(* When every scope is complete they all hold the same edge, if the shot   *)
(* began with no scope still to take over a mode of an earlier one.        *)
(***************************************************************************)
SameEdge == complete = Scopes /\ steady = Scopes =>
              \A s, t \in Scopes : captured[s] = captured[t]

(***************************************************************************)
(* A slave that begins a shot in STOP and with its INR register clear does *)
(* not miss an edge the master pulses out in that shot: it holds the edge. *)
(* This goes on while the scopes of a given-up shot are stopped: the       *)
(* master may fire before its turn comes, or before it takes its STOP      *)
(* over, and a slave not written to yet captures.  The master has nothing  *)
(* left from an earlier shot that could arm it.                            *)
(***************************************************************************)
ToldToStop == CASE pc \in {"abandon", "halted"} -> Scopes \ todo
                [] pc = "halt"                  -> (Scopes \ todo) \ {cur}
                [] pc = "idle" /\ complete # Scopes -> Scopes
                [] OTHER                        -> {}
NoEdgeMissed ==
  [][pulse' # pulse /\ Master \in steady =>
       \A s \in clean \ ToldToStop : captured'[s] = pulse']_vars

(***************************************************************************)
(* A slave wait_for_trigger_ready confirmed is listening, until the        *)
(* master's edge comes.  The slaves of this shot that are neither still to *)
(* be armed nor being armed are the confirmed ones.                        *)
(***************************************************************************)
Confirmed == IF pc \in {"pick", "clear", "single", "verify", "inr"} /\ shot > 0
             THEN (Slaves \ todo) \ (IF pc = "pick" THEN {} ELSE {cur})
             ELSE {}
ReadyMeansListening == \A s \in Confirmed : s \in listening \/ pulse > base

(***************************************************************************)
(* Whatever the scopes do, the caller is done with every shot it starts:   *)
(* no wait outlives its deadline.                                          *)
(***************************************************************************)
EachShotEnds == pc = "pick" ~> pc = "idle"
=============================================================================
