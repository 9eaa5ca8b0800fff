------------------------- MODULE LeCroyDiscoveryProof -------------------------
(***************************************************************************)
(* For any set of channel counts and any number of channels: on a link     *)
(* that is up and never late, discovery of the input channels and the scan *)
(* for the displayed ones are exact.  The argument is that on such a link  *)
(* no reply is ever left over, the register is clear before every probe    *)
(* and every candidate, and each loop has so far accepted exactly the      *)
(* names it has passed.                                                    *)
(***************************************************************************)
EXTENDS LeCroyDiscovery, TLAPS

Kept == /\ channels \in ValidCounts
        /\ reported \in {0, channels}
        /\ on \subseteq 1..channels
        /\ late \in Nat
        /\ cmr \in {0, 1}
        /\ n \in ValidCounts
        /\ k \in Nat \ {0}

NothingLeft == stream = << >>

Probing == /\ pc \in {"probe", "probeTrace"} => k <= channels + 1 /\ k <= MaxChannel
           /\ pc = "probeCode" => k <= channels
           /\ pc \in {"probeTrace", "probeCode"} => cmr = 0

Settled == pc \in {"clear", "trace", "code", "ready", "scan", "scanned"} => n = channels

Passed == k <= n /\ cmr = 0 /\ valid = 1..(k - 1)
Discovering == /\ pc = "clear" => valid = {}
               /\ pc \in {"trace", "code"} => Passed
               /\ pc \in {"ready", "scan", "scanned"} => valid = 1..n

Scanning == /\ pc = "scan" => k <= n /\ displayed = on \cap 1..(k - 1)
            /\ pc = "scanned" => displayed = on

Early == pc \in {"idn", "count", "probe", "probeTrace", "probeCode"} => valid = {}

Exact == NothingLeft /\ Probing /\ Settled /\ Discovering /\ Scanning /\ Early

IInv == Kept /\ (Undisturbed => Exact)

InputsOnly == ~DiscoverAll

Queries == {Idn, Count, Code} \cup {Trace(name) : name \in Nat}

(* A query answered while nothing was left over is answered by its own reply. *)
LEMMA OwnReply ==
  ASSUME NEW q, NothingLeft, Gets(q)
  PROVE  /\ ~Refused(q)
         /\ Heard(q) = [kind |-> q.kind, val |-> Value(q)]
         /\ NothingLeft'
         /\ cmr' = IF q.kind = "code" THEN 0 ELSE cmr
<1> DEFINE r == [kind |-> q.kind, val |-> Value(q)]
<1>1. ~Refused(q)
  BY DEF NothingLeft, Gets, Sent
<1>2. Sent(q) = <<r>>
  BY <1>1 DEF NothingLeft, Sent
<1>3. Head(<<r>>) = r /\ Tail(<<r>>) = << >>
  OBVIOUS
<1> QED BY <1>1, <1>2, <1>3 DEF Heard, NothingLeft, Gets, Execute

(* A time-out that is not a late reply is a refused name. *)
LEMMA OwnTimeout ==
  ASSUME NEW q, NothingLeft, late \in Nat, late = 0, TimesOut(q), late' = 0
  PROVE  Refused(q) /\ NothingLeft' /\ cmr' = 1
<1>1. Sent(q) = << >>
  BY DEF TimesOut
<1>2. Refused(q)
  <2> SUFFICES ASSUME ~Refused(q) PROVE FALSE
    OBVIOUS
  <2>1. Sent(q) = <<[kind |-> q.kind, val |-> Value(q)]>>
    BY DEF NothingLeft, Sent
  <2> QED BY <1>1, <2>1
<1> QED BY <1>1, <1>2 DEF TimesOut, NothingLeft, Execute

(* Every channel the scope has is accepted, and no other below MaxChannel. *)
LEMMA RefusedChannel ==
  ASSUME NEW name \in 1..MaxChannel, channels \in ValidCounts
  PROVE  /\ Refused(Trace(name)) <=> name > channels
         /\ Trace(name).kind = "state" /\ Trace(name).name = name
<1>1. channels \in 1..MaxChannel /\ MaxChannel \in Nat
  BY CountAssumption
<1>2. name \in Names
  BY <1>1, CountAssumption DEF Names
<1> QED BY <1>1, <1>2 DEF Refused, Trace, Accepted, Names

LEMMA InitInductive == InputsOnly /\ Init => IInv
<1> SUFFICES ASSUME InputsOnly, Init PROVE IInv
  OBVIOUS
<1>1. on \subseteq 1..channels
  <2>1. channels \in Nat
    BY CountAssumption DEF Init
  <2> QED BY <2>1 DEF Init
<1>2. Kept
  BY <1>1, CountAssumption DEF Init, Kept
<1>3. Exact
  BY DEF Init, Exact, NothingLeft, Probing, Settled, Discovering, Scanning, Early
<1> QED BY <1>2, <1>3 DEF IInv

(* What every query leaves alone. *)
LEMMA QueryFrame ==
  ASSUME NEW q, Kept, Gets(q) \/ Raises(q) \/ Dropped
  PROVE  /\ UNCHANGED scopeVars
         /\ late' \in Nat /\ cmr' \in {0, 1}
         /\ Undisturbed' => Undisturbed
<1> QED BY LinkAssumption
        DEF Kept, Gets, Raises, TimesOut, Reset, Dropped, Execute, Undisturbed

LEMMA KeptInductive == Kept /\ [Next]_vars => Kept' /\ (Undisturbed' => Undisturbed)
<1> SUFFICES ASSUME Kept, [Next]_vars PROVE Kept' /\ (Undisturbed' => Undisturbed)
  OBVIOUS
<1>0. /\ MaxChannel \in Nat \ {0} /\ Default \in ValidCounts
      /\ \A c \in ValidCounts : c \in 1..MaxChannel
  BY CountAssumption
<1>1. CASE UNCHANGED vars
  BY <1>1 DEF Kept, Undisturbed, vars, scopeVars
<1>2. CASE LinkDies
  BY <1>2 DEF LinkDies, Kept, Undisturbed, scopeVars
<1>3. CASE QueryIdn
  <2>1. Gets(Idn) \/ Raises(Idn) \/ Dropped
    BY <1>3 DEF QueryIdn
  <2>2. /\ UNCHANGED scopeVars /\ late' \in Nat /\ cmr' \in {0, 1}
        /\ Undisturbed' => Undisturbed
    BY <2>1, QueryFrame
  <2> QED BY <1>3, <2>2 DEF QueryIdn, Kept, scopeVars
<1>4. CASE QueryCount
  <2>1. Gets(Count) \/ Raises(Count) \/ Dropped
    BY <1>4 DEF QueryCount
  <2>2. /\ UNCHANGED scopeVars /\ late' \in Nat /\ cmr' \in {0, 1}
        /\ Undisturbed' => Undisturbed
    BY <2>1, QueryFrame
  <2> QED BY <1>4, <2>2 DEF QueryCount, Known, Kept, scopeVars
<1>5. CASE ClearStatus
  <2>1. cmr' \in {0, 1} /\ k' \in Nat \ {0}
    <3>1. cmr \in {0, 1} /\ k \in Nat \ {0}
      BY DEF Kept
    <3>2. cmr' \in {0, cmr} /\ k' \in {k, 1}
      BY <1>5 DEF ClearStatus
    <3> QED BY <3>1, <3>2
  <2>2. UNCHANGED <<scopeVars, late, link, n>>
    BY <1>5 DEF ClearStatus
  <2> QED BY <2>1, <2>2 DEF Kept, Undisturbed, scopeVars
<1>6. CASE ProbeTrace
  <2>1. Gets(Trace(k)) \/ Raises(Trace(k)) \/ Dropped
    BY <1>6 DEF ProbeTrace
  <2>2. /\ UNCHANGED scopeVars /\ late' \in Nat /\ cmr' \in {0, 1}
        /\ Undisturbed' => Undisturbed
    BY <2>1, QueryFrame
  <2> QED BY <1>0, <1>6, <2>2 DEF ProbeTrace, ProbeStops, Kept, scopeVars
<1>7. CASE ProbeCode
  <2>1. Gets(Code) \/ Raises(Code) \/ Dropped
    BY <1>7 DEF ProbeCode
  <2>2. /\ UNCHANGED scopeVars /\ late' \in Nat /\ cmr' \in {0, 1}
        /\ Undisturbed' => Undisturbed
    BY <2>1, QueryFrame
  <2>3. n' \in ValidCounts /\ k' \in Nat \ {0}
    <3>1. k \in Nat \ {0} /\ n \in ValidCounts
      BY DEF Kept
    <3>2. CASE ProbeStops(k) \/ ProbeStops(k - 1)
      BY <1>0, <3>1, <3>2 DEF ProbeStops
    <3>3. CASE k' = k + 1 /\ UNCHANGED n
      BY <3>1, <3>3
    <3>4. CASE UNCHANGED <<k, n>>
      BY <3>1, <3>4
    <3> QED BY <1>7, <3>2, <3>3, <3>4 DEF ProbeCode
  <2> QED BY <2>2, <2>3 DEF Kept, scopeVars
<1>8. CASE DiscoverTrace
  <2>1. Gets(Trace(k)) \/ Raises(Trace(k)) \/ Dropped
    BY <1>8 DEF DiscoverTrace
  <2>2. /\ UNCHANGED scopeVars /\ late' \in Nat /\ cmr' \in {0, 1}
        /\ Undisturbed' => Undisturbed
    BY <2>1, QueryFrame
  <2> QED BY <1>8, <2>2 DEF DiscoverTrace, NextCandidate, Kept, scopeVars
<1>9. CASE DiscoverCode
  <2>1. Gets(Code) \/ Raises(Code) \/ Dropped
    BY <1>9 DEF DiscoverCode
  <2>2. /\ UNCHANGED scopeVars /\ late' \in Nat /\ cmr' \in {0, 1}
        /\ Undisturbed' => Undisturbed
    BY <2>1, QueryFrame
  <2> QED BY <1>9, <2>2 DEF DiscoverCode, NextCandidate, Kept, scopeVars
<1>10. CASE StartScan
  BY <1>10 DEF StartScan, Kept, Undisturbed, scopeVars
<1>11. CASE ScanTrace
  <2>1. Gets(Trace(k)) \/ Raises(Trace(k)) \/ Dropped
    BY <1>11 DEF ScanTrace
  <2>2. /\ UNCHANGED scopeVars /\ late' \in Nat /\ cmr' \in {0, 1}
        /\ Undisturbed' => Undisturbed
    BY <2>1, QueryFrame
  <2> QED BY <1>11, <2>2 DEF ScanTrace, NextScan, Kept, scopeVars
<1> QED BY <1>1, <1>2, <1>3, <1>4, <1>5, <1>6, <1>7, <1>8, <1>9, <1>10, <1>11
        DEF Next, Driver

(* Each exchange of the driver's on an undisturbed link keeps the loops exact. *)
LEMMA DetectionExact ==
  InputsOnly /\ Kept /\ Exact /\ Undisturbed /\ Undisturbed'
    /\ (QueryIdn \/ QueryCount \/ ClearStatus \/ ProbeTrace \/ ProbeCode) => Exact'
<1> SUFFICES ASSUME Kept, Exact, Undisturbed, Undisturbed', InputsOnly,
                    QueryIdn \/ QueryCount \/ ClearStatus \/ ProbeTrace \/ ProbeCode
             PROVE  Exact'
  OBVIOUS
<1>0. /\ late = 0 /\ late' = 0 /\ late \in Nat /\ link = "up" /\ ~Dropped /\ ~Reset
      /\ NothingLeft
  BY DEF Kept, Undisturbed, Exact, Dropped, Reset
<1>a. /\ MaxChannel \in Nat /\ channels \in Nat /\ 1 <= channels /\ channels <= MaxChannel
      /\ k \in Nat /\ k >= 1
  BY CountAssumption DEF Kept
<1> USE DEF Probing, Settled, Discovering, Passed, Scanning, Early
<1>1. CASE QueryIdn
  <2>1. NothingLeft'
    BY <1>0, <1>1, OwnReply, OwnTimeout DEF QueryIdn, Raises
  <2>2. pc' \in {"count", "failed"} /\ UNCHANGED valid
    BY <1>1 DEF QueryIdn
  <2> QED BY <1>1, <2>1, <2>2 DEF Exact, QueryIdn
<1>2. CASE QueryCount
  <2>1. ~Refused(Count)
    BY DEF Refused, Count
  <2>2. Gets(Count)
    BY <1>0, <1>2, <2>1, OwnTimeout DEF QueryCount, Raises
  <2>3. NothingLeft' /\ Heard(Count) = [kind |-> "count", val |-> reported]
    <3>1. Count.kind = "count"
      BY DEF Count
    <3> QED BY <1>0, <2>2, <3>1, OwnReply DEF Value
  <2>4. UNCHANGED <<channels, valid>> /\ valid = {} /\ pc = "count"
    BY <1>2, <2>2 DEF QueryCount, Gets, scopeVars, Exact
  <2>5. CASE Known(Heard(Count))
    <3>1. reported = channels
      BY <2>3, <2>5, CountAssumption DEF Known, Kept
    <3>2. n' = channels /\ pc' = "clear"
      BY <1>0, <1>2, <2>3, <2>5, <3>1, <2>2, OwnTimeout, <2>1 DEF QueryCount, Raises
    <3> QED BY <2>3, <2>4, <3>2 DEF Exact
  <2>6. CASE ~Known(Heard(Count))
    <3>1. pc' = "probe" /\ k' = 1
      BY <1>0, <1>2, <2>6 DEF QueryCount
    <3> QED BY <1>a, <2>3, <2>4, <3>1 DEF Exact
  <2> QED BY <2>5, <2>6
<1>3. CASE ClearStatus
  <2>1. NothingLeft' /\ cmr' = 0 /\ UNCHANGED <<channels, n, valid, on>>
    BY <1>0, <1>3 DEF ClearStatus, NothingLeft, scopeVars
  <2>2. CASE pc = "probe"
    <3>1. pc' = "probeTrace" /\ k' = k
      BY <1>3, <2>2 DEF ClearStatus
    <3> QED BY <2>1, <2>2, <3>1 DEF Exact
  <2>3. CASE pc = "clear"
    <3>1. pc' = "trace" /\ k' = 1
      BY <1>3, <2>3 DEF ClearStatus
    <3>2. n = channels /\ valid = {}
      BY <2>3 DEF Exact
    <3>3. 1..(k' - 1) = {}
      BY <3>1
    <3> QED BY <1>a, <2>1, <3>1, <3>2, <3>3 DEF Exact
  <2> QED BY <1>3, <2>2, <2>3 DEF ClearStatus
<1>4. CASE ProbeTrace
  <2>1. /\ k <= channels + 1 /\ k \in 1..MaxChannel /\ cmr = 0 /\ valid = {}
        /\ UNCHANGED <<channels, valid>> /\ pc = "probeTrace"
    <3>1. UNCHANGED channels
      BY <1>0, <1>4, QueryFrame DEF ProbeTrace, scopeVars
    <3>2. pc = "probeTrace" /\ UNCHANGED valid
      BY <1>4 DEF ProbeTrace
    <3> QED BY <1>a, <3>1, <3>2 DEF Exact
  <2>2. Trace(k).kind = "state"
    BY DEF Trace
  <2>3. CASE Gets(Trace(k))
    <3>1. ~Refused(Trace(k)) /\ NothingLeft' /\ cmr' = 0
      BY <1>0, <2>1, <2>2, <2>3, OwnReply
    <3>2. k <= channels
      BY <1>a, <2>1, <3>1, RefusedChannel DEF Kept
    <3>3. pc' = "probeCode" /\ UNCHANGED k
      BY <1>0, <1>4, <3>1, OwnTimeout DEF ProbeTrace, Raises
    <3> QED BY <2>1, <3>1, <3>2, <3>3 DEF Exact
  <2>4. CASE TimesOut(Trace(k))
    <3>1. Refused(Trace(k)) /\ NothingLeft'
      BY <1>0, <2>4, OwnTimeout
    <3>2. k = channels + 1
      BY <1>a, <2>1, <3>1, RefusedChannel DEF Kept
    <3>3. ProbeStops(k - 1)
      BY <1>0, <1>4, <3>1, OwnReply DEF ProbeTrace
    <3>4. n' = channels /\ pc' = "clear"
      BY <1>a, <3>2, <3>3 DEF ProbeStops, Kept
    <3> QED BY <2>1, <3>1, <3>4 DEF Exact
  <2> QED BY <1>0, <1>4, <2>3, <2>4 DEF ProbeTrace, Raises
<1>5. CASE ProbeCode
  <2>1. /\ k <= channels /\ cmr = 0 /\ valid = {}
        /\ UNCHANGED valid /\ pc = "probeCode"
    BY <1>5 DEF ProbeCode, Exact
  <2>2. ~Refused(Code) /\ Code.kind = "code"
    BY DEF Refused, Code
  <2>3. Gets(Code)
    BY <1>0, <1>5, <2>2, OwnTimeout DEF ProbeCode, Raises
  <2>4. NothingLeft' /\ NoError(Heard(Code)) /\ UNCHANGED channels
    <3>1. Heard(Code) = [kind |-> "code", val |-> 0] /\ NothingLeft'
      BY <1>0, <2>1, <2>2, <2>3, OwnReply DEF Value
    <3> QED BY <2>3, <3>1 DEF NoError, Gets, scopeVars
  <2>5. IF k < MaxChannel THEN k' = k + 1 /\ pc' = "probe" /\ UNCHANGED n
                          ELSE ProbeStops(k)
    BY <1>0, <1>5, <2>2, <2>4, OwnTimeout DEF ProbeCode, Raises
  <2>6. CASE k < MaxChannel
    BY <1>a, <2>1, <2>4, <2>5, <2>6 DEF Exact
  <2>7. CASE ~(k < MaxChannel)
    <3>1. k = channels
      BY <1>a, <2>1, <2>7
    <3>2. n' = channels /\ pc' = "clear"
      BY <2>5, <2>7, <3>1 DEF ProbeStops, Kept
    <3> QED BY <2>1, <2>4, <3>2 DEF Exact
  <2> QED BY <2>6, <2>7
<1> QED BY <1>1, <1>2, <1>3, <1>4, <1>5

LEMMA LoopsExact ==
  InputsOnly /\ Kept /\ Exact /\ Undisturbed /\ Undisturbed'
    /\ (DiscoverTrace \/ DiscoverCode \/ StartScan \/ ScanTrace) => Exact'
<1> SUFFICES ASSUME Kept, Exact, Undisturbed, Undisturbed', InputsOnly,
                    DiscoverTrace \/ DiscoverCode \/ StartScan \/ ScanTrace
             PROVE  Exact'
  OBVIOUS
<1>0. /\ late = 0 /\ late' = 0 /\ late \in Nat /\ link = "up" /\ ~Dropped /\ ~Reset
      /\ NothingLeft
  BY DEF Kept, Undisturbed, Exact, Dropped, Reset
<1>a. /\ MaxChannel \in Nat /\ channels \in Nat /\ 1 <= channels /\ channels <= MaxChannel
      /\ k \in Nat /\ k >= 1 /\ channels \in ValidCounts /\ on \subseteq 1..channels
  BY CountAssumption DEF Kept
<1>b. ASSUME k <= channels
      PROVE  /\ Gets(Trace(k)) \/ Raises(Trace(k)) => Gets(Trace(k))
             /\ Gets(Trace(k)) => /\ NothingLeft' /\ cmr' = cmr
                                  /\ IsOn(Heard(Trace(k))) <=> k \in on
  <2>1. ~Refused(Trace(k)) /\ Trace(k).kind = "state" /\ Trace(k).name = k
    BY <1>a, <1>b, RefusedChannel
  <2>2. ASSUME Gets(Trace(k))
        PROVE  NothingLeft' /\ cmr' = cmr /\ (IsOn(Heard(Trace(k))) <=> k \in on)
    <3>1. /\ Heard(Trace(k)) = [kind |-> "state", val |-> IF k \in on THEN 1 ELSE 0]
          /\ NothingLeft' /\ cmr' = cmr
      BY <1>0, <2>1, <2>2, OwnReply DEF Value
    <3> QED BY <3>1 DEF IsOn
  <2> QED BY <1>0, <2>1, <2>2, OwnTimeout DEF Raises
<1> USE DEF Probing, Settled, Discovering, Passed, Scanning, Early
<1>1. CASE DiscoverTrace
  <2>1. /\ pc = "trace" /\ n = channels /\ k <= n /\ cmr = 0 /\ valid = 1..(k - 1)
        /\ UNCHANGED valid
    BY <1>1 DEF Exact, DiscoverTrace
  <2>2. Gets(Trace(k)) \/ Raises(Trace(k))
    BY <1>0, <1>1 DEF DiscoverTrace
  <2>3. NothingLeft' /\ cmr' = 0 /\ Gets(Trace(k)) /\ UNCHANGED channels
    BY <1>b, <2>1, <2>2 DEF Gets, scopeVars
  <2>4. pc' = "code" /\ UNCHANGED <<k, n>>
    <3>1. ~TimesOut(Trace(k))
      <4>1. ~Refused(Trace(k))
        BY <1>a, <2>1, RefusedChannel
      <4> QED BY <1>0, <4>1, OwnTimeout
    <3> QED BY <1>0, <1>1, <3>1 DEF DiscoverTrace, Raises
  <2> QED BY <2>1, <2>3, <2>4 DEF Exact
<1>2. CASE DiscoverCode
  <2>1. pc = "code" /\ n = channels /\ k <= n /\ cmr = 0 /\ valid = 1..(k - 1)
    BY <1>2 DEF Exact, DiscoverCode
  <2>2. ~Refused(Code) /\ Code.kind = "code"
    BY DEF Refused, Code
  <2>3. ~Raises(Code) /\ Gets(Code)
    BY <1>0, <1>2, <2>2, OwnTimeout DEF DiscoverCode, Raises
  <2>4. NothingLeft' /\ NoError(Heard(Code)) /\ UNCHANGED channels
    <3>1. Heard(Code) = [kind |-> "code", val |-> 0] /\ NothingLeft'
      BY <1>0, <2>1, <2>2, <2>3, OwnReply DEF Value
    <3> QED BY <2>3, <3>1 DEF NoError, Gets, scopeVars
  <2>5. valid' = 1..k /\ cmr' = 0
    <3>1. valid' = valid \cup {k}
      BY <1>0, <1>2, <2>3, <2>4 DEF DiscoverCode
    <3>2. cmr' = 0
      BY <1>0, <2>2, <2>3, OwnReply
    <3> QED BY <1>a, <2>1, <3>1, <3>2
  <2>6. NextCandidate
    BY <1>2 DEF DiscoverCode
  <2>7. UNCHANGED <<n, displayed>> /\ k' = k + 1 /\ (k' - 1 = k)
    BY <1>a, <2>6 DEF NextCandidate
  <2>8. CASE k + 1 <= n
    <3>1. pc' = "trace"
      BY <1>a, <2>1, <2>6, <2>8 DEF NextCandidate, Candidates, InputsOnly
    <3> QED BY <2>1, <2>4, <2>5, <2>7, <2>8, <3>1 DEF Exact
  <2>9. CASE ~(k + 1 <= n)
    <3>1. pc' = "ready" /\ k = n
      BY <1>a, <2>1, <2>6, <2>9 DEF NextCandidate, Candidates, InputsOnly
    <3> QED BY <2>1, <2>4, <2>5, <2>7, <3>1 DEF Exact
  <2> QED BY <2>8, <2>9
<1>3. CASE StartScan
  <2>1. /\ pc = "ready" /\ pc' = "scan" /\ k' = 1 /\ displayed' = {}
        /\ UNCHANGED <<channels, on, n, valid>> /\ NothingLeft'
    BY <1>0, <1>3 DEF StartScan, scopeVars, NothingLeft
  <2>2. on' \cap 1..(k' - 1) = {}
    BY <2>1
  <2> QED BY <1>a, <2>1, <2>2 DEF Exact
<1>4. CASE ScanTrace
  <2>1. /\ pc = "scan" /\ n = channels /\ k <= n /\ displayed = on \cap 1..(k - 1)
        /\ valid = 1..n /\ UNCHANGED <<n, valid>>
    BY <1>4 DEF Exact, ScanTrace
  <2>2. Gets(Trace(k)) \/ Raises(Trace(k))
    BY <1>0, <1>4 DEF ScanTrace
  <2>3. ~Raises(Trace(k))
    <3>1. ~Refused(Trace(k))
      BY <1>a, <2>1, RefusedChannel
    <3> QED BY <1>0, <3>1, OwnTimeout DEF Raises
  <2>4. NothingLeft' /\ (IsOn(Heard(Trace(k))) <=> k \in on) /\ UNCHANGED <<channels, on>>
    BY <1>b, <2>1, <2>2 DEF Gets, scopeVars
  <2>5. displayed' = on \cap 1..k
    <3>1. displayed' = IF IsOn(Heard(Trace(k))) THEN displayed \cup {k} ELSE displayed
      BY <1>0, <1>4, <2>3 DEF ScanTrace
    <3> QED BY <1>a, <2>1, <2>4, <3>1
  <2>6. NextScan
    BY <1>0, <1>4, <2>3 DEF ScanTrace
  <2>7. k' = k + 1 /\ k' - 1 = k
    BY <1>a, <2>6 DEF NextScan
  <2>8. CASE k < n
    <3>1. pc' = "scan" /\ k' <= n
      BY <1>a, <2>1, <2>6, <2>8 DEF NextScan
    <3> QED BY <2>1, <2>4, <2>5, <2>7, <3>1 DEF Exact
  <2>9. CASE ~(k < n)
    <3>1. pc' = "scanned" /\ k = channels
      BY <1>a, <2>1, <2>6, <2>9 DEF NextScan
    <3>2. on \cap 1..k = on
      BY <1>a, <3>1
    <3> QED BY <2>1, <2>4, <2>5, <3>1, <3>2 DEF Exact
  <2> QED BY <2>8, <2>9
<1> QED BY <1>1, <1>2, <1>3, <1>4

LEMMA StepInductive == InputsOnly /\ IInv /\ [Next]_vars => IInv'
<1> SUFFICES ASSUME InputsOnly, IInv, [Next]_vars PROVE IInv'
  OBVIOUS
<1>1. Kept' /\ (Undisturbed' => Undisturbed)
  BY KeptInductive DEF IInv
<1>2. ASSUME Undisturbed' PROVE Exact'
  <2>1. Kept /\ Exact /\ Undisturbed
    BY <1>1, <1>2 DEF IInv
  <2>2. CASE UNCHANGED vars
    BY <2>1, <2>2 DEF Exact, NothingLeft, Probing, Settled, Discovering, Passed, Scanning,
                      Early, vars, scopeVars
  <2>3. CASE LinkDies
    BY <1>2, <2>3 DEF LinkDies, Undisturbed
  <2>4. CASE Driver
    BY <1>2, <2>1, <2>4, DetectionExact, LoopsExact DEF Driver
  <2> QED BY <2>2, <2>3, <2>4 DEF Next
<1> QED BY <1>1, <1>2 DEF IInv

(***************************************************************************)
(* Discovery of the input channels is exact on a link that is up and never *)
(* late, for every set of channel counts: the count is the scope's, and    *)
(* every channel it has is accepted, whatever error the register held.     *)
(***************************************************************************)
THEOREM DiscoveryIsExact == InputsOnly => (Spec => []DiscoveryExact)
<1> SUFFICES ASSUME InputsOnly PROVE Spec => []DiscoveryExact
  OBVIOUS
<1>1. Init => IInv
  BY InitInductive
<1>2. IInv /\ [Next]_vars => IInv'
  BY StepInductive
<1>3. IInv => DiscoveryExact
  <2> SUFFICES ASSUME IInv, pc = "ready", Undisturbed
               PROVE  n = channels /\ valid = Candidates \cap Accepted
    BY DEF DiscoveryExact
  <2>1. n = channels /\ valid = 1..n
    BY DEF IInv, Exact, Settled, Discovering
  <2>2. channels \in 1..MaxChannel /\ MaxChannel \in Nat
    BY CountAssumption DEF IInv, Kept
  <2> QED BY <2>1, <2>2 DEF Candidates, Accepted, Names, InputsOnly
<1> QED BY <1>1, <1>2, <1>3, PTL DEF Spec

(***************************************************************************)
(* So is the scan for displayed channels that the arm helpers start with.  *)
(***************************************************************************)
THEOREM ScanIsExact == InputsOnly => (Spec => []ScanExact)
<1> SUFFICES ASSUME InputsOnly PROVE Spec => []ScanExact
  OBVIOUS
<1>1. Init => IInv
  BY InitInductive
<1>2. IInv /\ [Next]_vars => IInv'
  BY StepInductive
<1>3. IInv => ScanExact
  BY DEF IInv, Exact, Scanning, ScanExact
<1> QED BY <1>1, <1>2, <1>3, PTL DEF Spec

----------------------------------------------------------------------------
(* Type correctness, for every setting and on every link.  A loop never      *)
(* runs past the names it is about, and the list of accepted names is empty  *)
(* until the count it is bounded by is settled.                              *)

Turn == /\ pc \in {"probe", "probeTrace", "probeCode"} => k <= MaxChannel
        /\ pc \in {"trace", "code"} => k \in Candidates
        /\ pc = "scan" => k <= n

Unstarted ==
  /\ pc \in {"idn", "count", "probe", "probeTrace", "probeCode", "clear"} => valid = {}
  /\ pc \in {"idn", "count", "probe", "probeTrace", "probeCode", "clear", "trace", "code", "ready"}
       => displayed = {}

TypeInv == TypeOK /\ Turn /\ Unstarted

LEMMA ConstantTypes ==
  /\ MaxChannel \in Nat /\ MaxChannel >= 1 /\ OtherTraces \in Nat /\ MaxLate \in Nat
  /\ Default \in ValidCounts /\ \A c \in ValidCounts : c \in Nat /\ 1 <= c /\ c <= MaxChannel
BY CountAssumption, LinkAssumption

LEMMA InitTyped == Init => TypeInv
<1> SUFFICES ASSUME Init PROVE TypeInv
  OBVIOUS
<1>1. on \subseteq 1..channels
  BY ConstantTypes DEF Init
<1>2. /\ stream \in Seq(Reply) /\ late \in 0..MaxLate /\ n \in ValidCounts
      /\ k \in 1..(MaxChannel + OtherTraces + 1)
  BY ConstantTypes DEF Init
<1>3. valid = {} /\ displayed = {} /\ pc = "idn" /\ link = "up"
  BY DEF Init
<1>4. channels \in ValidCounts /\ reported \in {0, channels} /\ cmr \in {0, 1}
  BY DEF Init
<1>5. TypeOK
  BY <1>1, <1>2, <1>3, <1>4 DEF TypeOK, Steps
<1> QED BY <1>3, <1>5 DEF TypeInv, Turn, Unstarted

(* The link's part of every exchange keeps its types. *)
LEMMA QueryTyped ==
  ASSUME NEW q \in Queries, TypeOK, Gets(q) \/ Raises(q) \/ Dropped
  PROVE  /\ UNCHANGED scopeVars /\ cmr' \in {0, 1} /\ stream' \in Seq(Reply)
         /\ late' \in 0..MaxLate /\ link' \in {"up", "down"}
<1>1. q.kind \in {"idn", "count", "state", "code"}
  BY DEF Queries, Idn, Count, Code, Trace
<1>2. Value(q) \in 0..MaxChannel
  <2>1. reported \in 0..MaxChannel /\ cmr \in {0, 1}
    BY ConstantTypes DEF TypeOK
  <2> QED BY <2>1, ConstantTypes DEF Value
<1>3. stream \in Seq(Reply) /\ Sent(q) \in Seq(Reply)
  <2>1. [kind |-> q.kind, val |-> Value(q)] \in Reply
    BY <1>1, <1>2 DEF Reply
  <2> QED BY <2>1 DEF TypeOK, Sent
<1>4. Sent(q) # << >> => Tail(Sent(q)) \in Seq(Reply)
  BY <1>3
<1>5. cmr \in {0, 1} /\ late \in 0..MaxLate /\ link \in {"up", "down"}
  BY DEF TypeOK
<1>6. CASE Gets(q)
  BY <1>4, <1>5, <1>6 DEF Gets, Execute
<1>7. CASE TimesOut(q)
  <2>1. late' \in 0..MaxLate
    BY <1>5, <1>7, ConstantTypes DEF TimesOut
  <2> QED BY <1>3, <1>5, <1>7, <2>1 DEF TimesOut, Execute
<1>8. CASE Reset \/ Dropped
  BY <1>3, <1>5, <1>8 DEF Reset, Dropped, scopeVars
<1> QED BY <1>6, <1>7, <1>8 DEF Raises

(* What the driver's part of a step has to keep, once the link's part does. *)
Driven == /\ pc' \in Steps
          /\ k' \in 1..(MaxChannel + OtherTraces + 1)
          /\ n' \in ValidCounts
          /\ valid' \subseteq Candidates'
          /\ displayed' \subseteq 1..n'
          /\ Turn' /\ Unstarted'

LEMMA StepTyped ==
  ASSUME TypeInv, Driven, UNCHANGED scopeVars, cmr' \in {0, 1}, stream' \in Seq(Reply),
         late' \in 0..MaxLate, link' \in {"up", "down"}
  PROVE  TypeInv'
BY DEF TypeInv, TypeOK, Driven, scopeVars

LEMMA QueriesAsked ==
  ASSUME TypeOK
  PROVE  {Idn, Count, Code, Trace(k)} \subseteq Queries
BY ConstantTypes DEF TypeOK, Queries

LEMMA DetectionTyped ==
  ASSUME TypeInv, QueryIdn \/ QueryCount \/ ProbeTrace \/ ProbeCode
  PROVE  TypeInv'
<1>1. \E q \in Queries : Gets(q) \/ Raises(q) \/ Dropped
  <2>1. {Idn, Count, Code, Trace(k)} \subseteq Queries
    BY QueriesAsked DEF TypeInv
  <2> QED BY <2>1 DEF QueryIdn, QueryCount, ProbeTrace, ProbeCode
<1>2. /\ UNCHANGED scopeVars /\ cmr' \in {0, 1} /\ stream' \in Seq(Reply)
      /\ late' \in 0..MaxLate /\ link' \in {"up", "down"}
  BY <1>1, QueryTyped DEF TypeInv
<1>3. /\ valid = {} /\ displayed = {} /\ UNCHANGED <<valid, displayed>>
      /\ n \in ValidCounts /\ k \in 1..(MaxChannel + OtherTraces + 1)
  BY DEF TypeInv, TypeOK, Unstarted, QueryIdn, QueryCount, ProbeTrace, ProbeCode
<1>4. /\ n' \in ValidCounts /\ k' \in 1..(MaxChannel + OtherTraces + 1)
      /\ pc' \in {"probe", "probeTrace", "probeCode"} => k' <= MaxChannel
      /\ pc' \in {"count", "probe", "probeCode", "clear", "failed"}
  <2>1. CASE QueryIdn
    BY <1>3, <2>1, ConstantTypes DEF QueryIdn
  <2>2. CASE QueryCount
    BY <1>3, <2>2, ConstantTypes DEF QueryCount, Known
  <2>3. CASE ProbeTrace
    BY <1>3, <2>3, ConstantTypes DEF ProbeTrace, ProbeStops, TypeInv, Turn
  <2>4. CASE ProbeCode
    <3>1. CASE ProbeStops(k) \/ ProbeStops(k - 1)
      BY <1>3, <3>1, ConstantTypes DEF ProbeStops
    <3>2. CASE k < MaxChannel /\ k' = k + 1 /\ pc' = "probe" /\ UNCHANGED n
      BY <1>3, <3>2, ConstantTypes
    <3>3. CASE pc' = "failed" /\ UNCHANGED <<k, n>>
      BY <1>3, <3>3
    <3> QED BY <2>4, <3>1, <3>2, <3>3 DEF ProbeCode
  <2> QED BY <2>1, <2>2, <2>3, <2>4
<1>5. Driven
  BY <1>3, <1>4 DEF Driven, Steps, Turn, Unstarted
<1> QED BY <1>2, <1>5, StepTyped

LEMMA DiscoveryTyped ==
  ASSUME TypeInv, DiscoverTrace \/ DiscoverCode
  PROVE  TypeInv'
<1>1. \E q \in Queries : Gets(q) \/ Raises(q) \/ Dropped
  <2>1. {Idn, Count, Code, Trace(k)} \subseteq Queries
    BY QueriesAsked DEF TypeInv
  <2> QED BY <2>1 DEF DiscoverTrace, DiscoverCode
<1>2. /\ UNCHANGED scopeVars /\ cmr' \in {0, 1} /\ stream' \in Seq(Reply)
      /\ late' \in 0..MaxLate /\ link' \in {"up", "down"}
  BY <1>1, QueryTyped DEF TypeInv
<1>3. /\ displayed = {} /\ k \in Candidates /\ valid \subseteq Candidates /\ n \in ValidCounts
      /\ k \in 1..(MaxChannel + OtherTraces + 1)
  BY DEF TypeInv, TypeOK, Turn, Unstarted, DiscoverTrace, DiscoverCode
<1>4. Candidates \subseteq 1..(MaxChannel + OtherTraces)
  BY <1>3, ConstantTypes DEF Candidates, Names
<1>5. UNCHANGED <<n, displayed>> /\ valid' \subseteq valid \cup {k}
  BY DEF DiscoverTrace, DiscoverCode, NextCandidate
<1>6. Candidates' = Candidates
  BY <1>5 DEF Candidates
<1>7. \/ NextCandidate
      \/ pc' = "code" /\ UNCHANGED k
  BY DEF DiscoverTrace, DiscoverCode
<1>8. /\ k' \in 1..(MaxChannel + OtherTraces + 1)
      /\ pc' \in {"trace", "code", "ready"}
      /\ pc' \in {"trace", "code"} => k' \in Candidates
  BY <1>3, <1>4, <1>7, ConstantTypes DEF NextCandidate
<1>9. Driven
  BY <1>3, <1>5, <1>6, <1>8 DEF Driven, Steps, Turn, Unstarted
<1> QED BY <1>2, <1>9, StepTyped

LEMMA ScanTyped ==
  ASSUME TypeInv, ScanTrace
  PROVE  TypeInv'
<1>1. /\ UNCHANGED scopeVars /\ cmr' \in {0, 1} /\ stream' \in Seq(Reply)
      /\ late' \in 0..MaxLate /\ link' \in {"up", "down"}
  <2>1. Trace(k) \in Queries
    BY QueriesAsked DEF TypeInv
  <2> QED BY <2>1, QueryTyped DEF TypeInv, ScanTrace
<1>2. /\ k <= n /\ n \in ValidCounts /\ valid \subseteq Candidates /\ displayed \subseteq 1..n
      /\ k \in 1..(MaxChannel + OtherTraces + 1)
  BY DEF TypeInv, TypeOK, Turn, ScanTrace
<1>3. UNCHANGED <<n, valid>> /\ displayed' \subseteq displayed \cup {k}
  BY DEF ScanTrace
<1>4. valid' \subseteq Candidates' /\ displayed' \subseteq 1..n'
  BY <1>2, <1>3, ConstantTypes DEF Candidates
<1>5. /\ k' \in 1..(MaxChannel + OtherTraces + 1)
      /\ pc' \in {"scan", "scanned", "failed"}
      /\ pc' = "scan" => k' <= n'
  BY <1>2, <1>3, ConstantTypes DEF ScanTrace, NextScan
<1>6. Driven
  BY <1>2, <1>3, <1>4, <1>5 DEF Driven, Steps, Turn, Unstarted
<1> QED BY <1>1, <1>6, StepTyped

LEMMA TypeInductive == TypeInv /\ [Next]_vars => TypeInv'
<1> SUFFICES ASSUME TypeInv, [Next]_vars PROVE TypeInv'
  OBVIOUS
<1>0. /\ k \in 1..(MaxChannel + OtherTraces + 1) /\ n \in ValidCounts /\ cmr \in {0, 1}
      /\ stream \in Seq(Reply) /\ late \in 0..MaxLate /\ link \in {"up", "down"}
      /\ valid \subseteq Candidates /\ displayed \subseteq 1..n /\ pc \in Steps
  BY DEF TypeInv, TypeOK
<1>1. CASE UNCHANGED vars
  BY <1>1 DEF TypeInv, TypeOK, Turn, Unstarted, Candidates, vars, scopeVars
<1>2. CASE LinkDies
  BY <1>2 DEF TypeInv, TypeOK, Turn, Unstarted, Candidates, LinkDies, scopeVars
<1>3. CASE ClearStatus
  <2>1. /\ UNCHANGED <<scopeVars, stream, late, link, n, valid, displayed>> /\ cmr' \in {0, 1}
        /\ displayed = {} /\ valid = {}
    BY <1>0, <1>3 DEF ClearStatus, TypeInv, Unstarted
  <2>2. 1 \in Candidates /\ Candidates' = Candidates
    BY <1>0, <2>1, ConstantTypes DEF Candidates, Names
  <2>3. /\ k' \in 1..(MaxChannel + OtherTraces + 1)
        /\ \/ pc' = "probeTrace" /\ k' <= MaxChannel
           \/ pc' = "trace" /\ k' = 1
    BY <1>0, <1>3, ConstantTypes DEF ClearStatus, TypeInv, Turn
  <2>4. Driven
    BY <1>0, <2>1, <2>2, <2>3 DEF Driven, Steps, Turn, Unstarted
  <2> QED BY <1>0, <2>1, <2>4, StepTyped
<1>4. CASE StartScan
  <2>1. /\ UNCHANGED <<scopeVars, cmr, stream, late, link, n, valid>>
        /\ pc' = "scan" /\ k' = 1 /\ displayed' = {}
    BY <1>4 DEF StartScan
  <2>2. Driven
    BY <1>0, <2>1, ConstantTypes DEF Driven, Steps, Turn, Unstarted, Candidates
  <2> QED BY <1>0, <2>1, <2>2, StepTyped
<1> QED BY <1>1, <1>2, <1>3, <1>4, DetectionTyped, DiscoveryTyped, ScanTyped
        DEF Next, Driver

(***************************************************************************)
(* The names found are names the scope was asked for, whatever is set and  *)
(* whatever the link does: discover_traces "all" as well as "inputs".      *)
(***************************************************************************)
THEOREM TypeCorrect == Spec => []TypeOK
<1>1. Init => TypeInv
  BY InitTyped
<1>2. TypeInv /\ [Next]_vars => TypeInv'
  BY TypeInductive
<1>3. TypeInv => TypeOK
  BY DEF TypeInv
<1> QED BY <1>1, <1>2, <1>3, PTL DEF Spec
=============================================================================
