--------------------------- MODULE LeCroyDiscovery ---------------------------
(***************************************************************************)
(* LeCroyScope.__init__ from the *IDN? query to the list of trace names    *)
(* the scope accepts, and the scan for displayed channels that every arm   *)
(* helper starts with (src/lab_scopes/lecroy/scope.py), over the VICP link *)
(* of src/lab_scopes/transports/lecroy_vicp.py.                            *)
(*                                                                         *)
(* The scope answers commands in order.  A query that times out leaves its *)
(* reply, if one is still to come, to be read by the next query.  A name   *)
(* the scope does not know sets the command error register CMR and gets no *)
(* reply.  Names are numbers: n for channel Cn, those above MaxChannel for *)
(* the other traces, which every scope accepts.                            *)
(***************************************************************************)
EXTENDS Integers, Sequences

CONSTANTS ValidCounts,  \* _VALID_CHANNEL_COUNTS
          MaxChannel,   \* the highest channel the fallback probes
          Default,      \* the count when query and probe are inconclusive
          OtherTraces,  \* trace names beyond the channels
          DiscoverAll,  \* discover_traces="all"
          MayDrop,      \* the link may die
          MaxLate       \* bound on replies that come after the time-out

ASSUME CountAssumption == /\ MaxChannel \in Nat \ {0}
                          /\ ValidCounts \subseteq 1..MaxChannel
                          /\ Default \in ValidCounts
                          /\ OtherTraces \in Nat
ASSUME LinkAssumption == /\ DiscoverAll \in BOOLEAN
                         /\ MayDrop \in BOOLEAN
                         /\ MaxLate \in Nat

VARIABLES channels, \* analog channels the scope has
          reported, \* its answer to Acquisition.Channels; 0 for a blank one
          on,       \* the channels it displays
          cmr,      \* its command error register, 1 for an error
          stream,   \* replies sent and not read
          late,     \* replies that came after the time-out
          link,     \* "up" or "down"
          pc, k,    \* where the driver is, and in which turn of its loop
          n,        \* n_channels
          valid,    \* valid_trace_names
          displayed \* the names the scan found

scopeVars == <<channels, reported, on>>
vars == <<scopeVars, cmr, stream, late, link, pc, k, n, valid, displayed>>

Names == 1..(MaxChannel + OtherTraces)
Accepted == (1..channels) \cup (Names \ 1..MaxChannel)
Candidates == IF DiscoverAll THEN Names ELSE 1..n

Reply == [kind : {"idn", "count", "state", "code"}, val : 0..MaxChannel]
Steps == {"idn", "count", "probe", "probeTrace", "probeCode", "clear", "trace", "code",
          "ready", "scan", "scanned", "failed"}

TypeOK ==
  /\ channels \in ValidCounts
  /\ reported \in {0, channels}
  /\ on \subseteq 1..channels
  /\ cmr \in {0, 1}
  /\ stream \in Seq(Reply)
  /\ late \in 0..MaxLate
  /\ link \in {"up", "down"}
  /\ pc \in Steps
  /\ k \in 1..(MaxChannel + OtherTraces + 1)
  /\ n \in ValidCounts
  /\ valid \subseteq Candidates
  /\ displayed \subseteq 1..n

(* A command error of an earlier session may still be in the register. *)
Init ==
  /\ channels \in ValidCounts
  /\ reported \in {0, channels}
  /\ on \in SUBSET (1..channels)
  /\ cmr \in {0, 1}
  /\ stream = << >> /\ late = 0 /\ link = "up"
  /\ pc = "idn" /\ k = 1
  /\ n = Default /\ valid = {} /\ displayed = {}
----------------------------------------------------------------------------
(* The link and the scope. *)

Idn == [kind |-> "idn", name |-> 0]
Count == [kind |-> "count", name |-> 0]
Code == [kind |-> "code", name |-> 0]
Trace(name) == [kind |-> "state", name |-> name]

Value(query) == CASE query.kind = "count" -> reported
                  [] query.kind = "code"  -> cmr
                  [] query.kind = "state" -> IF query.name \in on THEN 1 ELSE 0
                  [] OTHER                -> 0

Refused(query) == query.kind = "state" /\ query.name \notin Accepted

(* What the driver can still read once the scope has handled the query. *)
Sent(query) == IF Refused(query) THEN stream
               ELSE Append(stream, [kind |-> query.kind, val |-> Value(query)])

Execute(query) == cmr' = IF Refused(query) THEN 1 ELSE IF query.kind = "code" THEN 0 ELSE cmr

Heard(query) == Head(Sent(query))

Gets(query) ==
  /\ link = "up" /\ Sent(query) # << >>
  /\ stream' = Tail(Sent(query))
  /\ Execute(query)
  /\ UNCHANGED <<scopeVars, late, link>>

TimesOut(query) ==
  /\ link = "up"
  /\ Sent(query) # << >> => late < MaxLate
  /\ late' = IF Sent(query) = << >> THEN late ELSE late + 1
  /\ stream' = Sent(query)
  /\ Execute(query)
  /\ UNCHANGED <<scopeVars, link>>

(* An end of stream is a ScopeConnectionError. *)
Dropped == link = "down" /\ UNCHANGED <<scopeVars, cmr, stream, late, link>>

(* A reset or a broken pipe stays the OSError the socket raises. *)
Reset == link = "down" /\ UNCHANGED <<scopeVars, cmr, stream, late, link>>

(* The query raises something other than a ScopeConnectionError. *)
Raises(query) == TimesOut(query) \/ Reset

LinkDies ==
  /\ MayDrop /\ link = "up"
  /\ link' = "down" /\ stream' = << >>
  /\ UNCHANGED <<scopeVars, cmr, late, pc, k, n, valid, displayed>>
----------------------------------------------------------------------------
(* rm_open *)
QueryIdn ==
  /\ pc = "idn"
  /\ \/ Gets(Idn) /\ pc' = "count"
     \/ (Raises(Idn) \/ Dropped) /\ pc' = "failed"
  /\ UNCHANGED <<k, n, valid, displayed>>

Known(reply) == reply.kind = "count" /\ reply.val \in ValidCounts

(* _detect_channel_count *)
QueryCount ==
  /\ pc = "count"
  /\ \/ /\ Gets(Count) /\ Known(Heard(Count))
        /\ n' = Heard(Count).val /\ pc' = "clear" /\ UNCHANGED k
     \/ /\ (Gets(Count) /\ ~Known(Heard(Count))) \/ Raises(Count)
        /\ pc' = "probe" /\ k' = 1 /\ UNCHANGED n
     \/ Dropped /\ pc' = "failed" /\ UNCHANGED <<k, n>>
  /\ UNCHANGED <<valid, displayed>>

(* Variant: nothing is cleared. *)
StatusKept ==
  /\ pc \in {"probe", "clear"}
  /\ pc' = IF pc = "probe" THEN "probeTrace" ELSE "trace"
  /\ k' = IF pc = "probe" THEN k ELSE 1
  /\ UNCHANGED <<scopeVars, cmr, stream, late, link, n, valid, displayed>>

(* _clear_status, before each probe and once before the discovery loop *)
ClearStatus ==
  /\ pc \in {"probe", "clear"}
  /\ cmr' = IF link = "up" THEN 0 ELSE cmr
  /\ pc' = IF pc = "probe" THEN "probeTrace" ELSE "trace"
  /\ k' = IF pc = "probe" THEN k ELSE 1
  /\ UNCHANGED <<scopeVars, stream, late, link, n, valid, displayed>>

NoError(reply) == reply.kind = "code" /\ reply.val = 0

(* Variant: any count the probes arrive at is believed. *)
ProbeBelieved(count) ==
  /\ n' = count
  /\ pc' = "clear" /\ UNCHANGED k

(* The run of accepted channels ends at the given one. *)
ProbeStops(count) ==
  /\ n' = IF count \in ValidCounts THEN count ELSE Default
  /\ pc' = "clear" /\ UNCHANGED k

(* _probe_channel_count, its Cn:TRACE? *)
ProbeTrace ==
  /\ pc = "probeTrace"
  /\ \/ Gets(Trace(k)) /\ pc' = "probeCode" /\ UNCHANGED <<k, n>>
     \/ Raises(Trace(k)) /\ ProbeStops(k - 1)
     \/ Dropped /\ pc' = "failed" /\ UNCHANGED <<k, n>>
  /\ UNCHANGED <<valid, displayed>>

(* _probe_channel_count, its CMR? *)
ProbeCode ==
  /\ pc = "probeCode"
  /\ \/ /\ Gets(Code) /\ NoError(Heard(Code))
        /\ IF k < MaxChannel THEN k' = k + 1 /\ pc' = "probe" /\ UNCHANGED n
                             ELSE ProbeStops(k)
     \/ /\ (Gets(Code) /\ ~NoError(Heard(Code))) \/ Raises(Code)
        /\ ProbeStops(k - 1)
     \/ Dropped /\ pc' = "failed" /\ UNCHANGED <<k, n>>
  /\ UNCHANGED <<valid, displayed>>

NextCandidate ==
  /\ pc' = IF k + 1 \in Candidates THEN "trace" ELSE "ready"
  /\ k' = k + 1
  /\ UNCHANGED <<n, displayed>>

(* Variant: a name that gives no answer is asked for again. *)
DiscoverTraceAgain ==
  /\ pc = "trace"
  /\ \/ Gets(Trace(k)) /\ pc' = "code" /\ UNCHANGED <<k, n, displayed>>
     \/ Raises(Trace(k)) /\ UNCHANGED <<pc, k, n, displayed>>
     \/ Dropped /\ NextCandidate
  /\ UNCHANGED valid

(* The discovery loop, its :TRACE? *)
DiscoverTrace ==
  /\ pc = "trace"
  /\ \/ Gets(Trace(k)) /\ pc' = "code" /\ UNCHANGED <<k, n, displayed>>
     \/ (Raises(Trace(k)) \/ Dropped) /\ NextCandidate
  /\ UNCHANGED valid

(* The discovery loop, its CMR? *)
DiscoverCode ==
  /\ pc = "code"
  /\ \/ Gets(Code) /\ valid' = IF NoError(Heard(Code)) THEN valid \cup {k} ELSE valid
     \/ (Raises(Code) \/ Dropped) /\ UNCHANGED valid
  /\ NextCandidate

(* displayed_channels *)
StartScan ==
  /\ pc = "ready"
  /\ pc' = "scan" /\ k' = 1 /\ displayed' = {}
  /\ UNCHANGED <<scopeVars, cmr, stream, late, link, n, valid>>

IsOn(reply) == reply.kind = "state" /\ reply.val = 1

NextScan == pc' = (IF k < n THEN "scan" ELSE "scanned") /\ k' = k + 1

(* Variant: the channels are taken to be displayed in a row from the first. *)
ScanUntilOff ==
  /\ pc = "scan"
  /\ \/ /\ Gets(Trace(k)) /\ IsOn(Heard(Trace(k)))
        /\ displayed' = displayed \cup {k} /\ NextScan
     \/ /\ Gets(Trace(k)) /\ ~IsOn(Heard(Trace(k)))
        /\ pc' = "scanned" /\ UNCHANGED <<k, displayed>>
     \/ Raises(Trace(k)) /\ UNCHANGED displayed /\ NextScan
     \/ Dropped /\ pc' = "failed" /\ UNCHANGED <<k, displayed>>
  /\ UNCHANGED <<n, valid>>

(* _scan_displayed *)
ScanTrace ==
  /\ pc = "scan"
  /\ \/ /\ Gets(Trace(k))
        /\ displayed' = IF IsOn(Heard(Trace(k))) THEN displayed \cup {k} ELSE displayed
        /\ NextScan
     \/ Raises(Trace(k)) /\ UNCHANGED displayed /\ NextScan
     \/ Dropped /\ pc' = "failed" /\ UNCHANGED <<k, displayed>>
  /\ UNCHANGED <<n, valid>>

Driver == QueryIdn \/ QueryCount \/ ClearStatus \/ ProbeTrace \/ ProbeCode
            \/ DiscoverTrace \/ DiscoverCode \/ StartScan \/ ScanTrace

Next == Driver \/ LinkDies

(* A query returns or times out. *)
Spec == Init /\ [][Next]_vars /\ WF_vars(Driver)
----------------------------------------------------------------------------
Undisturbed == late = 0 /\ link = "up"

(***************************************************************************)
(* On a link that is up and never late, discovery finds exactly the        *)
(* channels the scope has and the candidates it accepts, whatever error    *)
(* the register held before and whether Acquisition.Channels is answered   *)
(* or the channels are probed.                                             *)
(***************************************************************************)
DiscoveryExact ==
  pc = "ready" /\ Undisturbed => n = channels /\ valid = Candidates \cap Accepted

(***************************************************************************)
(* On such a link the scan finds exactly the displayed channels.           *)
(***************************************************************************)
ScanExact == pc = "scanned" /\ Undisturbed => displayed = on

(***************************************************************************)
(* Construction ends, with a usable scope or an error, however many        *)
(* queries time out and wherever the link dies.                            *)
(***************************************************************************)
ConstructionEnds == pc = "idn" ~> pc \in {"ready", "failed"}
=============================================================================
