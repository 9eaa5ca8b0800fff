--------------------------- MODULE RecordDelivery ---------------------------
(***************************************************************************)
(* What a read of an oscilloscope channel promises its caller, with no     *)
(* word on how the bytes travel: docs/rigol_full_memory_acquisition_plan,  *)
(* section 2.  The scope's memory holds one captured record; a caller asks *)
(* for it, and gets the whole record in order, or an error - never a part  *)
(* of it, a shifted one, or a mixture of two captures - unless the read    *)
(* went on while a run of the caller's was still to be obeyed, or while    *)
(* the connection owed replies to earlier questions.                       *)
(***************************************************************************)
EXTENDS Integers, Sequences

CONSTANTS Depth,      \* samples in a captured record (:ACQuire:MDEPth?)
          Channels,   \* analog channels
          Formats,    \* transfer formats
          MaxGen      \* bound on the captures the scope makes

VARIABLES gen,        \* which capture the scope's memory holds
          request,    \* the channel and format the caller asked for
          upset,      \* a run is still to be obeyed, or replies are owed
          doubt,      \* the read has gone on while upset
          answer      \* what the caller has: a status and the samples

vars == <<gen, request, upset, doubt, answer>>

Requests == [source : Channels, format : Formats]

(* One sample: the capture, channel and format it comes from and its place. *)
Sample(g, r, i) == [gen |-> g, source |-> r.source, format |-> r.format, pos |-> i]

WholeRecord(g, r) == [i \in 1..Depth |-> Sample(g, r, i)]

Anything == Seq([gen : 0..MaxGen, source : Channels, format : Formats, pos : Nat])

Reading == answer.status = "reading"

Init == /\ gen \in 0..MaxGen
        /\ request \in Requests
        /\ upset \in BOOLEAN
        /\ doubt = FALSE
        /\ answer = [status |-> "reading", samples |-> << >>]

(* The scope captures again, into the same memory. *)
Capture == /\ gen < MaxGen
           /\ gen' = gen + 1
           /\ upset' \in BOOLEAN
           /\ UNCHANGED <<request, doubt, answer>>

(* The scope or the read goes on; a read becomes doubtful only while upset. *)
Proceed == /\ upset' \in BOOLEAN
           /\ \/ doubt' = doubt
              \/ Reading /\ upset' /\ doubt' = TRUE
           /\ UNCHANGED <<gen, request, answer>>

Deliver == /\ Reading
           /\ IF doubt
                THEN answer' \in [status : {"ok"}, samples : Anything]
                ELSE answer' = [status |-> "ok", samples |-> WholeRecord(gen, request)]
           /\ upset' \in BOOLEAN
           /\ UNCHANGED <<gen, request, doubt>>

Refuse == /\ Reading
          /\ answer' = [status |-> "error", samples |-> << >>]
          /\ upset' \in BOOLEAN
          /\ doubt' \in BOOLEAN
          /\ UNCHANGED <<gen, request>>

Ask == /\ ~Reading
       /\ request' \in Requests
       /\ answer' = [status |-> "reading", samples |-> << >>]
       /\ upset' \in BOOLEAN
       /\ doubt' = FALSE
       /\ UNCHANGED gen

Next == Capture \/ Proceed \/ Deliver \/ Refuse \/ Ask

(* Every question is answered: a delivery and a refusal are possible as long *)
(* as there is one, so this asks no more than fairness of the two.           *)
Spec == Init /\ [][Next]_vars /\ []<>(~Reading)
=============================================================================
