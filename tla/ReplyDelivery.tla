---------------------------- MODULE ReplyDelivery ----------------------------
(***************************************************************************)
(* What a request and reply connection whose replies carry no name of      *)
(* their request promises a caller that waits with a time-out.  As long as *)
(* no call has failed, a call returns the reply to its own request.  A     *)
(* failed call may leave its reply behind: the calls after it return the   *)
(* whole reply to one of the requests so far, or, when a reply has been    *)
(* left in the middle, anything.  Only a new connection makes it good.     *)
(***************************************************************************)
EXTENDS Integers

CONSTANTS MaxQueries \* bound on the requests sent over one connection

VARIABLES asked,  \* requests sent over this connection
          open,   \* a call waits for its reply
          trust,  \* what a reply can be taken for
          answer  \* the request whose reply the last call returned

vars == <<asked, open, trust, answer>>

Own     == 2 \* the reply to the request just sent
Earlier == 1 \* the whole reply to one of the requests
Nothing == 0

Unknown  == 0  \* a reply to no request: bytes out of place
NoAnswer == -1 \* a new connection, or a call in progress
Failed   == -2

Deliverable == CASE trust = Own     -> {asked}
                 [] trust = Earlier -> 1..asked
                 [] OTHER           -> {Unknown} \cup 1..asked

Init == asked = 0 /\ open = FALSE /\ trust = Own /\ answer = NoAnswer

Ask == /\ ~open /\ asked < MaxQueries
       /\ asked' = asked + 1 /\ open' = TRUE /\ answer' = NoAnswer
       /\ UNCHANGED trust

Deliver == /\ open
           /\ open' = FALSE /\ answer' \in Deliverable
           /\ UNCHANGED <<asked, trust>>

Fail == /\ open
        /\ open' = FALSE /\ answer' = Failed
        /\ trust' \in Nothing..trust
        /\ UNCHANGED asked

Reconnect == /\ ~open
             /\ asked' = 0 /\ trust' = Own /\ answer' = NoAnswer
             /\ UNCHANGED open

Next == Ask \/ Deliver \/ Fail \/ Reconnect

Spec == Init /\ [][Next]_vars /\ WF_vars(Deliver \/ Fail)
=============================================================================
