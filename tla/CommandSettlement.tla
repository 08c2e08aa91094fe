-------------------------- MODULE CommandSettlement --------------------------
(***************************************************************************)
(* What a durable command service promises its producers, whatever crashes *)
(* and whatever fails: each entry of the command stream gets at most one   *)
(* output, each request at most one verdict and at most one effect, the    *)
(* verdict is Accepted exactly when the effect was had, a request with a   *)
(* verdict never has an effect later, and only the command that got the    *)
(* verdict is answered as its duplicate.                                   *)
(***************************************************************************)
EXTENDS Naturals, Sequences

CONSTANTS Requests, Commands, Poison, Streams, None

VARIABLES stream,    \* the command stream
          output,    \* what was published for each entry
          verdict,   \* the canonical answer of each request: a command and its status
          effects    \* effects had for each request

vars == <<stream, output, verdict, effects>>

Statuses == {"Accepted", "Rejected", "Expired"}

Init ==
    /\ stream \in Streams
    /\ output = [e \in 1..Len(stream) |-> <<>>]
    /\ verdict = [r \in Requests |-> None]
    /\ effects \in [Requests -> {0, 1}]

Perform(r) ==
    /\ effects[r] = 0 /\ verdict[r] = None
    /\ effects' = [effects EXCEPT ![r] = 1]
    /\ UNCHANGED <<stream, output, verdict>>

Publish(e, what) ==
    /\ output[e] = <<>>
    /\ output' = [output EXCEPT ![e] = <<what>>]

Answer(e, status) ==
    /\ stream[e] # Poison
    /\ verdict[stream[e].req] = None
    /\ status = "Accepted" <=> effects[stream[e].req] = 1
    /\ Publish(e, status)
    /\ verdict' = [verdict EXCEPT ![stream[e].req] = [cmd |-> stream[e], status |-> status]]
    /\ UNCHANGED <<stream, effects>>

Repeat(e) ==
    /\ stream[e] # Poison
    /\ verdict[stream[e].req] # None /\ verdict[stream[e].req].cmd = stream[e]
    /\ Publish(e, "Duplicate")
    /\ UNCHANGED <<stream, verdict, effects>>

DeadLetter(e) ==
    /\ stream[e] = Poison
    /\ Publish(e, "Dlq")
    /\ UNCHANGED <<stream, verdict, effects>>

Next ==
    \/ \E r \in Requests : Perform(r)
    \/ \E e \in 1..Len(stream) :
          (\E status \in Statuses : Answer(e, status)) \/ Repeat(e) \/ DeadLetter(e)

Spec == Init /\ [][Next]_vars
==============================================================================
