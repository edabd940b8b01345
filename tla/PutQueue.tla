------------------------------ MODULE PutQueue ------------------------------
(***************************************************************************)
(* What the operations of the app rely on when they call setValue: a queue *)
(* of puts that the server stores in order, one after the other, and whose *)
(* completion blocks run in that order.  A lost connection forgets which   *)
(* of the unanswered puts were stored, so they are stored once more.       *)
(***************************************************************************)
EXTENDS Naturals, Sequences

CONSTANT Puts   \* the setValues, each queued once

VARIABLES
    queue,    \* the puts whose block has not run
    answered, \* how many of them have been answered
    stored,   \* how many of them this connection has stored or refused
    last      \* the put that the server stored last

Init == queue = <<>> /\ answered = 0 /\ stored = 0 /\ last = 0

Put == /\ \E p \in Puts : queue' = Append(queue, p)
       /\ UNCHANGED <<answered, stored, last>>

Store == /\ stored < Len(queue)
         /\ stored' = stored + 1
         /\ last' \in {last, queue[stored']}
         /\ UNCHANGED <<queue, answered>>

Answer == /\ answered < stored
          /\ answered' = answered + 1
          /\ UNCHANGED <<queue, stored, last>>

\* The blocks of the first n puts run
Run(n) == /\ n \in 1..stored
          /\ queue' = SubSeq(queue, n + 1, Len(queue))
          /\ answered' = IF n <= answered THEN answered - n ELSE 0
          /\ stored' = stored - n
          /\ UNCHANGED last

Lose == /\ stored' = answered
        /\ UNCHANGED <<queue, answered, last>>

Next == \/ Put \/ Store \/ Answer \/ Lose \/ \E n \in 1..stored : Run(n)

Spec == Init /\ [][Next]_<<queue, answered, stored, last>>
=============================================================================
