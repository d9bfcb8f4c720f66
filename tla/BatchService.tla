---------------------------- MODULE BatchService ----------------------------
(***************************************************************************)
(* What an NNEvaluator promises, without its ring of buffers, its locks or *)
(* its condition variables.  Requests queue in the order in which they are *)
(* made; a server thread takes the front of the queue, as many as there    *)
(* are up to maxNumRows, and answers each of them once, in order.          *)
(***************************************************************************)
EXTENDS Naturals, Sequences

CONSTANTS Clients, Servers, maxNumRows
VARIABLES queue,     (* the clients whose requests no server has taken *)
          batch,     (* the clients a server has taken and not yet answered *)
          answered   (* the clients that have an answer to fetch *)

vars == <<queue, batch, answered>>

Init == /\ queue = <<>>
        /\ batch = [s \in Servers |-> <<>>]
        /\ answered = {}

Asking == {queue[i] : i \in 1..Len(queue)}
          \cup UNION {{batch[s][i] : i \in 1..Len(batch[s])} : s \in Servers}

Ask(c) == /\ c \notin Asking \cup answered
          /\ queue' = Append(queue, c)
          /\ UNCHANGED <<batch, answered>>

Take(s) == LET n == IF Len(queue) < maxNumRows THEN Len(queue) ELSE maxNumRows IN
           /\ batch[s] = <<>> /\ queue # <<>>
           /\ batch' = [batch EXCEPT ![s] = SubSeq(queue, 1, n)]
           /\ queue' = SubSeq(queue, n + 1, Len(queue))
           /\ UNCHANGED answered

Answer(s) == /\ batch[s] # <<>>
             /\ batch' = [batch EXCEPT ![s] = Tail(@)]
             /\ answered' = answered \cup {Head(batch[s])}
             /\ UNCHANGED queue

Fetch(c) == /\ c \in answered
            /\ answered' = answered \ {c}
            /\ UNCHANGED <<queue, batch>>

Next == \/ \E c \in Clients : Ask(c) \/ Fetch(c)
        \/ \E s \in Servers : Take(s) \/ Answer(s)

Spec == Init /\ [][Next]_vars
=============================================================================
