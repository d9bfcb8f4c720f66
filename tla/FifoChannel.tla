----------------------------- MODULE FifoChannel -----------------------------
(***************************************************************************)
(* What a ThreadSafeQueue promises its clients, without threads, locks or  *)
(* the vector it is made of: elements come out once, in the order they     *)
(* went in; a read-only channel takes no more elements and gives out those *)
(* it has; a closed one does neither.                                      *)
(***************************************************************************)
EXTENDS Naturals, Sequences

CONSTANT Elements
VARIABLES accepted,   (* every element that went in, in order *)
          delivered,  (* every element that came out, in order *)
          writable, readable

vars == <<accepted, delivered, writable, readable>>

Init == /\ accepted = <<>> /\ delivered = <<>>
        /\ writable = TRUE /\ readable = TRUE

Put(e) == /\ writable
          /\ accepted' = Append(accepted, e)
          /\ UNCHANGED <<delivered, writable, readable>>

Get == /\ readable
       /\ Len(delivered) < Len(accepted)
       /\ delivered' = Append(delivered, accepted[Len(delivered) + 1])
       /\ UNCHANGED <<accepted, writable, readable>>

StopWriting == writable' = FALSE /\ UNCHANGED <<accepted, delivered, readable>>
StopAll == writable' = FALSE /\ readable' = FALSE /\ UNCHANGED <<accepted, delivered>>

Next == (\E e \in Elements : Put(e)) \/ Get \/ StopWriting \/ StopAll

Spec == Init /\ [][Next]_vars
=============================================================================
