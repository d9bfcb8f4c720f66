---------------------------- MODULE WaitableFlag ----------------------------
(***************************************************************************)
(* WaitableFlag of src/cpp/core/threadsafecounter.h: a flag that threads   *)
(* set under a mutex, and that others wait for.  A thread that waits reads *)
(* the flag before it takes the mutex, and inside the mutex it goes by     *)
(* what it read, so reading and going to sleep are two steps.              *)
(***************************************************************************)
EXTENDS FiniteSets

CONSTANT Threads
VARIABLES value, finished,
          condVar,  (* [b |-> the threads waiting on trueCondVar, falseCondVar] *)
          pc, want  (* the call a thread is in, and the value it waits for *)

vars == <<value, finished, condVar, pc, want>>

Init == /\ value = FALSE /\ finished = FALSE
        /\ condVar = [b \in BOOLEAN |-> {}]
        /\ pc = [t \in Threads |-> "idle"]
        /\ want = [t \in Threads |-> FALSE]

set(b) == /\ ~finished
          /\ value' = b
          /\ condVar' = [condVar EXCEPT ![b] = {}]
          /\ UNCHANGED <<finished, pc, want>>

setPermanently(b) == /\ ~finished
                     /\ finished' = TRUE
                     /\ value' = b
                     /\ condVar' = [condVar EXCEPT ![b] = {}]
                     /\ UNCHANGED <<pc, want>>

(* waitUntilFalse and waitUntilTrue, up to the lock: the flag has the other value. *)
WaitUntil(t, b) == /\ pc[t] = "idle"
                   /\ value # b
                   /\ want' = [want EXCEPT ![t] = b]
                   /\ pc' = [pc EXCEPT ![t] = "locking"]
                   /\ UNCHANGED <<value, finished, condVar>>

(* The first turn of the loop does not read the flag again. *)
LockAndWait(t) == /\ pc[t] = "locking"
                  /\ pc' = [pc EXCEPT ![t] = "waiting"]
                  /\ condVar' = [condVar EXCEPT ![want[t]] = @ \cup {t}]
                  /\ UNCHANGED <<value, finished, want>>

Wake(t) == /\ pc[t] = "waiting" /\ t \notin condVar[want[t]]
           /\ IF value = want[t]
              THEN pc' = [pc EXCEPT ![t] = "idle"] /\ UNCHANGED condVar
              ELSE condVar' = [condVar EXCEPT ![want[t]] = @ \cup {t}] /\ UNCHANGED pc
           /\ UNCHANGED <<value, finished, want>>

SpuriousWakeup(t) == /\ t \in condVar[want[t]]
                     /\ condVar' = [condVar EXCEPT ![want[t]] = @ \ {t}]
                     /\ UNCHANGED <<value, finished, pc, want>>

Next == \/ \E b \in BOOLEAN : set(b) \/ setPermanently(b) \/ \E t \in Threads : WaitUntil(t, b)
        \/ \E t \in Threads : LockAndWait(t) \/ Wake(t) \/ SpuriousWakeup(t)

FairSpec == /\ Init /\ [][Next]_vars
            /\ \A t \in Threads : WF_vars(LockAndWait(t) \/ Wake(t))
-----------------------------------------------------------------------------
(* Once the flag has its last value, every thread that waits for that      *)
(* value goes on: "This should make sure stuff stops pausing", says        *)
(* contribute.cpp where it calls shouldPause->setPermanently(false).       *)
LastValueReleases ==
    \A t \in Threads : finished /\ pc[t] # "idle" /\ want[t] = value ~> pc[t] = "idle"
=============================================================================
