--------------------------- MODULE ThreadSafeQueue ---------------------------
(***************************************************************************)
(* ThreadSafeContainer and ThreadSafeQueue of src/cpp/core/threadsafequeue.h *)
(* with the threads that call them.  The mutex is held from the start of a *)
(* call to its return or to its wait, so that stretch is one action; a     *)
(* thread that waits on a condition variable is in its wait set and leaves *)
(* it when notified, or spontaneously, to test its condition again.        *)
(*                                                                         *)
(* A client of the queue is a producer, which pushes some elements, or a   *)
(* consumer, which calls waitPop until it returns false, as the loops that *)
(* write games and answers do.                                             *)
(***************************************************************************)
EXTENDS Integers, Sequences, FiniteSets

CONSTANTS Producers, Consumers,
          maxSize,    (* a waitPush does not make the queue longer than this *)
          MaxSends    (* bound: the elements a producer pushes *)

ASSUME QueueAssumption ==
    /\ maxSize \in Nat \ {0}
    /\ MaxSends \in Nat
    /\ Producers \cap Consumers = {}

VARIABLES
    elts, headIdx,       (* the vector, and how many of its front are popped *)
    closed, readOnly,
    notEmptyCondVar,     (* the threads waiting on it *)
    notFullCondVar,
    inCall,              (* the call a thread is in *)
    sent,                (* how many pushes a producer has completed *)
    accepted, delivered  (* history variables: elements pushed, and popped *)

queueVars == <<elts, headIdx, closed, readOnly>>
history == <<accepted, delivered>>
allVars == <<queueVars, notEmptyCondVar, notFullCondVar, inCall, sent, history>>

Threads == Producers \cup Consumers
Elements == Producers \X (1..MaxSends)
-----------------------------------------------------------------------------
sizeUnsynchronized == Len(elts) - headIdx

pushUnsynchronized(e) == /\ elts' = Append(elts, e)
                         /\ accepted' = Append(accepted, e)
                         /\ UNCHANGED <<headIdx, delivered>>

CompactKeepingHead ==  \* mutant of Compact: headIdx is not reset
    /\ elts' = SubSeq(elts, headIdx + 2, Len(elts))
    /\ headIdx' = headIdx + 1

(* Once more than half of the vector is popped, the rest is moved to its front. *)
Compact == /\ elts' = SubSeq(elts, headIdx + 2, Len(elts))
           /\ headIdx' = 0

popBack ==  \* mutant of popUnsynchronized: a stack
    /\ delivered' = Append(delivered, elts[Len(elts)])
    /\ elts' = SubSeq(elts, 1, Len(elts) - 1)
    /\ UNCHANGED <<headIdx, accepted>>

popUnsynchronized ==
    /\ delivered' = Append(delivered, elts[headIdx + 1])
    /\ IF headIdx + 1 > Len(elts) \div 2
       THEN Compact
       ELSE headIdx' = headIdx + 1 /\ UNCHANGED elts
    /\ UNCHANGED accepted

notifyLast ==  \* mutant of notifyNotFull: it looks at the size after the pop
    notFullCondVar' = IF sizeUnsynchronized - 1 = maxSize THEN {} ELSE notFullCondVar

notifyNotFull ==
    notFullCondVar' = IF sizeUnsynchronized = maxSize THEN {} ELSE notFullCondVar

(* After a push: the size is now 1. *)
notifyNotEmpty ==
    notEmptyCondVar' = IF sizeUnsynchronized = 0 THEN {} ELSE notEmptyCondVar
-----------------------------------------------------------------------------
QueueInit ==
    /\ elts = <<>> /\ headIdx = 0
    /\ closed = FALSE /\ readOnly = FALSE
    /\ notEmptyCondVar = {} /\ notFullCondVar = {}
    /\ inCall = [t \in Threads |-> "idle"]
    /\ sent = [p \in Producers |-> 0]
    /\ accepted = <<>> /\ delivered = <<>>

Return(t) == inCall' = [inCall EXCEPT ![t] = "idle"]

(* The end of waitPush and forcePush: a queue that is closed or read only  *)
(* drops the element.                                                     *)
FinishPush(p) ==
    /\ sent' = [sent EXCEPT ![p] = @ + 1]
    /\ \/ /\ closed \/ readOnly
          /\ UNCHANGED <<elts, headIdx, history, notEmptyCondVar>>
       \/ /\ ~closed /\ ~readOnly
          /\ pushUnsynchronized(<<p, sent[p] + 1>>)
          /\ notifyNotEmpty
    /\ UNCHANGED <<closed, readOnly, notFullCondVar>>

CallWaitPush(p) ==
    /\ inCall[p] = "idle" /\ sent[p] < MaxSends
    /\ inCall' = [inCall EXCEPT ![p] = "waitPush"]
    /\ UNCHANGED <<queueVars, notEmptyCondVar, notFullCondVar, sent, history>>

MustWaitToPush == ~closed /\ ~readOnly /\ sizeUnsynchronized >= maxSize

WaitToPush(p) ==
    /\ inCall[p] = "waitPush" /\ p \notin notFullCondVar
    /\ MustWaitToPush
    /\ notFullCondVar' = notFullCondVar \cup {p}
    /\ UNCHANGED <<queueVars, notEmptyCondVar, inCall, sent, history>>

waitPush(p) ==
    /\ inCall[p] = "waitPush" /\ p \notin notFullCondVar
    /\ ~MustWaitToPush
    /\ FinishPush(p)
    /\ Return(p)

forcePush(p) ==
    /\ inCall[p] = "idle" /\ sent[p] < MaxSends
    /\ FinishPush(p)
    /\ UNCHANGED inCall

(* The end of tryPop and waitPop when there is something to pop. *)
FinishPop ==
    /\ notifyNotFull
    /\ popUnsynchronized
    /\ UNCHANGED <<closed, readOnly, notEmptyCondVar, sent>>

tryPop(c) ==
    /\ inCall[c] = "idle"
    /\ ~closed /\ sizeUnsynchronized > 0
    /\ FinishPop
    /\ UNCHANGED inCall

CallWaitPop(c) ==
    /\ inCall[c] = "idle"
    /\ inCall' = [inCall EXCEPT ![c] = "waitPop"]
    /\ UNCHANGED <<queueVars, notEmptyCondVar, notFullCondVar, sent, history>>

MustWaitToPop == ~closed /\ ~readOnly /\ sizeUnsynchronized <= 0

WaitToPop(c) ==
    /\ inCall[c] = "waitPop" /\ c \notin notEmptyCondVar
    /\ MustWaitToPop
    /\ notEmptyCondVar' = notEmptyCondVar \cup {c}
    /\ UNCHANGED <<queueVars, notFullCondVar, inCall, sent, history>>

(* waitPop returns an element, or false, and then the consumer stops. *)
waitPop(c) ==
    /\ inCall[c] = "waitPop" /\ c \notin notEmptyCondVar
    /\ ~MustWaitToPop
    /\ \/ /\ ~closed /\ sizeUnsynchronized > 0
          /\ FinishPop
          /\ Return(c)
       \/ /\ closed \/ sizeUnsynchronized <= 0
          /\ inCall' = [inCall EXCEPT ![c] = "stopped"]
          /\ UNCHANGED <<queueVars, notEmptyCondVar, notFullCondVar, sent, history>>

close ==
    /\ closed' = TRUE
    /\ elts' = <<>>
    /\ notEmptyCondVar' = {} /\ notFullCondVar' = {}
    /\ UNCHANGED <<headIdx, readOnly, inCall, sent, history>>

readOnlyWithoutNotify ==  \* mutant of setReadOnly: the popping threads are forgotten
    /\ readOnly' = TRUE
    /\ notFullCondVar' = {}
    /\ UNCHANGED <<elts, headIdx, closed, notEmptyCondVar, inCall, sent, history>>

setReadOnly ==
    /\ readOnly' = TRUE
    /\ notEmptyCondVar' = {} /\ notFullCondVar' = {}
    /\ UNCHANGED <<elts, headIdx, closed, inCall, sent, history>>

SpuriousWakeup(t) ==
    /\ t \in notEmptyCondVar \cup notFullCondVar
    /\ notEmptyCondVar' = notEmptyCondVar \ {t}
    /\ notFullCondVar' = notFullCondVar \ {t}
    /\ UNCHANGED <<queueVars, inCall, sent, history>>

Produce(p) == CallWaitPush(p) \/ WaitToPush(p) \/ waitPush(p) \/ forcePush(p)
Consume(c) == CallWaitPop(c) \/ WaitToPop(c) \/ waitPop(c)

QueueNext ==
    \/ \E p \in Producers : Produce(p)
    \/ \E c \in Consumers : Consume(c) \/ tryPop(c)
    \/ close \/ setReadOnly
    \/ \E t \in Threads : SpuriousWakeup(t)

QueueSpec == QueueInit /\ [][QueueNext]_allVars

(* A thread inside a call goes on, and the loop of a consumer calls again. *)
QueueFairness ==
    /\ \A p \in Producers : WF_allVars(WaitToPush(p) \/ waitPush(p))
    /\ \A c \in Consumers : WF_allVars(Consume(c))
QueueFairSpec == QueueSpec /\ QueueFairness
-----------------------------------------------------------------------------
(* Every variable has its type, a wait set holds threads in the call that  *)
(* waits on it, and a producer in waitPush has an element left to push.    *)
QueueTypeOK ==
    /\ elts \in Seq(Elements) /\ headIdx \in Nat
    /\ closed \in BOOLEAN /\ readOnly \in BOOLEAN
    /\ notEmptyCondVar \subseteq {c \in Consumers : inCall[c] = "waitPop"}
    /\ notFullCondVar \subseteq {p \in Producers : inCall[p] = "waitPush"}
    /\ inCall \in [Threads -> {"idle", "waitPush", "waitPop", "stopped"}]
    /\ sent \in [Producers -> 0..MaxSends]
    /\ \A p \in Producers : inCall[p] = "waitPush" => sent[p] < MaxSends
    /\ accepted \in Seq(Elements) /\ delivered \in Seq(Elements)

(* No wakeup is lost.  push notifies only when it makes the size 1 and pop *)
(* only when the size was maxSize, yet no thread is left waiting for an    *)
(* element while there is one, nor for room while there is some, nor on a  *)
(* queue that will never let it through.                                  *)
NoLostWakeup ==
    /\ notEmptyCondVar # {} => MustWaitToPop
    /\ notFullCondVar # {} => MustWaitToPush

(* While the queue is open at most half of the vector is popped elements,  *)
(* so its size is defined and the queue's memory is at most twice what it  *)
(* holds, and what it holds is exactly what went in and did not come out.  *)
HoldsTheRest ==
    ~closed =>
        /\ headIdx <= Len(elts) \div 2
        /\ Len(accepted) = Len(delivered) + sizeUnsynchronized
        /\ \A i \in 1..sizeUnsynchronized :
              elts[headIdx + i] = accepted[Len(delivered) + i]

(* The queue implements a FIFO channel.                                    *)
Channel == INSTANCE FifoChannel WITH
               writable <- ~closed /\ ~readOnly,
               readable <- ~closed
IsFifoChannel == Channel!Spec

(* All blocked threads unblock when the queue is closed or made read only. *)
BlockedCallsReturn ==
    \A t \in Threads :
        (closed \/ readOnly) /\ inCall[t] \in {"waitPush", "waitPop"}
            ~> inCall[t] \notin {"waitPush", "waitPop"}

(* As long as the consumers loop, what went in comes out unless the queue  *)
(* is closed: in particular setReadOnly does not lose what is in it.       *)
AcceptedIsDelivered ==
    \A n \in 1..MaxSends * Cardinality(Producers) :
        Len(accepted) >= n ~> (closed \/ Len(delivered) >= n)

(* A push that waits for room gets through, because the consumers go on.   *)
WaitingPushReturns ==
    \A p \in Producers : inCall[p] = "waitPush" ~> inCall[p] = "idle"

(* No call blocks for ever, and nothing stays in the queue.                *)
CallsGoOn == BlockedCallsReturn /\ AcceptedIsDelivered /\ WaitingPushReturns
=============================================================================
