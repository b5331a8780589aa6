--------------------------- MODULE TaskLifecycle ---------------------------
(***************************************************************************)
(* What the control plane promises about one durable task, whoever runs    *)
(* it: at-least-once delivery with a bounded number of deliveries, one     *)
(* irrevocable outcome, and no delivery after a cancellation was asked     *)
(* for.  Workers, leases and files do not appear here; TaskQueue, the      *)
(* file-backed queue, is shown to implement this contract.                 *)
(***************************************************************************)
EXTENDS Naturals

CONSTANTS TaskIds,        \* identities of the tasks
          MaxDeliveries   \* how often a task may be handed to a worker, at least once

VARIABLES phase,      \* phase[t]: how far task t has come
          deliveries, \* deliveries[t]: times t was handed to a worker
          stopping    \* the tasks whose cancellation has been requested

vars == <<phase, deliveries, stopping>>

Outcomes == {"succeeded", "failed", "cancelled"}
Phases   == {"none", "queued", "delivered"} \cup Outcomes

TypeOK == /\ phase \in [TaskIds -> Phases]
          /\ deliveries \in [TaskIds -> 0 .. MaxDeliveries]
          /\ stopping \in SUBSET TaskIds

Init == /\ phase = [t \in TaskIds |-> "none"]
        /\ deliveries = [t \in TaskIds |-> 0]
        /\ stopping = {}

----------------------------------------------------------------------------
(* What may happen to one task in one step; a step may move several tasks. *)

Submit(t) ==                          \* the task's file is created
  /\ phase[t] = "none" /\ phase'[t] = "queued"
  /\ deliveries'[t] = 0 /\ t \notin stopping'

Withdraw(t) ==                        \* a creation that is rolled back
  /\ phase[t] = "queued" /\ phase'[t] = "none"
  /\ deliveries'[t] = 0 /\ t \notin stopping'

Deliver(t) ==                         \* first delivery or a redelivery
  /\ phase[t] \in {"queued", "delivered"} /\ phase'[t] = "delivered"
  /\ t \notin stopping /\ t \notin stopping'
  /\ deliveries'[t] = deliveries[t] + 1

RequestCancel(t) ==                   \* queued work stops at once
  /\ \/ phase[t] = "queued" /\ phase'[t] = "cancelled"
     \/ phase[t] = "delivered" /\ phase'[t] = "delivered"
  /\ t \in stopping'
  /\ deliveries'[t] = deliveries[t]

Conclude(t) ==                        \* exactly one outcome, after delivery
  /\ phase[t] = "delivered" /\ phase'[t] \in Outcomes
  /\ deliveries'[t] = deliveries[t] /\ (t \in stopping' <=> t \in stopping)

Idle(t) == /\ phase'[t] = phase[t]
           /\ deliveries'[t] = deliveries[t]
           /\ (t \in stopping' <=> t \in stopping)

Step(t) == Submit(t) \/ Withdraw(t) \/ Deliver(t) \/ RequestCancel(t)
             \/ Conclude(t) \/ Idle(t)

\* One poll hands over at most one task.
AtMostOneDelivery ==
  \A t, u \in TaskIds : deliveries'[t] > deliveries[t] /\ deliveries'[u] > deliveries[u] => t = u

Next == /\ TypeOK'
        /\ \A t \in TaskIds : Step(t)
        /\ AtMostOneDelivery

Spec == Init /\ [][Next]_vars
=============================================================================
