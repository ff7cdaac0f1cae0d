------------------------------ MODULE SlotPool ------------------------------
(***************************************************************************)
(* What the listener's worker_slots semaphore promises, with no semaphore  *)
(* in it: at most Capacity jobs run at a time; a delivery is turned away   *)
(* only while exactly Capacity jobs run; a job that runs comes to an end.  *)
(* Listener implements this specification (see Listener!Pool).             *)
(***************************************************************************)
EXTENDS Naturals, FiniteSets

CONSTANTS
  Deliveries,  \* the webhook deliveries
  Capacity     \* how many jobs may run at a time (max_concurrent_jobs)

VARIABLE stage  \* stage[d]: how far delivery d has come

Stages == {"unseen", "ignored", "refused", "running", "ended"}

Running == {d \in Deliveries : stage[d] = "running"}

\* The promise: never more jobs than slots.
WithinCapacity == Cardinality(Running) <= Capacity

PoolInit == stage = [d \in Deliveries |-> "unseen"]

Move(d, from, to) == /\ stage[d] = from
                     /\ stage' = [stage EXCEPT ![d] = to]

\* A delivery that needs no job: bad signature, ping, unsubscribed event.
Ignore(d) == Move(d, "unseen", "ignored")

Admit(d) == /\ Cardinality(Running) < Capacity
            /\ Move(d, "unseen", "running")

Refuse(d) == /\ Cardinality(Running) = Capacity
             /\ Move(d, "unseen", "refused")

End(d) == Move(d, "running", "ended")

\* The process dies: every running job ends at once and the pool is empty.
Reset == stage' = [d \in Deliveries |->
                     IF stage[d] = "running" THEN "ended" ELSE stage[d]]

PoolNext == \/ \E d \in Deliveries : Ignore(d) \/ Admit(d) \/ Refuse(d) \/ End(d)
            \/ Reset

PoolSafety == PoolInit /\ [][PoolNext]_stage

PoolSpec == /\ PoolSafety
            /\ \A d \in Deliveries : WF_stage(End(d))

=============================================================================
