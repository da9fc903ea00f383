----------------------------- MODULE KeyedMutex -----------------------------
(***************************************************************************)
(* What an AggregateLocker promises (the interface of                      *)
(* core/src/persistence/aggregate-locker.ts): one exclusive lock per       *)
(* aggregate key, which changes hands only by the act of its holder.       *)
(***************************************************************************)
CONSTANTS Clients,  \* the code paths that acquire locks
          Keys      \* the lock keys, `${aggregateName}:${aggregateId}`

VARIABLE holders    \* who holds each key: nobody or one client

MutexInit == holders = [k \in Keys |-> {}]

Grant(u, k) ==
  /\ holders[k] = {}
  /\ holders' = [holders EXCEPT ![k] = {u}]

GiveUp(u, k) ==
  /\ holders[k] = {u}
  /\ holders' = [holders EXCEPT ![k] = {}]

\* A release that finds a waiter gives it the lock in the same step.
HandOver(u, v, k) ==
  /\ holders[k] = {u}
  /\ holders' = [holders EXCEPT ![k] = {v}]

MutexNext ==
  \E u \in Clients, k \in Keys :
    \/ Grant(u, k)
    \/ GiveUp(u, k)
    \/ \E v \in Clients : HandOver(u, v, k)

MutexSpec == MutexInit /\ [][MutexNext]_holders
=============================================================================
