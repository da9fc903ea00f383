-------------------------- MODULE AggregateHistory --------------------------
(***************************************************************************)
(* What the write side promises of every versioned record (an aggregate, a *)
(* saga instance), whatever the persistence mode and the concurrency       *)
(* strategy: its history only grows, each time by the events of one unit   *)
(* of work, all decided on exactly the history that precedes them.         *)
(***************************************************************************)
EXTENDS Naturals, Sequences

CONSTANTS
  Calls,     \* who writes: the dispatched commands, the delivered events
  Records    \* what is written

VARIABLE history   \* per record, what it is made of

HistoryInit == history = [r \in Records |-> << >>]

\* The unit of work of c, decided on the history so far, extends r or leaves it.
Extends(r, c) ==
  LET old == history[r]
      new == history'[r]
  IN /\ Len(old) <= Len(new) /\ SubSeq(new, 1, Len(old)) = old
     /\ \A i \in Len(old) + 1 .. Len(new) : new[i].by = c /\ new[i].saw = Len(old)

\* One unit of work may extend several records, all at once.
HistoryNext ==
  /\ DOMAIN history' = Records
  /\ \E c \in Calls : \A r \in Records : Extends(r, c)

HistorySpec == HistoryInit /\ [][HistoryNext]_history
=============================================================================
