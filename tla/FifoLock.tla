------------------------------ MODULE FifoLock ------------------------------
(***************************************************************************)
(* What a registry of locks promises: the callers of a lock run one at a   *)
(* time, in the order in which they called; one that ends lets the next    *)
(* one run; different locks have nothing to do with each other.            *)
(***************************************************************************)
EXTENDS Sequences, Naturals

CONSTANTS Locks, Callers

VARIABLE lines  \* lines[l]: the callers of l that have not ended, in order

Init == lines = [l \in Locks |-> <<>>]

\* A caller that is not in line comes last.
Calls(line, next) ==
  \E c \in Callers : (\A i \in 1 .. Len(line) : line[i] # c) /\ next = Append(line, c)

\* Only the caller at the head has been let in, so only it can end.
Ends(line, next) == line # <<>> /\ next = Tail(line)

Next ==
  LET before == lines
      after == lines'
  IN \E l \in Locks :
       /\ \A m \in Locks \ {l} : after[m] = before[m]
       /\ Calls(before[l], after[l]) \/ Ends(before[l], after[l])

Spec == Init /\ [][Next]_lines
=============================================================================
