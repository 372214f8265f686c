----------------------------- MODULE ChangeFeed -----------------------------
(***************************************************************************)
(* What a vault's coordinator promises to the clients that read it by      *)
(* cursor: a sequence of changes, each of one entry, of which the entry    *)
(* keeps the last.  A reader that has processed every position up to c     *)
(* and then reads the entries placed after c, up to the head, misses       *)
(* nothing.                                                                *)
(***************************************************************************)
EXTENDS Naturals

CONSTANTS Entries, Blobs, NoBlob

VARIABLES
  head,   \* the position of the last change
  feed    \* per entry: its revision, its blob and the position of its change

feedVars == <<head, feed>>

Init ==
  /\ head = 0
  /\ feed = [e \in Entries |-> [revision |-> 0, blob |-> NoBlob, seq |-> 0]]

\* A change of e takes the next revision of e and the next position.
Change(e, b) ==
  /\ head' = head + 1
  /\ feed' = [feed EXCEPT ![e] =
                [revision |-> feed[e].revision + 1, blob |-> b, seq |-> head + 1]]

Next == \E e \in Entries, b \in Blobs \union {NoBlob} : Change(e, b)

Spec == Init /\ [][Next]_feedVars
=============================================================================
