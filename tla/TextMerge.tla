------------------------------ MODULE TextMerge ------------------------------
(***************************************************************************)
(* The three-way merge of a note that two devices have edited              *)
(* (apps/obsidian-plugin/src/sync/engine/text-merge): the lines that       *)
(* changed on each side are found with a longest common subsequence, and   *)
(* the changes of the two sides are put together unless they meet.         *)
(*                                                                         *)
(* A text is the sequence of its lines; a line has a content, and only the *)
(* last may lack its end.  The local and the remote text are what a few    *)
(* edits have made of the base.                                            *)
(***************************************************************************)
EXTENDS Naturals, Sequences, SequencesExt

CONSTANTS
  Contents,   \* what an edit writes in a line: sequences of words
  Bases,      \* what both sides start from: sequences of contents
  Separator,  \* the word that is a Unicode line separator
  NoMerge,   \* the answer that there is no merge
  MaxCells,   \* MAX_LCS_CELLS
  MaxEdits    \* bound: edits of each side

VARIABLES
  common,       \* the text both sides have had
  here, there,  \* what has become of it on the two devices
  edits         \* how much of the bound is used up

vars == <<common, here, there, edits>>

-----------------------------------------------------------------------------
(* Texts. *)

Larger(a, b) == IF a > b THEN a ELSE b

Line(c) == [content |-> c, ended |-> TRUE]

\* The pattern takes a separator neither for a part of a line nor for its end: a match
\* begins after the last one of the line.
SplitLines(text) ==
  LET AfterSeparator(c) ==
        SubSeq(c, 1 + FoldLeft(Larger, 0, [k \in DOMAIN c |-> IF c[k] = Separator THEN k ELSE 0]),
               Len(c))
  IN  [k \in DOMAIN text |-> [text[k] EXCEPT !.content = AfterSeparator(@)]]

\* A line that has no end runs into the one put after it.
Joined(lines) ==
  LET Add(text, l) ==
        IF text = <<>> \/ Last(text).ended THEN Append(text, l)
        ELSE Append(Front(text), [l EXCEPT !.content = Last(text).content \o @])
  IN  FoldLeft(Add, <<>>, lines)

-----------------------------------------------------------------------------
(* One side's changes. *)

ExceedsLcsBudget(left, right) == (Len(left) + 1) * (Len(right) + 1) > MaxCells

\* At i, j: how many lines left from i on and right from j on have in common, in order.
LcsTable(left, right) ==
  LET Row(below, i) ==
        FoldRight(LAMBDA j, row :
                    <<IF left[i] = right[j] THEN below[j + 1] + 1
                      ELSE Larger(below[j], row[1])>> \o row,
                  [j \in 1..Len(right) |-> j], <<0>>)
  IN  FoldRight(LAMBDA i, rows : <<Row(rows[1], i)>> \o rows,
                [i \in 1..Len(left) |-> i], <<[j \in 1..Len(right) + 1 |-> 0]>>)

\* The lines that are the same, pair by pair.
Matches(base, variant) ==
  LET Step(lcs, at) ==
        CASE at.i > Len(base) \/ at.j > Len(variant) -> at
          [] at.i <= Len(base) /\ at.j <= Len(variant) /\ base[at.i] = variant[at.j] ->
               [i |-> at.i + 1, j |-> at.j + 1, found |-> Append(at.found, <<at.i, at.j>>)]
          [] OTHER -> IF lcs[at.i + 1][at.j] >= lcs[at.i][at.j + 1]
                      THEN [at EXCEPT !.i = @ + 1] ELSE [at EXCEPT !.j = @ + 1]
      Walked(lcs) == FoldLeft(LAMBDA at, k : Step(lcs, at), [i |-> 1, j |-> 1, found |-> <<>>],
                              [k \in 1..Len(base) + Len(variant) |-> k])
  IN  Walked(LcsTable(base, variant)).found

\* What stands between them: the lines of base after start and up to end have been
\* replaced.
DiffReplacements(base, variant) ==
  LET Between(p, q) == [start |-> p[1], end |-> q[1] - 1,
                        lines |-> SubSeq(variant, p[2] + 1, q[2] - 1)]
      IsChange(r) == r.start # r.end \/ r.lines # <<>>
      Changes(same) ==
        SelectSeq([k \in 1..Len(same) - 1 |-> Between(same[k], same[k + 1])], IsChange)
  IN  Changes(<<<<0, 0>>>> \o Matches(base, variant) \o <<<<Len(base) + 1, Len(variant) + 1>>>>)

-----------------------------------------------------------------------------
(* Both sides' changes. *)

SameRange(a, b) == a.start = b.start /\ a.end = b.end

\* Misses the line a change begins with (a mutant).
RangesOverlapPastFirst(a, b) == a.start < b.end /\ b.start + 1 < a.end
RangesOverlap(a, b) == a.start < b.end /\ b.start < a.end

\* applyReplacement, and before it the lines that nobody has changed.
Apply(base, m, r) ==
  [m EXCEPT !.lines = @ \o SubSeq(base, m.at + 1, r.start) \o r.lines, !.at = r.end]

\* Two insertions at one point are changes of the same range.
MergeReplacements(base, locals, remotes) ==
  LET Local(m) == [Apply(base, m, locals[m.l]) EXCEPT !.l = @ + 1]
      Remote(m) == [Apply(base, m, remotes[m.r]) EXCEPT !.r = @ + 1]
      Both(m, l, r) ==
        CASE SameRange(l, r) /\ l.lines = r.lines -> [Local(m) EXCEPT !.r = @ + 1]
          [] ~SameRange(l, r) /\ ~RangesOverlap(l, r) ->
               IF l.end <= r.start THEN Local(m) ELSE Remote(m)
          [] OTHER -> [m EXCEPT !.clean = FALSE]
      Step(m, k) ==
        CASE ~m.clean \/ (m.l > Len(locals) /\ m.r > Len(remotes)) -> m
          [] m.clean /\ m.l <= Len(locals) /\ m.r > Len(remotes) -> Local(m)
          [] m.clean /\ m.l > Len(locals) /\ m.r <= Len(remotes) -> Remote(m)
          [] OTHER -> Both(m, locals[m.l], remotes[m.r])
      Rest(m) == IF m.clean THEN m.lines \o SubSeq(base, m.at + 1, Len(base)) ELSE NoMerge
  IN  Rest(FoldLeft(Step, [l |-> 1, r |-> 1, at |-> 0, lines |-> <<>>, clean |-> TRUE],
                    [k \in 1..Len(locals) + Len(remotes) |-> k]))

MergedLines(base, local, remote) ==
  IF ExceedsLcsBudget(base, local) \/ ExceedsLcsBudget(base, remote) THEN NoMerge
  ELSE MergeReplacements(base, DiffReplacements(base, local), DiffReplacements(base, remote))

MergeText3(base, local, remote) ==
  LET AsText(lines) == IF lines = NoMerge THEN NoMerge ELSE Joined(lines)
  IN  IF local = remote \/ base = remote THEN local
      ELSE IF base = local THEN remote
      ELSE AsText(MergedLines(SplitLines(base), SplitLines(local), SplitLines(remote)))

-----------------------------------------------------------------------------
(* The edits. *)

Init ==
  /\ \E contents \in Bases : common = [k \in DOMAIN contents |-> Line(contents[k])]
  /\ here = common
  /\ there = common
  /\ edits = [here |-> 0, there |-> 0]

\* A line is put in, taken out or changed, or the last one loses its end.
Edited(text) ==
  {InsertAt(text, k, Line(c)) : k \in 1..Len(text), c \in Contents}
  \union {Append(text, Line(c)) : c \in {c \in Contents : text = <<>> \/ Last(text).ended}}
  \union {RemoveAt(text, k) : k \in 1..Len(text)}
  \union {[text EXCEPT ![k].content = c] : k \in 1..Len(text), c \in Contents}
  \union {[text EXCEPT ![k].ended = FALSE] : k \in {Len(text)} \ {0}}

EditHere ==
  /\ edits.here < MaxEdits
  /\ edits' = [edits EXCEPT !.here = @ + 1]
  /\ here' \in Edited(here)
  /\ UNCHANGED <<common, there>>

EditThere ==
  /\ edits.there < MaxEdits
  /\ edits' = [edits EXCEPT !.there = @ + 1]
  /\ there' \in Edited(there)
  /\ UNCHANGED <<common, here>>

Next == EditHere \/ EditThere

Spec == Init /\ [][Next]_vars

-----------------------------------------------------------------------------
(* Properties. *)

\* Whether the lines of one text are found in another, in their order.
Within(lines, text) ==
  FoldLeft(LAMBDA k, l : IF k <= Len(lines) /\ lines[k] = l THEN k + 1 ELSE k, 1, text)
    = Len(lines) + 1

\* What a merge makes of a line it was not asked to touch: it drops what stands before a
\* separator, and appends to a line whose end the other side has taken away.
HasSeparator(text) == \E k \in DOMAIN text : Separator \in Range(text[k].content)
Intact ==
  /\ ~HasSeparator(common) /\ ~HasSeparator(here) /\ ~HasSeparator(there)
  /\ \A lines \in {MergedLines(common, here, there)} : lines = NoMerge \/ Joined(lines) = lines

\* It does not matter which of two devices merges.
BothDevicesAgree(merged) == MergeText3(common, there, here) = merged

\* If one side has only added lines, a merge has every line of the other; if it has only
\* taken lines out, a merge has no line the other does not have.
NothingDropped(merged) ==
  merged # NoMerge =>
    /\ Within(common, there) => Within(here, merged)
    /\ Within(common, here) => Within(there, merged)
    /\ Within(there, common) => Within(merged, here)
    /\ Within(here, common) => Within(merged, there)

\* If no line is there twice, edits before a line that both have kept and edits after it
\* are both made.
NoneTwice(text) == \A i, j \in DOMAIN text : text[i].content = text[j].content => i = j
ApartIsMerged(merged) ==
  (\A text \in {common, here, there} : NoneTwice(text) /\ ~ExceedsLcsBudget(common, text)) =>
    \A k \in DOMAIN common, i \in DOMAIN here, j \in DOMAIN there :
      /\ SubSeq(here, i, Len(here)) = SubSeq(common, k, Len(common))
      /\ SubSeq(there, 1, j) = SubSeq(common, 1, k)
      => merged = SubSeq(here, 1, i) \o SubSeq(there, j + 1, Len(there))

\* A clean merge is the same on both devices, keeps what each has written and takes out
\* what each has taken out; edits apart from each other are never a conflict.
MergesAreSound ==
  \A merged \in {MergeText3(common, here, there)} :
    BothDevicesAgree(merged) /\ (Intact => NothingDropped(merged) /\ ApartIsMerged(merged))
=============================================================================
