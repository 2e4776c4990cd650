------------------------------- MODULE UiIndex -------------------------------
(***************************************************************************)
(* The pure functions of ui/index.js: patterns of document paths and the   *)
(* order of runtime revisions.  A segment of a pattern is the record the   *)
(* code parses it to, a parameter's name left out; a revision is the       *)
(* sequence of its digits.                                                 *)
(***************************************************************************)
EXTENDS Naturals, SequencesExt

CONSTANTS
  Names,     \* the values a segment of a path may have
  MaxParts,  \* bound: the segments of a pattern
  Digits, MaxDigits  \* bound: the revisions

ASSUME SegmentsExist == Names # {} /\ MaxParts \in Nat
ASSUME DigitsAreDecimal == Digits \subseteq 0 .. 9 /\ MaxDigits \in Nat

Literals == [kind : {"literal"}, value : Names]
Param == [kind |-> ":", value |-> ""]
Star == [kind |-> "*", value |-> ""]

\* documentSegments: not empty, and a *name is the last segment.
Patterns ==
  {p \in BoundedSeq(Literals \cup {Param, Star}, MaxParts) :
     p # <<>> /\ \A i \in 1 .. Len(p) - 1 : p[i] # Star}

Matches(p, path) ==
  /\ Len(path) >= Len(p)
  /\ Last(p) = Star \/ Len(path) = Len(p)
  /\ \A i \in DOMAIN p : p[i].kind = "literal" => p[i].value = path[i]

BugOverlap(a, b) ==  \* a wildcard that may stand for nothing
  \A i \in 1 .. Min({Len(a), Len(b)}) :
    (a[i].kind = "literal" /\ b[i].kind = "literal") => a[i] = b[i]

Overlap(a, b) ==
  /\ Last(a) = Star \/ Len(a) >= Len(b)
  /\ Last(b) = Star \/ Len(b) >= Len(a)
  /\ \A i \in 1 .. Min({Len(a), Len(b)}) :
       (a[i].kind = "literal" /\ b[i].kind = "literal") => a[i] = b[i]

-----------------------------------------------------------------------------
Revisions10 == {d \in BoundedSeq(Digits, MaxDigits) : d # <<>> /\ (Len(d) > 1 => d[1] # 0)}

\* compareRuntimeRevision(a, b) > 0: the longer, or the later in the dictionary.
Later(a, b) ==
  \/ Len(a) > Len(b)
  \/ Len(a) = Len(b) /\ \E i \in DOMAIN a : a[i] > b[i] /\ \A j \in 1 .. i - 1 : a[j] = b[j]

\* What the beginnings of d spell, in decimal, and what all of d does.
Values(d) ==
  LET value[n \in 0 .. Len(d)] == IF n = 0 THEN 0 ELSE 10 * value[n - 1] + d[n]
  IN  value

Number(d) == Values(d)[Len(d)]

OverlapIsExact ==
  \A a, b \in Patterns :
    LET paths == BoundedSeq(Names, MaxParts + 1)
    IN  Overlap(a, b) <=> \E path \in paths : Matches(a, path) /\ Matches(b, path)

RevisionsAreNumbers == \A a, b \in Revisions10 : Later(a, b) <=> Number(a) > Number(b)
==============================================================================
