-------------------------- MODULE MCComponentClient --------------------------
(***************************************************************************)
(* A replica of a component with a few revisions, and the pure functions   *)
(* of the browser package on every input of their bounds.                  *)
(***************************************************************************)
EXTENDS ComponentClient, UiIndex

\* documentPathsOverlap(a, b) exactly if some path matches both patterns, and
\* compareRuntimeRevision orders revisions as the numbers they spell.  TLC
\* evaluates it in the initial states: it depends on no variable.
PatternsAndRevisionsAgree == Init => OverlapIsExact /\ RevisionsAreNumbers
==============================================================================
