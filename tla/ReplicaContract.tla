--------------------------- MODULE ReplicaContract ---------------------------
(***************************************************************************)
(* What a browser's handle of a component promises the application,        *)
(* however events and replies reach it: the handle shows the component as  *)
(* it was at one revision, it moves on to later revisions only, its        *)
(* listener hears of each, and once it is gone it stands still and gives   *)
(* nothing more.                                                           *)
(*                                                                         *)
(* ComponentClient implements this specification (see Replica there).      *)
(***************************************************************************)
EXTENDS Integers, Sequences

CONSTANTS
  Contents,  \* what a snapshot may hold
  Calls      \* the calls of the handle's methods

VARIABLES
  history,   \* the component: the content of each revision
  status,    \* "absent", "live", or "gone": disposed of, or refused
  rev,       \* the revision the handle is at, 0 before the first
  shown,     \* what it shows of the component
  heard,     \* what its listener saw last
  given      \* the calls that were given a result

vars == <<history, status, rev, shown, heard, given>>

Init ==
  /\ history \in [{1} -> Contents]
  /\ status = "absent"
  /\ rev = 0 /\ shown = "none" /\ heard = "none"
  /\ given = {}

Publish ==
  /\ \E content \in Contents : history' = Append(history, content)
  /\ UNCHANGED <<status, rev, shown, heard, given>>

\* The handle comes to a later revision of the component.
MoveOn ==
  /\ \E r \in rev + 1 .. Len(history) :
       rev' = r /\ shown' = history[r] /\ heard' = history[r]
  /\ UNCHANGED <<history, given>>

Open ==
  /\ status = "absent" /\ status' = "live"
  /\ MoveOn

\* The listener that is told of the revision may end the handle.
Advance ==
  /\ status = "live" /\ status' \in {"live", "gone"}
  /\ MoveOn

Give(c) ==
  /\ status = "live"
  /\ given' = given \cup {c}
  /\ UNCHANGED <<history, status, rev, shown, heard>>

\* To end a handle again changes nothing.
End ==
  /\ status' = "gone"
  /\ UNCHANGED <<history, rev, shown, heard, given>>

Next == Publish \/ Open \/ Advance \/ End \/ \E c \in Calls : Give(c)

Spec == Init /\ [][Next]_vars
-----------------------------------------------------------------------------
\* A live handle shows, and its listener has seen, the component at its revision.
ShowsTheComponent ==
  status = "live" => rev \in 1 .. Len(history) /\ shown = history[rev] /\ heard = shown

\* A handle never goes back, and one that is gone stays as it was.
OnlyForward ==
  [][/\ rev' >= rev
     /\ status = "gone" => UNCHANGED <<status, rev, shown, heard, given>>]_vars
==============================================================================
