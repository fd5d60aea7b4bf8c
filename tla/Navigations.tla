---------------------------- MODULE Navigations ----------------------------
(***************************************************************************)
(* The navigations of one target as the Handler relies on them: a queue    *)
(* and at most one that is under way.  What the FrameManager of the target *)
(* adds, frames and lifecycle events, decides when a navigation ends,      *)
(* never which one is next: FrameManager implements this specification.    *)
(***************************************************************************)
EXTENDS Sequences

CONSTANTS
  Navs,   (* Identifiers of navigations.                                   *)
  None    (* No navigation.                                                *)

VARIABLES
  queued,   (* Navigations that wait, in the order they were requested.    *)
  active    (* The navigation under way, or None.                          *)

vars == <<queued, active>>

Init ==
  /\ queued = << >>
  /\ active = None

Queue(n) ==
  /\ queued' = Append(queued, n)
  /\ UNCHANGED active

(* Only the oldest may start, and only when no other is under way.         *)
Start ==
  /\ active = None
  /\ queued # << >>
  /\ active' = Head(queued)
  /\ queued' = Tail(queued)

End ==
  /\ active # None
  /\ active' = None
  /\ UNCHANGED queued

Next ==
  \/ \E n \in Navs : Queue(n)
  \/ Start
  \/ End

Spec == Init /\ [][Next]_vars
=============================================================================
