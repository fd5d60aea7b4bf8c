--------------------------- MODULE MCFrameManager ---------------------------
(* FrameManager.tla on small sets.  Navigations and execution contexts     *)
(* share nothing but the tree of frames, so a behaviour has one of the two *)
(* (its slice): either no context is created and no child frame attached,   *)
(* or no navigation is requested and no document committed.                *)
EXTENDS FrameManager

VARIABLE slice

MCInit ==
  /\ frames = [f \in {} |-> None]
  /\ mainFrame = None
  /\ pending = << >>
  /\ navigation = None
  /\ overdue = FALSE
  /\ navCount = 0
  /\ contextIds = [c \in {} |-> None]
  /\ reported = {}
  /\ loaded = FALSE
  /\ served = FALSE
  /\ alive = {}
  /\ carried = {}
  /\ \/ slice = "navigations" /\ asked = {}   /\ docs = 0       /\ made = Contexts
     \/ slice = "contexts"    /\ asked = Navs /\ docs = MaxDocs /\ made = {}

MCNext ==
  /\ Next
  /\ slice = "navigations" => DOMAIN frames' \subseteq MainIds
  /\ UNCHANGED slice

MCSpec == MCInit /\ [][MCNext]_<<vars, slice>> /\ Fairness
=============================================================================
