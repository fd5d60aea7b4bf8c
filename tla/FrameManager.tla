---------------------------- MODULE FrameManager ----------------------------
(***************************************************************************)
(* The FrameManager of one target (handler/frame.rs): the tree of frames   *)
(* it keeps from the events of the browser, the execution contexts of      *)
(* their two worlds, and the navigations, of which one is watched at a     *)
(* time until the lifecycle of a document completes it.                    *)
(*                                                                         *)
(* The browser is the environment.  It commits documents, each with a new  *)
(* loader, either because of a Page.navigate the target sent or because    *)
(* the page navigates itself, and it reports what happens in order.        *)
(***************************************************************************)
EXTENDS Naturals, Sequences, Functions

CONSTANTS
  MainIds,    (* Ids the main frame of the target may have.                *)
  ChildIds,   (* Ids of frames below the main frame.                       *)
  Navs,       (* Navigation ids.                                           *)
  Contexts,   (* Unique ids of execution contexts.                         *)
  Cap,        (* max_main_frame_navigations, or None.                      *)
  MaxDocs,    (* Bound of the model: documents the browser commits.        *)
  None

ASSUME FrameIdsAssumption == MainIds \cap ChildIds = {}
ASSUME NoneAssumption ==
  None \notin MainIds \cup ChildIds \cup Navs \cup Contexts \cup Nat
ASSUME BoundsAssumption == MaxDocs \in Nat /\ Cap \in Nat \cup {None}

FrameIds == MainIds \cup ChildIds
LifecycleEvents == {"DOMContentLoaded", "load"}

(* A loader is the number of the document it loaded; 0 is no loader.       *)
Loaders == 0..MaxDocs

Frame ==
  [parent   : FrameIds \cup {None},
   children : SUBSET FrameIds,
   url      : BOOLEAN,
   loader   : Loaders,
   events   : SUBSET LifecycleEvents,
   main     : Contexts \cup {None},
   second   : Contexts \cup {None}]

NavigationWatcher ==
  [id : Navs, frame : MainIds, loader : Loaders, same : BOOLEAN]

ASSUME NoneIsNoWatcher == None \notin NavigationWatcher

VARIABLES
  frames,       (* The frames known, by id.                                *)
  mainFrame,    (* Id of the main frame or None.                           *)
  pending,      (* pending_navigations: watchers in the order of goto.     *)
  navigation,   (* The watcher that is active, or None.                    *)
  overdue,      (* The deadline of the active watcher has passed.          *)
  navCount,     (* main_frame_nav_count.                                   *)
  contextIds,   (* context_ids: the frame each context was created in.     *)
  asked,        (* Navigations that were requested.                        *)
  reported,     (* Navigations poll has reported the end of.               *)
  docs,         (* Documents the browser has committed.                    *)
  loaded,       (* The document of the main frame was reported as loaded.  *)
  served,       (* The browser has carried out the active navigation.      *)
  alive,        (* Execution contexts that exist in the browser.           *)
  made,         (* Execution contexts that ever existed.                   *)
  carried       (* Contexts a frame kept when the main frame changed id.   *)

navVars  == <<pending, navigation, overdue, asked, reported>>
docVars  == <<docs, loaded, served>>
ctxVars  == <<contextIds, alive, made, carried>>
vars == <<frames, mainFrame, navCount, navVars, docVars, ctxVars>>

TypeOK ==
  /\ DOMAIN frames \subseteq FrameIds
  /\ \A f \in DOMAIN frames : frames[f] \in Frame
  /\ mainFrame \in MainIds \cup {None}
  /\ pending \in Seq(NavigationWatcher)
  /\ navigation \in NavigationWatcher \cup {None}
  /\ overdue \in BOOLEAN
  /\ navCount \in Nat
  /\ DOMAIN contextIds \subseteq Contexts
  /\ \A c \in DOMAIN contextIds : contextIds[c] \in FrameIds
  /\ reported \subseteq Navs /\ asked \subseteq Navs
  /\ docs \in Loaders
  /\ loaded \in BOOLEAN
  /\ served \in BOOLEAN
  /\ alive \subseteq made /\ made \subseteq Contexts /\ carried \subseteq Contexts

Init ==
  /\ frames = [f \in {} |-> None]
  /\ mainFrame = None
  /\ pending = << >>
  /\ navigation = None
  /\ overdue = FALSE
  /\ navCount = 0
  /\ contextIds = [c \in {} |-> None]
  /\ asked = {}
  /\ reported = {}
  /\ docs = 0
  /\ loaded = FALSE
  /\ served = FALSE
  /\ alive = {}
  /\ made = {}
  /\ carried = {}

-----------------------------------------------------------------------------
(* The tree of frames                                                      *)

NewFrame(p) ==
  [parent |-> p, children |-> {}, url |-> FALSE, loader |-> 0,
   events |-> {}, main |-> None, second |-> None]

With(fs, f, fr) == [g \in DOMAIN fs \cup {f} |-> IF g = f THEN fr ELSE fs[g]]

Closed(fs, S) == \A g \in S \cap DOMAIN fs : fs[g].children \subseteq S

(* f and the frames below it, along the lists of children.                 *)
Under(fs, f) ==
  {g \in FrameIds \cup {f} :
     \A S \in SUBSET (FrameIds \cup {f}) : f \in S /\ Closed(fs, S) => g \in S}

(* A faulty Without: frames removed stay listed by their parent.           *)
WithoutUnlinking(fs, gone) == [g \in DOMAIN fs \ gone |-> fs[g]]

(* Each frame removed leaves the list of its parent, if that is still there. *)
Without(fs, gone) ==
  [g \in DOMAIN fs \ gone |->
     [fs[g] EXCEPT !.children =
        @ \ {x \in gone \cap DOMAIN fs : fs[x].parent = g}]]

FrameAttached(f, p) ==
  /\ f \notin DOMAIN frames
  /\ p \in DOMAIN frames
  /\ frames' = With(With(frames, p,
                         [frames[p] EXCEPT !.children = @ \cup {f}]),
                    f, NewFrame(p))
  /\ UNCHANGED <<mainFrame, navCount, navVars, docVars, ctxVars>>

FrameDetached(f) ==
  /\ f \in DOMAIN frames
  /\ frames' = Without(frames, Under(frames, f))
  /\ UNCHANGED <<mainFrame, navCount, navVars, docVars, ctxVars>>

ChildNavigated(f) ==
  /\ f \in DOMAIN frames
  /\ frames' =
       With(Without(frames, Under(frames, f) \ {f}), f,
            [frames[f] EXCEPT !.children = {}, !.url = TRUE])
  /\ UNCHANGED <<mainFrame, navCount, navVars, docVars, ctxVars>>

(* The entry of the main frame moves to the id the event carries, and the  *)
(* active watcher with it; watchers that still wait keep the old id.       *)
MainFrameEntry ==
  IF mainFrame \in DOMAIN frames
  THEN [frames[mainFrame] EXCEPT !.children = {}, !.url = TRUE]
  ELSE [NewFrame(None) EXCEPT !.url = TRUE]

OldTree ==
  IF mainFrame \in DOMAIN frames THEN Under(frames, mainFrame) ELSE {}

OverCap == Cap # None /\ navCount > Cap

(* Beyond the cap only that it is exceeded matters.                        *)
CountedNavigation ==
  IF Cap = None \/ OverCap THEN navCount ELSE navCount + 1

(* A faulty Follow: the active watcher keeps the id the frame had.         *)
FollowNot(m) == navigation

Follow(m) ==
  IF mainFrame # m /\ navigation # None /\ navigation.frame = mainFrame
  THEN [navigation EXCEPT !.frame = m]
  ELSE navigation

MainNavigated(m, kids) ==
  LET tree == With(Without(frames, OldTree), m, MainFrameEntry)
  IN  /\ frames' =
           [g \in DOMAIN tree \cup kids |->
              IF g = m THEN [tree[m] EXCEPT !.children = @ \cup kids]
              ELSE IF g \in DOMAIN tree THEN tree[g]
              ELSE [NewFrame(m) EXCEPT !.url = TRUE]]
      /\ mainFrame' = m
      /\ navigation' = Follow(m)
      /\ navCount' = CountedNavigation
      /\ carried' = IF mainFrame = m THEN carried
                    ELSE carried \cup
                         ({MainFrameEntry.main, MainFrameEntry.second} \ {None})
      /\ loaded' = (loaded /\ mainFrame \in DOMAIN frames)
      /\ UNCHANGED <<pending, overdue, asked, reported, docs, served,
                     contextIds, alive, made>>

FrameNavigated(m) == MainNavigated(m, {})

(* The answer to Page.getFrameTree attaches and navigates every frame of   *)
(* the tree it describes.                                                  *)
FrameTree(m, kids) ==
  /\ kids # {}
  /\ kids \cap DOMAIN Without(frames, OldTree) = {}
  /\ MainNavigated(m, kids)

-----------------------------------------------------------------------------
(* Loading                                                                 *)

(* Only the main frame loads here: no navigation looks at the loader and   *)
(* the events of another frame.                                            *)

Seen(m, evs) ==
  /\ m \in DOMAIN frames
  /\ frames' = [frames EXCEPT ![m].events = @ \cup evs]
  /\ loaded' = (loaded \/ "load" \in evs)
  /\ UNCHANGED <<mainFrame, navCount, navVars, docs, served, ctxVars>>

(* A faulty DocumentCommitted: the events of the old document stay.        *)
DocumentCommittedKeepingEvents(m, own) ==
  /\ docs < MaxDocs
  /\ docs' = docs + 1
  /\ frames' = IF m \in DOMAIN frames
               THEN [frames EXCEPT ![m].loader = docs + 1] ELSE frames
  /\ loaded' = (loaded /\ m \notin DOMAIN frames)
  /\ served' = (served \/ own)
  /\ UNCHANGED <<mainFrame, navCount, navVars, ctxVars>>

(* A lifecycle event "init": the frame has a new document, which may be    *)
(* the one the active navigation asked for (own).                          *)
DocumentCommitted(m, own) ==
  /\ docs < MaxDocs
  /\ docs' = docs + 1
  /\ frames' = IF m \in DOMAIN frames
               THEN [frames EXCEPT ![m].loader = docs + 1, ![m].events = {}]
               ELSE frames
  /\ loaded' = (loaded /\ m \notin DOMAIN frames)
  /\ served' = (served \/ own)
  /\ UNCHANGED <<mainFrame, navCount, navVars, ctxVars>>

PageLifecycleEvent(m) == \E e \in LifecycleEvents : Seen(m, {e})

FrameStoppedLoading(m) == Seen(m, LifecycleEvents)

FrameStartedLoading(m) ==
  /\ m \in DOMAIN frames
  /\ frames' = [frames EXCEPT ![m].events = {}]
  /\ UNCHANGED <<mainFrame, navCount, navVars, docVars, ctxVars>>

NavigatedWithinDocument(f, own) ==
  /\ frames' = IF f \in DOMAIN frames
               THEN [frames EXCEPT ![f].url = TRUE] ELSE frames
  /\ navigation' = IF navigation # None /\ navigation.frame = f
                   THEN [navigation EXCEPT !.same = TRUE] ELSE navigation
  /\ served' = (served \/ own)
  /\ UNCHANGED <<mainFrame, navCount, pending, overdue, asked, reported,
                 docs, loaded, ctxVars>>

-----------------------------------------------------------------------------
(* Execution contexts                                                      *)

ContextCreated(f, c, default) ==
  /\ c \notin made
  /\ made' = made \cup {c}
  /\ alive' = alive \cup {c}
  /\ IF f \in DOMAIN frames
     THEN /\ frames' =
               CASE default -> [frames EXCEPT ![f].main = c]
                 [] ~default /\ frames[f].second = None ->
                      [frames EXCEPT ![f].second = c]
                 [] OTHER -> frames
          /\ contextIds' = With(contextIds, c, f)
     ELSE UNCHANGED <<frames, contextIds>>
  /\ UNCHANGED <<mainFrame, navCount, navVars, docVars, carried>>

(* A faulty DestroyedIn: the secondary world is forgotten.                 *)
DestroyedInMain(fr, c) ==
  IF fr.main = c THEN [fr EXCEPT !.main = None] ELSE fr

(* A frame gives up the context c, from the first world that has it.       *)
DestroyedIn(fr, c) ==
  IF fr.main = c THEN [fr EXCEPT !.main = None]
  ELSE IF fr.second = c THEN [fr EXCEPT !.second = None]
  ELSE fr

ContextDestroyed(c) ==
  /\ c \in alive
  /\ alive' = alive \ {c}
  /\ IF c \in DOMAIN contextIds
     THEN /\ contextIds' = Restrict(contextIds, DOMAIN contextIds \ {c})
          /\ frames' = IF contextIds[c] \in DOMAIN frames
                       THEN [frames EXCEPT ![contextIds[c]] = DestroyedIn(@, c)]
                       ELSE frames
     ELSE UNCHANGED <<contextIds, frames>>
  /\ UNCHANGED <<mainFrame, navCount, navVars, docVars, made, carried>>

ContextsCleared ==
  /\ alive' = {}
  /\ frames' = [f \in DOMAIN frames |->
                  IF f \in Range(contextIds)
                  THEN [frames[f] EXCEPT !.main = None, !.second = None]
                  ELSE frames[f]]
  /\ contextIds' = [c \in {} |-> None]
  /\ UNCHANGED <<mainFrame, navCount, navVars, docVars, made, carried>>

EvictStaleContextIds ==
  /\ contextIds' =
       Restrict(contextIds, {c \in DOMAIN contextIds : contextIds[c] \in DOMAIN frames})
  /\ UNCHANGED <<frames, mainFrame, navCount, navVars, docVars,
                 alive, made, carried>>

-----------------------------------------------------------------------------
(* Navigations                                                             *)

UntilLoad(n) ==
  [id |-> n, frame |-> mainFrame, same |-> FALSE,
   loader |-> IF mainFrame \in DOMAIN frames THEN frames[mainFrame].loader ELSE 0]

(* A faulty Goto: a watcher is queued although there is no main frame.     *)
GotoUnguarded(n) ==
  /\ n \notin asked
  /\ asked' = asked \cup {n}
  /\ pending' = Append(pending, UntilLoad(n))
  /\ navCount' = 0
  /\ UNCHANGED <<frames, mainFrame, navigation, overdue, reported, docVars, ctxVars>>

(* Without a main frame the request is dropped.                            *)
Goto(n) ==
  /\ n \notin asked
  /\ asked' = asked \cup {n}
  /\ IF mainFrame = None
     THEN UNCHANGED <<pending, navCount>>
     ELSE /\ pending' = Append(pending, UntilLoad(n))
          /\ navCount' = 0
  /\ UNCHANGED <<frames, mainFrame, navigation, overdue, reported, docVars, ctxVars>>

(* The time of the active navigation is up.                                *)
DeadlinePasses ==
  /\ navigation # None
  /\ ~overdue
  /\ overdue' = TRUE
  /\ UNCHANGED <<frames, mainFrame, navCount, pending, navigation,
                 asked, reported, docVars, ctxVars>>

CheckLifecycle(fr) ==
  \/ "load" \in fr.events
  \/ ~fr.url /\ "DOMContentLoaded" \in fr.events

(* What the lifecycle of its frame says about a watcher: "same", "new", or *)
(* None while it is not complete.                                          *)
CheckLifecycleComplete(w, fr) ==
  IF ~CheckLifecycle(fr) THEN None
  ELSE IF w.same THEN "same"
  ELSE IF fr.loader # w.loader THEN "new"
  ELSE None

(* A faulty Verdict: the deadline is not looked at.                        *)
VerdictWithoutDeadline(w) ==
  IF OverCap THEN "toomany"
  ELSE IF w.frame \notin DOMAIN frames THEN "missing"
  ELSE CheckLifecycleComplete(w, frames[w.frame])

(* What poll finds out about the active watcher, in the order it looks.    *)
Verdict(w) ==
  IF OverCap THEN "toomany"
  ELSE IF overdue THEN "timeout"
  ELSE IF w.frame \notin DOMAIN frames THEN "missing"
  ELSE CheckLifecycleComplete(w, frames[w.frame])

PollActive ==
  /\ navigation # None
  /\ Verdict(navigation) # None
  /\ reported' = reported \cup {navigation.id}
  /\ navigation' = None
  /\ overdue' = FALSE
  /\ UNCHANGED <<frames, mainFrame, navCount, pending, asked, docVars, ctxVars>>

(* A faulty PollPending: the next navigation replaces the active one.      *)
PollPendingEagerly ==
  /\ pending # << >>
  /\ navigation' = Head(pending)
  /\ pending' = Tail(pending)
  /\ overdue' = FALSE
  /\ served' = FALSE
  /\ UNCHANGED <<frames, mainFrame, navCount, asked, reported, docs, loaded,
                 ctxVars>>

(* The deadline of a navigation runs from here.                            *)
PollPending ==
  /\ navigation = None
  /\ pending # << >>
  /\ navigation' = Head(pending)
  /\ pending' = Tail(pending)
  /\ overdue' = FALSE
  /\ served' = FALSE
  /\ UNCHANGED <<frames, mainFrame, navCount, asked, reported, docs, loaded,
                 ctxVars>>

Poll == PollActive \/ PollPending

-----------------------------------------------------------------------------
(* A step of the browser in frame f may carry out the active navigation.   *)
MayServe(f) == IF f \in MainIds /\ navigation # None THEN BOOLEAN ELSE {FALSE}

Next ==
  \/ \E f \in ChildIds, p \in FrameIds : FrameAttached(f, p)
  \/ \E f \in FrameIds : FrameDetached(f)
  \/ \E f \in ChildIds : ChildNavigated(f)
  \/ \E m \in MainIds : FrameNavigated(m)
  \/ \E m \in MainIds, kids \in SUBSET ChildIds : FrameTree(m, kids)
  \/ \E m \in MainIds : \E own \in MayServe(m) : DocumentCommitted(m, own)
  \/ \E m \in MainIds : PageLifecycleEvent(m)
  \/ \E m \in MainIds : FrameStoppedLoading(m)
  \/ \E m \in MainIds : FrameStartedLoading(m)
  \/ \E f \in FrameIds : \E own \in MayServe(f) : NavigatedWithinDocument(f, own)
  \/ \E f \in FrameIds, c \in Contexts, d \in BOOLEAN : ContextCreated(f, c, d)
  \/ \E c \in Contexts : ContextDestroyed(c)
  \/ ContextsCleared
  \/ EvictStaleContextIds
  \/ \E n \in Navs : Goto(n)
  \/ DeadlinePasses
  \/ Poll

(* Every round of the handler polls every target, and time passes.         *)
Fairness == WF_vars(Poll) /\ WF_vars(DeadlinePasses)

Spec == Init /\ [][Next]_vars /\ Fairness

-----------------------------------------------------------------------------
(* Properties                                                              *)

(* The two directions of the tree, kept by hand in on_frame_attached,      *)
(* on_frame_navigated and remove_frames_recursively, agree, and no frame   *)
(* outlives the subtree it was in.                                         *)
TreeConsistent ==
  /\ \A f \in DOMAIN frames :
       /\ frames[f].children = {g \in DOMAIN frames : frames[g].parent = f}
       /\ f # mainFrame => frames[f].parent \in DOMAIN frames
  /\ DOMAIN frames \subseteq Under(frames, mainFrame)

(* A world of a frame never keeps an execution context that the browser    *)
(* has destroyed, however contexts, navigations and removals of frames     *)
(* interleave.  Contexts that were carried along when the main frame       *)
(* changed its id are excepted: on_frame_navigated keeps them in the       *)
(* frame, but context_ids still names the old id, so neither               *)
(* executionContextDestroyed nor executionContextsCleared finds them.      *)
WorldsAlive ==
  \A f \in DOMAIN frames :
    {frames[f].main, frames[f].second} \subseteq alive \cup carried \cup {None}

EndsWith(verdict) ==
  navigation # None /\ navigation' = None /\ Verdict(navigation) = verdict

(* A navigation that poll reports as a new document was loaded: the load   *)
(* (or stop) event came after that document committed, not left over from  *)
(* the document before it.                                                 *)
LoadedDocument == [][EndsWith("new") => loaded]_vars

(* Once a navigation watches the main frame it keeps watching it, also     *)
(* when a cross-origin navigation gives the main frame another id.         *)
FollowsMain ==
  [][navigation # None /\ navigation.frame = mainFrame /\ navigation' # None
       => navigation'.frame = mainFrame']_vars

QueuedIds == [i \in DOMAIN pending |-> pending[i].id]
ActiveId  == IF navigation = None THEN None ELSE navigation.id

Abstract == INSTANCE Navigations WITH queued <- QueuedIds, active <- ActiveId

(* Frames, renames, lifecycle events and verdicts never reorder, lose or   *)
(* duplicate a navigation: poll starts the oldest one and only after it    *)
(* has reported the one before.                                            *)
ImplementsNavigations == Abstract!Spec

Waits(n) == ActiveId = n \/ \E i \in DOMAIN pending : pending[i].id = n

(* Every navigation that was queued is reported: the deadline of the       *)
(* active one runs whatever the browser does, and lets the next one start. *)
NavigationReported == \A n \in Navs : Waits(n) ~> n \in reported

(* A navigation is reported as loaded only after the browser carried it    *)
(* out.                                                                    *)
OwnDocument == [][EndsWith("new") \/ EndsWith("same") => served]_vars
=============================================================================
