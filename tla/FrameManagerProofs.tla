------------------------- MODULE FrameManagerProofs -------------------------
(***************************************************************************)
(* What FrameManager keeps for every set of frames, navigations and        *)
(* execution contexts, every cap and every number of documents.            *)
(*                                                                         *)
(* The tree of frames stays a tree because the main frame has no parent    *)
(* (Rooted), so that nothing below a frame is above it (NoCycle) and a     *)
(* removal takes a whole subtree.  The worlds of a frame are alive because *)
(* context_ids finds the frame of every context that was not carried along *)
(* (KnownWorld).  A navigation that ends with a new document was loaded    *)
(* because only the main frame has events, and they fall with the document *)
(* they belong to (LoadInv).                                               *)
(***************************************************************************)
EXTENDS FrameManager, SequenceTheorems, TLAPS

(* Replacing or adding one entry of a table keeps the type of the table.   *)
LEMMA WithType ==
  ASSUME NEW D, NEW R, NEW T,
         DOMAIN T \subseteq D, \A g \in DOMAIN T : T[g] \in R,
         NEW f \in D, NEW r \in R
  PROVE  /\ DOMAIN With(T, f, r) \subseteq D
         /\ \A g \in DOMAIN With(T, f, r) : With(T, f, r)[g] \in R
BY DEF With

(* Removing frames keeps the type of those that stay.                      *)
LEMMA WithoutType ==
  ASSUME NEW T, NEW gone,
         DOMAIN T \subseteq FrameIds, \A g \in DOMAIN T : T[g] \in Frame
  PROVE  /\ DOMAIN Without(T, gone) \subseteq FrameIds
         /\ \A g \in DOMAIN Without(T, gone) : Without(T, gone)[g] \in Frame
<1>1. \A g \in DOMAIN T : \A K : [T[g] EXCEPT !.children = @ \ K] \in Frame
  BY DEF Frame
<1>2. QED
  BY <1>1 DEF Without

LEMMA NewFrameType ==
  ASSUME NEW p \in FrameIds \cup {None}
  PROVE  /\ NewFrame(p) \in Frame
         /\ [NewFrame(p) EXCEPT !.url = TRUE] \in Frame
<1>1. 0 \in Loaders
  BY BoundsAssumption DEF Loaders
<1>2. QED
  BY <1>1 DEF NewFrame, Frame

(* The parts of TypeOK.                                                    *)
FramesType ==
  /\ DOMAIN frames \subseteq FrameIds
  /\ \A f \in DOMAIN frames : frames[f] \in Frame

ContextsType ==
  /\ DOMAIN contextIds \subseteq Contexts
  /\ \A c \in DOMAIN contextIds : contextIds[c] \in FrameIds
  /\ alive \subseteq made /\ made \subseteq Contexts /\ carried \subseteq Contexts

NavigationsType ==
  /\ mainFrame \in MainIds \cup {None}
  /\ pending \in Seq(NavigationWatcher)
  /\ navigation \in NavigationWatcher \cup {None}
  /\ overdue \in BOOLEAN
  /\ navCount \in Nat
  /\ reported \subseteq Navs /\ asked \subseteq Navs

DocumentsType == docs \in Loaders /\ loaded \in BOOLEAN /\ served \in BOOLEAN

LEMMA TypeParts ==
  /\ TypeOK <=> FramesType /\ ContextsType /\ NavigationsType /\ DocumentsType
  /\ TypeOK' <=> FramesType' /\ ContextsType' /\ NavigationsType' /\ DocumentsType'
BY DEF TypeOK, FramesType, ContextsType, NavigationsType, DocumentsType

(* A step that leaves a part alone keeps its type.                         *)
LEMMA NavigationsStutter ==
  ASSUME NavigationsType, mainFrame' = mainFrame, navCount' = navCount,
         UNCHANGED navVars
  PROVE  NavigationsType'
BY DEF NavigationsType, navVars

LEMMA ContextsStutter ==
  ASSUME ContextsType, UNCHANGED ctxVars
  PROVE  ContextsType'
BY DEF ContextsType, ctxVars

LEMMA DocumentsStutter ==
  ASSUME DocumentsType, UNCHANGED docVars
  PROVE  DocumentsType'
BY DEF DocumentsType, docVars

-----------------------------------------------------------------------------
(* The tree of frames                                                      *)

LEMMA FrameAttachedType ==
  ASSUME TypeOK, NEW f \in ChildIds, NEW p \in FrameIds, FrameAttached(f, p)
  PROVE  TypeOK'
<1>1. FramesType /\ ContextsType /\ NavigationsType /\ DocumentsType
  BY TypeParts
<1> DEFINE up == With(frames, p, [frames[p] EXCEPT !.children = @ \cup {f}])
<1>2. p \in DOMAIN frames /\ frames' = With(up, f, NewFrame(p))
  BY DEF FrameAttached
<1>3. f \in FrameIds
  BY DEF FrameIds
<1>4. frames[p] \in Frame
  BY <1>1, <1>2 DEF FramesType
<1>5. [frames[p] EXCEPT !.children = @ \cup {f}] \in Frame
  BY <1>3, <1>4 DEF Frame
<1>6. /\ DOMAIN up \subseteq FrameIds
      /\ \A g \in DOMAIN up : up[g] \in Frame
  <2> HIDE DEF up
  <2>1. /\ DOMAIN With(frames, p, [frames[p] EXCEPT !.children = @ \cup {f}]) \subseteq FrameIds
        /\ \A g \in DOMAIN With(frames, p, [frames[p] EXCEPT !.children = @ \cup {f}]) :
             With(frames, p, [frames[p] EXCEPT !.children = @ \cup {f}])[g] \in Frame
    BY <1>1, <1>5, WithType DEF FramesType
  <2>2. QED
    BY <2>1 DEF up
<1>7. NewFrame(p) \in Frame
  BY NewFrameType
<1>8. FramesType'
  <2> HIDE DEF up
  <2>1. QED
    BY <1>2, <1>3, <1>6, <1>7, WithType DEF FramesType
<1>9. QED
  BY <1>1, <1>8, NavigationsStutter, ContextsStutter, DocumentsStutter, TypeParts
     DEF FrameAttached

LEMMA FrameDetachedType ==
  ASSUME TypeOK, NEW f \in FrameIds, FrameDetached(f)
  PROVE  TypeOK'
<1>1. FramesType /\ ContextsType /\ NavigationsType /\ DocumentsType
  BY TypeParts
<1>2. FramesType'
  BY <1>1, WithoutType DEF FramesType, FrameDetached
<1>3. QED
  BY <1>1, <1>2, NavigationsStutter, ContextsStutter, DocumentsStutter, TypeParts
     DEF FrameDetached

LEMMA ChildNavigatedType ==
  ASSUME TypeOK, NEW f \in ChildIds, ChildNavigated(f)
  PROVE  TypeOK'
<1>1. FramesType /\ ContextsType /\ NavigationsType /\ DocumentsType
  BY TypeParts
<1> DEFINE rest == Without(frames, Under(frames, f) \ {f})
           fr   == [frames[f] EXCEPT !.children = {}, !.url = TRUE]
<1>2. /\ DOMAIN rest \subseteq FrameIds
      /\ \A g \in DOMAIN rest : rest[g] \in Frame
  BY <1>1, WithoutType DEF FramesType
<1>3. fr \in Frame
  <2>1. frames[f] \in Frame
    BY <1>1 DEF FramesType, ChildNavigated
  <2>2. QED
    BY <2>1 DEF Frame
<1>4. f \in FrameIds /\ frames' = With(rest, f, fr)
  BY DEF FrameIds, ChildNavigated
<1>5. FramesType'
  <2> HIDE DEF rest, fr
  <2>1. QED
    BY <1>2, <1>3, <1>4, WithType DEF FramesType
<1>6. QED
  BY <1>1, <1>5, NavigationsStutter, ContextsStutter, DocumentsStutter, TypeParts
     DEF ChildNavigated

LEMMA MainFrameEntryType ==
  ASSUME FramesType
  PROVE  MainFrameEntry \in Frame
<1>1. CASE mainFrame \in DOMAIN frames
  <2>1. frames[mainFrame] \in Frame
    BY <1>1 DEF FramesType
  <2>2. QED
    BY <1>1, <2>1 DEF MainFrameEntry, Frame
<1>2. CASE mainFrame \notin DOMAIN frames
  BY <1>2, NewFrameType DEF MainFrameEntry
<1>3. QED
  BY <1>1, <1>2

(* A watcher that follows the main frame stays a watcher, of the same      *)
(* navigation.                                                             *)
LEMMA FollowType ==
  ASSUME NavigationsType, NEW m \in MainIds
  PROVE  /\ Follow(m) \in NavigationWatcher \cup {None}
         /\ navigation = None => Follow(m) = None
         /\ navigation # None => /\ Follow(m) \in NavigationWatcher
                                 /\ Follow(m).id = navigation.id
<1>1. CASE navigation = None
  BY <1>1 DEF Follow
<1>2. CASE navigation # None
  <2>1. navigation \in NavigationWatcher
    BY <1>2 DEF NavigationsType
  <2>2. QED
    BY <1>2, <2>1 DEF Follow, NavigationWatcher
<1>3. QED
  BY <1>1, <1>2

LEMMA MainNavigatedType ==
  ASSUME TypeOK, NEW m \in MainIds, NEW kids \in SUBSET ChildIds,
         MainNavigated(m, kids)
  PROVE  TypeOK'
<1>1. FramesType /\ ContextsType /\ NavigationsType /\ DocumentsType
  BY TypeParts
<1>2. m \in FrameIds /\ kids \subseteq FrameIds
  BY DEF FrameIds
<1> DEFINE rest == Without(frames, OldTree)
           tree == With(rest, m, MainFrameEntry)
<1>3. /\ DOMAIN rest \subseteq FrameIds
      /\ \A g \in DOMAIN rest : rest[g] \in Frame
  BY <1>1, WithoutType DEF FramesType
<1>4. /\ DOMAIN tree \subseteq FrameIds
      /\ \A g \in DOMAIN tree : tree[g] \in Frame
  <2> HIDE DEF rest
  <2>1. MainFrameEntry \in Frame
    BY <1>1, MainFrameEntryType
  <2>2. QED
    BY <1>2, <1>3, <2>1, WithType
<1>5. m \in DOMAIN tree
  BY DEF With
<1>6. FramesType'
  <2> HIDE DEF tree
  <2>1. [tree[m] EXCEPT !.children = @ \cup kids] \in Frame
    <3>1. tree[m] \in Frame
      BY <1>4, <1>5
    <3>2. QED
      BY <1>2, <3>1 DEF Frame
  <2>2. [NewFrame(m) EXCEPT !.url = TRUE] \in Frame
    BY <1>2, NewFrameType
  <2>3. frames' = [g \in DOMAIN tree \cup kids |->
              IF g = m THEN [tree[m] EXCEPT !.children = @ \cup kids]
              ELSE IF g \in DOMAIN tree THEN tree[g]
              ELSE [NewFrame(m) EXCEPT !.url = TRUE]]
    BY DEF MainNavigated, tree
  <2>4. QED
    BY <1>2, <1>4, <2>1, <2>2, <2>3 DEF FramesType
<1>7. NavigationsType'
  <2>1. CountedNavigation \in Nat
    BY <1>1 DEF NavigationsType, CountedNavigation
  <2>2. Follow(m) \in NavigationWatcher \cup {None}
    BY <1>1, FollowType
  <2>3. QED
    BY <1>1, <2>1, <2>2 DEF NavigationsType, MainNavigated
<1>8. ContextsType'
  <2>1. {MainFrameEntry.main, MainFrameEntry.second} \ {None} \subseteq Contexts
    BY <1>1, MainFrameEntryType DEF Frame
  <2>2. carried' \subseteq Contexts
    BY <1>1, <2>1 DEF ContextsType, MainNavigated
  <2>3. QED
    BY <1>1, <2>2 DEF ContextsType, MainNavigated
<1>9. DocumentsType'
  BY <1>1 DEF DocumentsType, MainNavigated
<1>10. QED
  BY <1>6, <1>7, <1>8, <1>9, TypeParts

-----------------------------------------------------------------------------
(* Loading                                                                 *)

LEMMA DocumentCommittedType ==
  ASSUME TypeOK, NEW m \in MainIds, NEW own \in BOOLEAN, DocumentCommitted(m, own)
  PROVE  TypeOK'
<1>1. FramesType /\ ContextsType /\ NavigationsType /\ DocumentsType
  BY TypeParts
<1>2. docs + 1 \in Loaders
  BY <1>1, BoundsAssumption DEF DocumentsType, DocumentCommitted, Loaders
<1>3. \A f \in DOMAIN frames :
        [frames[f] EXCEPT !.loader = docs + 1, !.events = {}] \in Frame
  BY <1>1, <1>2 DEF FramesType, Frame
<1>4. FramesType'
  <2>1. CASE m \in DOMAIN frames
    <3>1. frames' = [f \in DOMAIN frames |->
             IF f = m THEN [frames[f] EXCEPT !.loader = docs + 1, !.events = {}]
             ELSE frames[f]]
      BY <2>1 DEF DocumentCommitted
    <3>2. QED
      BY <1>1, <1>3, <3>1 DEF FramesType
  <2>2. CASE m \notin DOMAIN frames
    BY <1>1, <2>2 DEF FramesType, DocumentCommitted
  <2>3. QED
    BY <2>1, <2>2
<1>5. DocumentsType'
  BY <1>1, <1>2 DEF DocumentsType, DocumentCommitted
<1>6. QED
  BY <1>1, <1>4, <1>5, NavigationsStutter, ContextsStutter, TypeParts
     DEF DocumentCommitted

LEMMA SeenType ==
  ASSUME TypeOK, NEW m \in MainIds, NEW evs \in SUBSET LifecycleEvents, Seen(m, evs)
  PROVE  TypeOK'
<1>1. FramesType /\ ContextsType /\ NavigationsType /\ DocumentsType
  BY TypeParts
<1>2. \A f \in DOMAIN frames : [frames[f] EXCEPT !.events = @ \cup evs] \in Frame
  BY <1>1 DEF FramesType, Frame
<1>3. frames' = [f \in DOMAIN frames |->
         IF f = m THEN [frames[f] EXCEPT !.events = @ \cup evs] ELSE frames[f]]
  BY DEF Seen
<1>4. FramesType'
  BY <1>1, <1>2, <1>3 DEF FramesType
<1>5. DocumentsType'
  BY <1>1 DEF DocumentsType, Seen
<1>6. QED
  BY <1>1, <1>4, <1>5, NavigationsStutter, ContextsStutter, TypeParts DEF Seen

LEMMA StartedLoadingType ==
  ASSUME TypeOK, NEW m \in MainIds, FrameStartedLoading(m)
  PROVE  TypeOK'
<1>1. FramesType /\ ContextsType /\ NavigationsType /\ DocumentsType
  BY TypeParts
<1>2. \A f \in DOMAIN frames : [frames[f] EXCEPT !.events = {}] \in Frame
  BY <1>1 DEF FramesType, Frame
<1>3. frames' = [f \in DOMAIN frames |->
         IF f = m THEN [frames[f] EXCEPT !.events = {}] ELSE frames[f]]
  BY DEF FrameStartedLoading
<1>4. FramesType'
  BY <1>1, <1>2, <1>3 DEF FramesType
<1>5. QED
  BY <1>1, <1>4, NavigationsStutter, ContextsStutter, DocumentsStutter, TypeParts
     DEF FrameStartedLoading

LEMMA WithinDocumentType ==
  ASSUME TypeOK, NEW f \in FrameIds, NEW own \in BOOLEAN,
         NavigatedWithinDocument(f, own)
  PROVE  TypeOK'
<1>1. FramesType /\ ContextsType /\ NavigationsType /\ DocumentsType
  BY TypeParts
<1>2. \A g \in DOMAIN frames : [frames[g] EXCEPT !.url = TRUE] \in Frame
  BY <1>1 DEF FramesType, Frame
<1>3. FramesType'
  <2>1. CASE f \in DOMAIN frames
    <3>1. frames' = [g \in DOMAIN frames |->
             IF g = f THEN [frames[g] EXCEPT !.url = TRUE] ELSE frames[g]]
      BY <2>1 DEF NavigatedWithinDocument
    <3>2. QED
      BY <1>1, <1>2, <3>1 DEF FramesType
  <2>2. CASE f \notin DOMAIN frames
    BY <1>1, <2>2 DEF FramesType, NavigatedWithinDocument
  <2>3. QED
    BY <2>1, <2>2
<1>4. navigation' \in NavigationWatcher \cup {None}
  <2>1. navigation # None => [navigation EXCEPT !.same = TRUE] \in NavigationWatcher
    BY <1>1 DEF NavigationsType, NavigationWatcher
  <2>2. navigation \in NavigationWatcher \cup {None}
    BY <1>1 DEF NavigationsType
  <2>3. QED
    BY <2>1, <2>2 DEF NavigatedWithinDocument
<1>5. NavigationsType'
  BY <1>1, <1>4 DEF NavigationsType, NavigatedWithinDocument
<1>6. DocumentsType'
  BY <1>1 DEF DocumentsType, NavigatedWithinDocument
<1>7. QED
  BY <1>1, <1>3, <1>5, <1>6, ContextsStutter, TypeParts DEF NavigatedWithinDocument

-----------------------------------------------------------------------------
(* Execution contexts                                                      *)

LEMMA ContextCreatedType ==
  ASSUME TypeOK, NEW f \in FrameIds, NEW c \in Contexts, NEW d \in BOOLEAN,
         ContextCreated(f, c, d)
  PROVE  TypeOK'
<1>1. FramesType /\ ContextsType /\ NavigationsType /\ DocumentsType
  BY TypeParts
<1>2. \A g \in DOMAIN frames : /\ [frames[g] EXCEPT !.main = c] \in Frame
                               /\ [frames[g] EXCEPT !.second = c] \in Frame
  BY <1>1 DEF FramesType, Frame
<1>3. FramesType'
  <2>1. CASE f \in DOMAIN frames
    <3>1. \/ frames' = [g \in DOMAIN frames |->
               IF g = f THEN [frames[g] EXCEPT !.main = c] ELSE frames[g]]
          \/ frames' = [g \in DOMAIN frames |->
               IF g = f THEN [frames[g] EXCEPT !.second = c] ELSE frames[g]]
          \/ frames' = frames
      <4>1. CASE d
        BY <2>1, <4>1 DEF ContextCreated
      <4>2. CASE ~d /\ frames[f].second = None
        BY <2>1, <4>2 DEF ContextCreated
      <4>3. CASE ~d /\ frames[f].second # None
        BY <2>1, <4>3 DEF ContextCreated
      <4>4. QED
        BY <4>1, <4>2, <4>3
    <3>2. QED
      BY <1>1, <1>2, <3>1 DEF FramesType
  <2>2. CASE f \notin DOMAIN frames
    BY <1>1, <2>2 DEF FramesType, ContextCreated
  <2>3. QED
    BY <2>1, <2>2
<1>4. ContextsType'
  <2>1. /\ DOMAIN With(contextIds, c, f) \subseteq Contexts
        /\ \A x \in DOMAIN With(contextIds, c, f) : With(contextIds, c, f)[x] \in FrameIds
    BY <1>1, WithType DEF ContextsType
  <2>2. contextIds' = With(contextIds, c, f) \/ contextIds' = contextIds
    BY DEF ContextCreated
  <2>3. /\ DOMAIN contextIds' \subseteq Contexts
        /\ \A x \in DOMAIN contextIds' : contextIds'[x] \in FrameIds
    BY <1>1, <2>1, <2>2 DEF ContextsType
  <2>4. QED
    BY <1>1, <2>3 DEF ContextsType, ContextCreated
<1>5. QED
  BY <1>1, <1>3, <1>4, NavigationsStutter, DocumentsStutter, TypeParts
     DEF ContextCreated

(* Fewer entries of context_ids are still entries of it.                   *)
LEMMA RestrictType ==
  ASSUME ContextsType, NEW S \in SUBSET DOMAIN contextIds
  PROVE  /\ DOMAIN Restrict(contextIds, S) \subseteq Contexts
         /\ \A c \in DOMAIN Restrict(contextIds, S) :
              Restrict(contextIds, S)[c] \in FrameIds
BY DEF ContextsType, Restrict

LEMMA ContextDestroyedType ==
  ASSUME TypeOK, NEW c \in Contexts, ContextDestroyed(c)
  PROVE  TypeOK'
<1>1. FramesType /\ ContextsType /\ NavigationsType /\ DocumentsType
  BY TypeParts
<1>2. \A g \in DOMAIN frames : DestroyedIn(frames[g], c) \in Frame
  BY <1>1 DEF FramesType, Frame, DestroyedIn
<1>3. FramesType'
  <2>1. \/ frames' = frames
        \/ /\ contextIds[c] \in DOMAIN frames
           /\ frames' = [frames EXCEPT ![contextIds[c]] = DestroyedIn(@, c)]
    BY DEF ContextDestroyed
  <2>2. CASE /\ contextIds[c] \in DOMAIN frames
             /\ frames' = [frames EXCEPT ![contextIds[c]] = DestroyedIn(@, c)]
    <3>1. frames' = [g \in DOMAIN frames |->
             IF g = contextIds[c] THEN DestroyedIn(frames[g], c) ELSE frames[g]]
      BY <2>2
    <3>2. QED
      BY <1>1, <1>2, <3>1 DEF FramesType
  <2>3. QED
    BY <1>1, <2>1, <2>2 DEF FramesType
<1>4. ContextsType'
  <2>1. /\ DOMAIN contextIds' \subseteq Contexts
        /\ \A x \in DOMAIN contextIds' : contextIds'[x] \in FrameIds
    <3>1. CASE c \in DOMAIN contextIds
      <4>1. DOMAIN contextIds \ {c} \in SUBSET DOMAIN contextIds
        OBVIOUS
      <4>2. contextIds' = Restrict(contextIds, DOMAIN contextIds \ {c})
        BY <3>1 DEF ContextDestroyed
      <4>3. QED
        BY <1>1, <4>1, <4>2, RestrictType
    <3>2. CASE c \notin DOMAIN contextIds
      BY <1>1, <3>2 DEF ContextsType, ContextDestroyed
    <3>3. QED
      BY <3>1, <3>2
  <2>2. QED
    BY <1>1, <2>1 DEF ContextsType, ContextDestroyed
<1>5. QED
  BY <1>1, <1>3, <1>4, NavigationsStutter, DocumentsStutter, TypeParts
     DEF ContextDestroyed

LEMMA ContextsClearedType ==
  ASSUME TypeOK, ContextsCleared
  PROVE  TypeOK'
<1>1. FramesType /\ ContextsType /\ NavigationsType /\ DocumentsType
  BY TypeParts
<1>2. \A g \in DOMAIN frames :
        [frames[g] EXCEPT !.main = None, !.second = None] \in Frame
  BY <1>1 DEF FramesType, Frame
<1>3. FramesType'
  BY <1>1, <1>2 DEF FramesType, ContextsCleared
<1>4. ContextsType'
  BY <1>1 DEF ContextsType, ContextsCleared
<1>5. QED
  BY <1>1, <1>3, <1>4, NavigationsStutter, DocumentsStutter, TypeParts
     DEF ContextsCleared

LEMMA EvictStaleType ==
  ASSUME TypeOK, EvictStaleContextIds
  PROVE  TypeOK'
<1>1. FramesType /\ ContextsType /\ NavigationsType /\ DocumentsType
  BY TypeParts
<1>2. FramesType'
  BY <1>1 DEF FramesType, EvictStaleContextIds
<1>3. ContextsType'
  <2>1. /\ DOMAIN contextIds' \subseteq Contexts
        /\ \A x \in DOMAIN contextIds' : contextIds'[x] \in FrameIds
    BY <1>1, RestrictType DEF EvictStaleContextIds
  <2>2. QED
    BY <1>1, <2>1 DEF ContextsType, EvictStaleContextIds
<1>4. QED
  BY <1>1, <1>2, <1>3, NavigationsStutter, DocumentsStutter, TypeParts
     DEF EvictStaleContextIds

-----------------------------------------------------------------------------
(* Navigations                                                             *)

(* What goto queues is a watcher.                                          *)
LEMMA GotoWatcher ==
  ASSUME FramesType, NavigationsType, NEW n \in Navs, mainFrame # None
  PROVE  UntilLoad(n) \in NavigationWatcher
<1>1. 0 \in Loaders
  BY BoundsAssumption DEF Loaders
<1>2. (IF mainFrame \in DOMAIN frames THEN frames[mainFrame].loader ELSE 0) \in Loaders
  BY <1>1 DEF FramesType, Frame
<1>3. mainFrame \in MainIds
  BY DEF NavigationsType
<1>4. QED
  BY <1>2, <1>3 DEF UntilLoad, NavigationWatcher

LEMMA GotoType ==
  ASSUME TypeOK, NEW n \in Navs, Goto(n)
  PROVE  TypeOK'
<1>1. FramesType /\ ContextsType /\ NavigationsType /\ DocumentsType
  BY TypeParts
<1>2. FramesType'
  BY <1>1 DEF FramesType, Goto
<1>3. NavigationsType'
  <2>1. CASE mainFrame = None
    BY <1>1, <2>1 DEF NavigationsType, Goto
  <2>2. CASE mainFrame # None
    <3>1. UntilLoad(n) \in NavigationWatcher
      BY <1>1, <2>2, GotoWatcher
    <3>2. pending' \in Seq(NavigationWatcher)
      BY <1>1, <2>2, <3>1 DEF NavigationsType, Goto
    <3>3. navCount' \in Nat
      BY <2>2 DEF Goto
    <3>4. QED
      BY <1>1, <3>2, <3>3 DEF NavigationsType, Goto
  <2>3. QED
    BY <2>1, <2>2
<1>4. QED
  BY <1>1, <1>2, <1>3, ContextsStutter, DocumentsStutter, TypeParts DEF Goto

LEMMA DeadlineType ==
  ASSUME TypeOK, DeadlinePasses
  PROVE  TypeOK'
BY DEF TypeOK, DeadlinePasses, docVars, ctxVars

LEMMA PollActiveType ==
  ASSUME TypeOK, PollActive
  PROVE  TypeOK'
<1>1. FramesType /\ ContextsType /\ NavigationsType /\ DocumentsType
  BY TypeParts
<1>2. FramesType'
  BY <1>1 DEF FramesType, PollActive
<1>3. NavigationsType'
  <2>1. navigation.id \in Navs
    BY <1>1 DEF NavigationsType, NavigationWatcher, PollActive
  <2>2. QED
    BY <1>1, <2>1 DEF NavigationsType, PollActive
<1>4. QED
  BY <1>1, <1>2, <1>3, ContextsStutter, DocumentsStutter, TypeParts DEF PollActive

LEMMA PollPendingType ==
  ASSUME TypeOK, PollPending
  PROVE  TypeOK'
<1>1. FramesType /\ ContextsType /\ NavigationsType /\ DocumentsType
  BY TypeParts
<1>2. FramesType'
  BY <1>1 DEF FramesType, PollPending
<1>3. NavigationsType'
  <2>1. Head(pending) \in NavigationWatcher /\ Tail(pending) \in Seq(NavigationWatcher)
    BY <1>1 DEF NavigationsType, PollPending
  <2>2. QED
    BY <1>1, <2>1 DEF NavigationsType, PollPending
<1>4. DocumentsType'
  BY <1>1 DEF DocumentsType, PollPending
<1>5. QED
  BY <1>1, <1>2, <1>3, <1>4, ContextsStutter, TypeParts DEF PollPending

-----------------------------------------------------------------------------

LEMMA InitType == Init => TypeOK
<1>1. 0 \in Loaders
  BY BoundsAssumption DEF Loaders
<1>2. << >> \in Seq(NavigationWatcher)
  OBVIOUS
<1>3. ASSUME Init PROVE FramesType /\ ContextsType
  BY <1>3 DEF Init, FramesType, ContextsType
<1>4. ASSUME Init PROVE NavigationsType /\ DocumentsType
  BY <1>1, <1>2, <1>4 DEF Init, NavigationsType, DocumentsType
<1>5. QED
  BY <1>3, <1>4, TypeParts

LEMMA NextType == TypeOK /\ [Next]_vars => TypeOK'
<1> SUFFICES ASSUME TypeOK, [Next]_vars
             PROVE  TypeOK'
  OBVIOUS
<1>1. CASE \E f \in ChildIds, p \in FrameIds : FrameAttached(f, p)
  BY <1>1, FrameAttachedType
<1>2. CASE \E f \in FrameIds : FrameDetached(f)
  BY <1>2, FrameDetachedType
<1>3. CASE \E f \in ChildIds : ChildNavigated(f)
  BY <1>3, ChildNavigatedType
<1>4. CASE \E m \in MainIds : FrameNavigated(m)
  <2>1. {} \in SUBSET ChildIds
    OBVIOUS
  <2>2. QED
    BY <1>4, <2>1, MainNavigatedType DEF FrameNavigated
<1>5. CASE \E m \in MainIds, kids \in SUBSET ChildIds : FrameTree(m, kids)
  BY <1>5, MainNavigatedType DEF FrameTree
<1>6. CASE \E m \in MainIds : \E own \in MayServe(m) : DocumentCommitted(m, own)
  BY <1>6, DocumentCommittedType DEF MayServe
<1>7. CASE \E m \in MainIds : PageLifecycleEvent(m)
  <2>1. \A e \in LifecycleEvents : {e} \in SUBSET LifecycleEvents
    OBVIOUS
  <2>2. QED
    BY <1>7, <2>1, SeenType DEF PageLifecycleEvent
<1>8. CASE \E m \in MainIds : FrameStoppedLoading(m)
  <2>1. LifecycleEvents \in SUBSET LifecycleEvents
    OBVIOUS
  <2>2. QED
    BY <1>8, <2>1, SeenType DEF FrameStoppedLoading
<1>9. CASE \E m \in MainIds : FrameStartedLoading(m)
  BY <1>9, StartedLoadingType
<1>10. CASE \E f \in FrameIds : \E own \in MayServe(f) : NavigatedWithinDocument(f, own)
  BY <1>10, WithinDocumentType DEF MayServe
<1>11. CASE \E f \in FrameIds, c \in Contexts, d \in BOOLEAN : ContextCreated(f, c, d)
  BY <1>11, ContextCreatedType
<1>12. CASE \E c \in Contexts : ContextDestroyed(c)
  BY <1>12, ContextDestroyedType
<1>13. CASE ContextsCleared
  BY <1>13, ContextsClearedType
<1>14. CASE EvictStaleContextIds
  BY <1>14, EvictStaleType
<1>15. CASE \E n \in Navs : Goto(n)
  BY <1>15, GotoType
<1>16. CASE DeadlinePasses
  BY <1>16, DeadlineType
<1>17. CASE Poll
  BY <1>17, PollActiveType, PollPendingType DEF Poll
<1>18. CASE UNCHANGED vars
  BY <1>18 DEF TypeOK, vars, navVars, docVars, ctxVars
<1>19. QED
  BY <1>1, <1>2, <1>3, <1>4, <1>5, <1>6, <1>7, <1>8, <1>9, <1>10, <1>11, <1>12,
     <1>13, <1>14, <1>15, <1>16, <1>17, <1>18 DEF Next

(* Frames, watchers, contexts and counters keep their types through every  *)
(* event, goto and poll of frame.rs.                                       *)
THEOREM FrameTypeCorrect == Spec => []TypeOK
<1>1. Init => TypeOK
  BY InitType
<1>2. TypeOK /\ [Next]_vars => TypeOK'
  BY NextType
<1>3. QED
  BY <1>1, <1>2, PTL DEF Spec

-----------------------------------------------------------------------------
(* A navigation that watches the main frame keeps watching it              *)

FollowsStep ==
  navigation # None /\ navigation.frame = mainFrame /\ navigation' # None
    => navigation'.frame = mainFrame'

LEMMA FollowsNext == TypeOK /\ [Next]_vars => FollowsStep
<1> SUFFICES ASSUME TypeOK, [Next]_vars,
                    navigation # None, navigation.frame = mainFrame,
                    navigation' # None
             PROVE  navigation'.frame = mainFrame'
  BY DEF FollowsStep
<1>1. navigation \in NavigationWatcher
  BY DEF TypeOK
<1>2. CASE \E m \in MainIds : \E kids : MainNavigated(m, kids)
  <2>1. PICK m \in MainIds : \E kids : MainNavigated(m, kids)
    BY <1>2
  <2>2. navigation' = Follow(m) /\ mainFrame' = m
    BY <2>1 DEF MainNavigated
  <2>3. QED
    BY <1>1, <2>2 DEF Follow, NavigationWatcher
<1>3. CASE \E f \in FrameIds : \E own : NavigatedWithinDocument(f, own)
  <2>1. mainFrame' = mainFrame
    BY <1>3 DEF NavigatedWithinDocument
  <2>2. navigation'.frame = navigation.frame
    BY <1>1, <1>3 DEF NavigatedWithinDocument, NavigationWatcher
  <2>3. QED
    BY <2>1, <2>2
<1>4. CASE Poll
  BY <1>4 DEF Poll, PollActive, PollPending
<1>5. CASE UNCHANGED <<mainFrame, navigation>>
  BY <1>5
<1>6. QED
  BY <1>2, <1>3, <1>4, <1>5 DEF Next, vars, navVars, FrameAttached, FrameDetached,
     ChildNavigated, FrameNavigated, FrameTree, DocumentCommitted,
     PageLifecycleEvent, FrameStoppedLoading, Seen, FrameStartedLoading,
     ContextCreated, ContextDestroyed, ContextsCleared, EvictStaleContextIds,
     Goto, DeadlinePasses

(* The rename of the main frame in on_frame_navigated never leaves the     *)
(* active watcher behind.                                                  *)
THEOREM FollowsMainAlways == Spec => FollowsMain
<1>1. TypeOK /\ [Next]_vars => [FollowsStep]_vars
  BY FollowsNext
<1>2. QED
  BY <1>1, FrameTypeCorrect, PTL DEF Spec, FollowsMain, FollowsStep

-----------------------------------------------------------------------------
(* The navigations of the FrameManager implement Navigations               *)

LEMMA ActiveIdValue ==
  ASSUME NavigationsType
  PROVE  ActiveId = None <=> navigation = None
<1>1. navigation # None => navigation.id \in Navs
  BY DEF NavigationsType, NavigationWatcher
<1>2. QED
  BY <1>1, NoneAssumption DEF ActiveId

(* Appending a watcher appends its id.                                     *)
LEMMA QueuedAppend ==
  ASSUME NavigationsType, NEW w \in NavigationWatcher,
         pending' = Append(pending, w)
  PROVE  QueuedIds' = Append(QueuedIds, w.id)
<1>1. /\ pending \in Seq(NavigationWatcher)
      /\ DOMAIN pending = 1..Len(pending) /\ Len(pending) \in Nat
  BY DEF NavigationsType
<1>2. /\ DOMAIN pending' = 1..(Len(pending) + 1)
      /\ \A i \in 1..Len(pending) : pending'[i] = pending[i]
      /\ pending'[Len(pending) + 1] = w
  BY <1>1
<1>3. /\ QueuedIds \in Seq(Navs) /\ Len(QueuedIds) = Len(pending)
      /\ \A i \in 1..Len(pending) : QueuedIds[i] = pending[i].id
  <2>0. \A i \in 1..Len(pending) : pending[i] \in NavigationWatcher
    BY <1>1
  <2>1. \A i \in 1..Len(pending) : pending[i].id \in Navs
    BY <2>0 DEF NavigationWatcher
  <2>2. QueuedIds \in [1..Len(pending) -> Navs]
    BY <1>1, <2>1 DEF QueuedIds
  <2>3. QED
    BY <1>1, <2>2 DEF QueuedIds
<1>4. QueuedIds' = [i \in 1..(Len(pending) + 1) |-> pending'[i].id]
  BY <1>2 DEF QueuedIds
<1>5. w.id \in Navs
  BY DEF NavigationWatcher
<1>6. Append(QueuedIds, w.id) =
        [i \in 1..(Len(pending) + 1) |->
           IF i = Len(pending) + 1 THEN w.id ELSE QueuedIds[i]]
  BY <1>3, <1>5
<1>7. \A i \in 1..(Len(pending) + 1) :
        pending'[i].id = IF i = Len(pending) + 1 THEN w.id ELSE QueuedIds[i]
  <2> TAKE i \in 1..(Len(pending) + 1)
  <2>1. i = Len(pending) + 1 \/ i \in 1..Len(pending)
    BY <1>1
  <2>2. QED
    BY <1>1, <1>2, <1>3, <2>1
<1>8. QED
  BY <1>4, <1>6, <1>7

LEMMA TailFunction ==
  ASSUME NEW S, NEW q \in Seq(S), q # << >>
  PROVE  Tail(q) = [i \in 1..(Len(q) - 1) |-> q[i + 1]]
<1>1. /\ Tail(q) \in Seq(S) /\ Len(Tail(q)) = Len(q) - 1
      /\ \A i \in 1..(Len(q) - 1) : Tail(q)[i] = q[i + 1]
  OBVIOUS
<1>2. /\ [i \in 1..(Len(q) - 1) |-> q[i + 1]] \in Seq(S)
      /\ Len([i \in 1..(Len(q) - 1) |-> q[i + 1]]) = Len(q) - 1
  <2>1. \A i \in 1..(Len(q) - 1) : q[i + 1] \in S
    OBVIOUS
  <2>2. Len(q) - 1 \in Nat
    OBVIOUS
  <2>3. QED
    BY <2>1, <2>2, IsASeq
<1>3. QED
  BY <1>1, <1>2, SeqEqual

(* Taking the first watcher takes the first id.                            *)
LEMMA QueuedTail ==
  ASSUME NavigationsType, pending # << >>, pending' = Tail(pending)
  PROVE  /\ QueuedIds # << >>
         /\ Head(QueuedIds) = Head(pending).id
         /\ QueuedIds' = Tail(QueuedIds)
<1>1. /\ pending \in Seq(NavigationWatcher)
      /\ DOMAIN pending = 1..Len(pending) /\ Len(pending) \in Nat
      /\ Len(pending) > 0
  BY DEF NavigationsType
<1>2. /\ DOMAIN pending' = 1..(Len(pending) - 1)
      /\ \A i \in 1..(Len(pending) - 1) : pending'[i] = pending[i + 1]
  BY <1>1
<1>3. /\ QueuedIds \in Seq(Navs) /\ Len(QueuedIds) = Len(pending)
      /\ \A i \in 1..Len(pending) : QueuedIds[i] = pending[i].id
  <2>0. \A i \in 1..Len(pending) : pending[i] \in NavigationWatcher
    BY <1>1
  <2>1. \A i \in 1..Len(pending) : pending[i].id \in Navs
    BY <2>0 DEF NavigationWatcher
  <2>2. QueuedIds \in [1..Len(pending) -> Navs]
    BY <1>1, <2>1 DEF QueuedIds
  <2>3. QED
    BY <1>1, <2>2 DEF QueuedIds
<1>4. QueuedIds' = [i \in 1..(Len(pending) - 1) |-> pending'[i].id]
  BY <1>2 DEF QueuedIds
<1>5. Tail(QueuedIds) = [i \in 1..(Len(pending) - 1) |-> QueuedIds[i + 1]]
  <2>1. QueuedIds # << >>
    BY <1>1, <1>3
  <2>2. QED
    BY <1>1, <1>3, <2>1, TailFunction
<1>6. \A i \in 1..(Len(pending) - 1) : pending'[i].id = QueuedIds[i + 1]
  BY <1>1, <1>2, <1>3
<1>7. QueuedIds # << >> /\ Head(QueuedIds) = Head(pending).id
  BY <1>1, <1>3
<1>8. QED
  BY <1>4, <1>5, <1>6, <1>7

LEMMA ImplementsInit == Init => Abstract!Init
BY DEF Init, Abstract!Init, QueuedIds, ActiveId

LEMMA ImplementsNext ==
  TypeOK /\ [Next]_vars => [Abstract!Next]_(Abstract!vars)
<1> SUFFICES ASSUME TypeOK, [Next]_vars
             PROVE  Abstract!Next \/ UNCHANGED Abstract!vars
  OBVIOUS
<1> USE DEF Abstract!Next, Abstract!vars
<1>1. FramesType /\ NavigationsType
  BY TypeParts
<1>2. CASE \E m \in MainIds : \E kids : MainNavigated(m, kids)
  <2>1. PICK m \in MainIds : \E kids : MainNavigated(m, kids)
    BY <1>2
  <2>2. navigation' = Follow(m) /\ pending' = pending
    BY <2>1 DEF MainNavigated
  <2>3. ActiveId' = ActiveId
    BY <1>1, <2>2, FollowType, NoneIsNoWatcher DEF ActiveId
  <2>4. QED
    BY <2>2, <2>3 DEF QueuedIds
<1>3. CASE \E f \in FrameIds : \E own : NavigatedWithinDocument(f, own)
  <2>1. pending' = pending
    BY <1>3 DEF NavigatedWithinDocument
  <2>2. ActiveId' = ActiveId
    <3>1. CASE navigation = None
      BY <1>3, <3>1 DEF NavigatedWithinDocument, ActiveId
    <3>2. CASE navigation # None
      <4>1. navigation \in NavigationWatcher
        BY <1>1, <3>2 DEF NavigationsType
      <4>2. navigation' # None /\ navigation'.id = navigation.id
        <5>1. \/ navigation' = navigation
              \/ navigation' = [navigation EXCEPT !.same = TRUE]
          BY <1>3 DEF NavigatedWithinDocument
        <5>2. [navigation EXCEPT !.same = TRUE] # None
          BY <4>1, NoneIsNoWatcher DEF NavigationWatcher
        <5>3. QED
          BY <3>2, <4>1, <5>1, <5>2 DEF NavigationWatcher
      <4>3. QED
        BY <3>2, <4>2 DEF ActiveId
    <3>3. QED
      BY <3>1, <3>2
  <2>3. QED
    BY <2>1, <2>2 DEF QueuedIds
<1>4. CASE \E n \in Navs : Goto(n)
  <2>1. PICK n \in Navs : Goto(n)
    BY <1>4
  <2>2. ActiveId' = ActiveId
    BY <2>1 DEF Goto, ActiveId
  <2>3. CASE mainFrame = None
    BY <2>1, <2>2, <2>3 DEF Goto, QueuedIds
  <2>4. CASE mainFrame # None
    <3>1. UntilLoad(n) \in NavigationWatcher /\ UntilLoad(n).id = n
      BY <1>1, <2>4, GotoWatcher DEF UntilLoad
    <3>2. QueuedIds' = Append(QueuedIds, n)
      BY <1>1, <2>1, <2>4, <3>1, QueuedAppend DEF Goto
    <3>3. QED
      BY <2>2, <3>2 DEF Abstract!Queue
  <2>5. QED
    BY <2>3, <2>4
<1>5. CASE PollActive
  <2>1. ActiveId # None /\ ActiveId' = None /\ QueuedIds' = QueuedIds
    BY <1>1, <1>5, ActiveIdValue DEF PollActive, ActiveId, QueuedIds
  <2>2. QED
    BY <2>1 DEF Abstract!End
<1>6. CASE PollPending
  <2>1. ActiveId = None
    BY <1>6 DEF PollPending, ActiveId
  <2>2. /\ QueuedIds # << >>
        /\ Head(QueuedIds) = Head(pending).id
        /\ QueuedIds' = Tail(QueuedIds)
    BY <1>1, <1>6, QueuedTail DEF PollPending
  <2>3. ActiveId' = Head(pending).id
    <3>1. Head(pending) \in NavigationWatcher
      BY <1>1, <1>6 DEF NavigationsType, PollPending
    <3>2. Head(pending) # None
      BY <3>1, NoneIsNoWatcher
    <3>3. QED
      BY <1>6, <3>2 DEF PollPending, ActiveId
  <2>4. QED
    BY <2>1, <2>2, <2>3 DEF Abstract!Start
<1>7. CASE UNCHANGED <<pending, navigation>>
  BY <1>7 DEF QueuedIds, ActiveId
<1>8. QED
  BY <1>2, <1>3, <1>4, <1>5, <1>6, <1>7 DEF Next, vars, navVars, FrameAttached,
     FrameDetached, ChildNavigated, FrameNavigated, FrameTree, DocumentCommitted,
     PageLifecycleEvent, FrameStoppedLoading, Seen, FrameStartedLoading,
     ContextCreated, ContextDestroyed, ContextsCleared, EvictStaleContextIds,
     DeadlinePasses, Poll

(* The FrameManager implements the queue of navigations that the Handler   *)
(* relies on: none is lost, repeated or overtaken.                         *)
THEOREM NavigationsImplemented == Spec => ImplementsNavigations
<1>1. Init => Abstract!Init
  BY ImplementsInit
<1>2. TypeOK /\ [Next]_vars => [Abstract!Next]_(Abstract!vars)
  BY ImplementsNext
<1>3. QED
  BY <1>1, <1>2, FrameTypeCorrect, PTL DEF Spec, ImplementsNavigations, Abstract!Spec

-----------------------------------------------------------------------------
(* The frames form a tree                                                  *)

(* The main frame has no parent.                                           *)
Rooted == mainFrame \in DOMAIN frames => frames[mainFrame].parent = None

TreeInv == TreeConsistent /\ Rooted

(* What is below f: a set that follows the lists of children holds all of  *)
(* it, and it follows them itself.                                         *)
LEMMA UnderSmallest ==
  ASSUME NEW fs, NEW f, NEW S \in SUBSET (FrameIds \cup {f}), f \in S, Closed(fs, S)
  PROVE  Under(fs, f) \subseteq S
BY DEF Under

LEMMA UnderClosed ==
  ASSUME NEW fs, NEW f, \A g \in DOMAIN fs : fs[g].children \subseteq FrameIds
  PROVE  f \in Under(fs, f) /\ Closed(fs, Under(fs, f)) /\ Under(fs, f) \subseteq FrameIds \cup {f}
<1>1. f \in Under(fs, f) /\ Under(fs, f) \subseteq FrameIds \cup {f}
  BY DEF Under
<1>2. ASSUME NEW g \in Under(fs, f) \cap DOMAIN fs, NEW x \in fs[g].children
      PROVE  x \in Under(fs, f)
  <2>1. ASSUME NEW S \in SUBSET (FrameIds \cup {f}), f \in S, Closed(fs, S)
        PROVE  x \in S
    <3>1. g \in S
      BY <2>1, UnderSmallest
    <3> QED BY <2>1, <3>1 DEF Closed
  <2> QED BY <2>1 DEF Under
<1> QED BY <1>1, <1>2 DEF Closed

LEMMA ChildTypes ==
  ASSUME TypeOK
  PROVE  /\ DOMAIN frames \subseteq FrameIds
         /\ \A g \in DOMAIN frames : frames[g].children \subseteq FrameIds
         /\ ChildIds \subseteq FrameIds /\ MainIds \subseteq FrameIds
         /\ mainFrame \in MainIds \cup {None}
         /\ None \notin FrameIds /\ None \notin ChildIds
         /\ mainFrame \notin ChildIds
BY FrameIdsAssumption, NoneAssumption DEF TypeOK, Frame, FrameIds

(* A frame other than f is below f only if its parent is; f itself has no  *)
(* parent below it.                                                        *)
LEMMA BelowParent ==
  ASSUME TypeOK, TreeInv, NEW f \in DOMAIN frames, NEW x \in DOMAIN frames,
         x \in Under(frames, f), x # f
  PROVE  frames[x].parent \in Under(frames, f) /\ x # mainFrame
<1>1. frames[x].parent \in Under(frames, f)
  <2> SUFFICES ASSUME frames[x].parent \notin Under(frames, f)
               PROVE  FALSE
    OBVIOUS
  <2> DEFINE S == Under(frames, f) \ {x}
  <2>1. f \in Under(frames, f) /\ Closed(frames, Under(frames, f))
        /\ Under(frames, f) \subseteq FrameIds \cup {f}
    BY ChildTypes, UnderClosed
  <2>2. Closed(frames, S)
    BY <2>1 DEF Closed, TreeInv, TreeConsistent
  <2>3. S \in SUBSET (FrameIds \cup {f}) /\ f \in S
    BY <2>1
  <2>4. Under(frames, f) \subseteq S
    BY <2>2, <2>3, UnderSmallest
  <2> QED BY <2>4
<1>2. x # mainFrame
  <2>1. None \notin DOMAIN frames
    BY ChildTypes
  <2>2. Under(frames, f) \subseteq FrameIds \cup {f}
    BY ChildTypes, UnderClosed
  <2> QED BY <1>1, <2>1, <2>2, ChildTypes DEF TreeInv, Rooted
<1> QED BY <1>1, <1>2

LEMMA NoCycle ==
  ASSUME TypeOK, TreeInv, NEW f \in DOMAIN frames, f # mainFrame
  PROVE  frames[f].parent \notin Under(frames, f)
<1> SUFFICES ASSUME frames[f].parent \in Under(frames, f)
             PROVE  FALSE
  OBVIOUS
<1> DEFINE S == (FrameIds \cup {mainFrame}) \ Under(frames, f)
<1>1. f \in Under(frames, f)
  BY ChildTypes, UnderClosed
<1>2. mainFrame \in S
  <2>1. mainFrame \in DOMAIN frames => mainFrame \notin Under(frames, f)
    BY BelowParent
  <2>2. mainFrame \in Under(frames, f) => mainFrame \in DOMAIN frames
    <3> DEFINE D == DOMAIN frames
    <3>1. D \in SUBSET (FrameIds \cup {f}) /\ f \in D /\ Closed(frames, D)
      BY ChildTypes DEF Closed, TreeInv, TreeConsistent
    <3>2. Under(frames, f) \subseteq D
      BY <3>1, UnderSmallest
    <3> QED BY <3>2
  <2> QED BY <2>1, <2>2
<1>3. Closed(frames, S)
  <2>1. ASSUME NEW g \in S \cap DOMAIN frames, NEW x \in frames[g].children
        PROVE  x \in S
    <3>1. x \in DOMAIN frames /\ frames[x].parent = g
      BY <2>1 DEF TreeInv, TreeConsistent
    <3>2. x \notin Under(frames, f)
      BY <2>1, <3>1, BelowParent
    <3> QED BY <3>1, <3>2, ChildTypes
  <2> QED BY <2>1 DEF Closed
<1>4. DOMAIN frames \subseteq S
  <2>1. Under(frames, mainFrame) \subseteq S
    BY <1>2, <1>3, UnderSmallest
  <2> QED BY <2>1 DEF TreeInv, TreeConsistent
<1> QED BY <1>1, <1>4

(* A step that leaves parents and children alone keeps the tree.           *)
LEMMA SameTree ==
  ASSUME TreeInv, mainFrame' = mainFrame, DOMAIN frames' = DOMAIN frames,
         \A g \in DOMAIN frames : /\ frames'[g].parent = frames[g].parent
                                  /\ frames'[g].children = frames[g].children
  PROVE  TreeInv'
<1>1. \A S : Closed(frames', S) <=> Closed(frames, S)
  BY DEF Closed
<1>2. Under(frames', mainFrame') = Under(frames, mainFrame)
  BY <1>1 DEF Under
<1>3. \A f \in DOMAIN frames' :
        /\ frames'[f].children = {g \in DOMAIN frames' : frames'[g].parent = f}
        /\ f # mainFrame' => frames'[f].parent \in DOMAIN frames'
  BY DEF TreeInv, TreeConsistent
<1>4. DOMAIN frames' \subseteq Under(frames', mainFrame')
  BY <1>2 DEF TreeInv, TreeConsistent
<1> QED BY <1>3, <1>4 DEF TreeInv, TreeConsistent, Rooted

(* The new frames are reached when every set that follows the new lists    *)
(* from the main frame holds them.                                         *)
LEMMA ReachedIs ==
  ASSUME NEW fs, NEW m, DOMAIN fs \subseteq FrameIds,
         \A S \in SUBSET (FrameIds \cup {m}) : m \in S /\ Closed(fs, S) => DOMAIN fs \subseteq S
  PROVE  DOMAIN fs \subseteq Under(fs, m)
BY DEF Under

LEMMA AttachedTree ==
  ASSUME TypeOK, TreeInv, NEW f \in ChildIds, NEW p \in FrameIds, FrameAttached(f, p)
  PROVE  TreeInv'
<1>1. /\ f \notin DOMAIN frames /\ p \in DOMAIN frames /\ mainFrame' = mainFrame
      /\ DOMAIN frames' = DOMAIN frames \cup {f}
      /\ frames'[f].parent = p /\ frames'[f].children = {}
      /\ frames[p] \in Frame
      /\ frames'[p] = [frames[p] EXCEPT !.children = @ \cup {f}]
      /\ \A g \in DOMAIN frames \ {p} : frames'[g] = frames[g]
  BY DEF FrameAttached, With, NewFrame, TypeOK
<1>2. /\ frames'[p].parent = frames[p].parent
      /\ frames'[p].children = frames[p].children \cup {f}
  BY <1>1 DEF Frame
<1>3. \A g \in DOMAIN frames : frames'[g].parent = frames[g].parent /\ frames[g].parent # f
  BY <1>1, <1>2, ChildTypes DEF TreeInv, TreeConsistent, Rooted
<1>4. \A g \in DOMAIN frames' :
        /\ frames'[g].children = {x \in DOMAIN frames' : frames'[x].parent = g}
        /\ g # mainFrame' => frames'[g].parent \in DOMAIN frames'
  <2>1. \A g \in DOMAIN frames :
          frames[g].children = {x \in DOMAIN frames : frames[x].parent = g}
    BY DEF TreeInv, TreeConsistent
  <2>2. \A g \in DOMAIN frames \ {p} :
          frames'[g].children = {x \in DOMAIN frames' : frames'[x].parent = g}
    BY <1>1, <1>3, <2>1
  <2>3. /\ frames'[f].children = {x \in DOMAIN frames' : frames'[x].parent = f}
        /\ frames'[p].children = {x \in DOMAIN frames' : frames'[x].parent = p}
    BY <1>1, <1>2, <1>3, <2>1
  <2>4. \A g \in DOMAIN frames' : g # mainFrame' => frames'[g].parent \in DOMAIN frames'
    BY <1>1, <1>3 DEF TreeInv, TreeConsistent
  <2> TAKE g \in DOMAIN frames'
  <2>5. CASE g \in DOMAIN frames \ {p}
    BY <2>2, <2>4, <2>5
  <2>6. CASE g = f
    BY <2>3, <2>4, <2>6
  <2>7. CASE g = p
    BY <2>3, <2>4, <2>7
  <2> QED BY <1>1, <2>5, <2>6, <2>7
<1>5. ASSUME NEW S \in SUBSET (FrameIds \cup {mainFrame}), mainFrame \in S, Closed(frames', S)
      PROVE  DOMAIN frames' \subseteq S
  <2>1. Closed(frames, S)
    BY <1>1, <1>2, <1>5 DEF Closed
  <2>2. DOMAIN frames \subseteq S
    BY <1>5, <2>1, UnderSmallest DEF TreeInv, TreeConsistent
  <2> QED BY <1>1, <1>2, <1>5, <2>2 DEF Closed
<1>6. DOMAIN frames' \subseteq Under(frames', mainFrame')
  BY <1>1, <1>5, ChildTypes, ReachedIs
<1>7. Rooted'
  BY <1>1, <1>3, ChildTypes DEF TreeInv, Rooted
<1> QED BY <1>4, <1>6, <1>7 DEF TreeInv, TreeConsistent

(* What is left when frames are removed with everything below them.        *)
LEMMA WithoutIs ==
  ASSUME TypeOK, TreeInv, NEW gone
  PROVE  /\ DOMAIN Without(frames, gone) = DOMAIN frames \ gone
         /\ \A g \in DOMAIN frames \ gone :
              /\ Without(frames, gone)[g].parent = frames[g].parent
              /\ Without(frames, gone)[g].children =
                   {x \in DOMAIN frames \ gone : frames[x].parent = g}
<1>1. \A g \in DOMAIN frames : frames[g] \in Frame
  BY DEF TypeOK
<1>2. \A g \in DOMAIN frames \ gone :
        LET removed == {x \in gone \cap DOMAIN frames : frames[x].parent = g}
        IN  Without(frames, gone)[g] = [frames[g] EXCEPT !.children = @ \ removed]
  BY DEF Without
<1>3. \A g \in DOMAIN frames \ gone :
        /\ Without(frames, gone)[g].parent = frames[g].parent
        /\ Without(frames, gone)[g].children =
             frames[g].children \ {x \in gone \cap DOMAIN frames : frames[x].parent = g}
  BY <1>1, <1>2 DEF Frame
<1>4. \A g \in DOMAIN frames : frames[g].children = {x \in DOMAIN frames : frames[x].parent = g}
  BY DEF TreeInv, TreeConsistent
<1>5. DOMAIN Without(frames, gone) = DOMAIN frames \ gone
  BY DEF Without
<1> QED BY <1>3, <1>4, <1>5

LEMMA DetachedTree ==
  ASSUME TypeOK, TreeInv, NEW f \in FrameIds, FrameDetached(f)
  PROVE  TreeInv'
<1>1. PICK G : G = Under(frames, f)
  OBVIOUS
<1>2. /\ f \in DOMAIN frames /\ mainFrame' = mainFrame
      /\ frames' = Without(frames, G)
  BY <1>1 DEF FrameDetached
<1>3. /\ DOMAIN frames' = DOMAIN frames \ G
      /\ \A g \in DOMAIN frames \ G :
           /\ frames'[g].parent = frames[g].parent
           /\ frames'[g].children = {x \in DOMAIN frames \ G : frames[x].parent = g}
  BY <1>2, WithoutIs
<1>4. f \in G /\ Closed(frames, G) /\ G \subseteq FrameIds
  BY <1>1, ChildTypes, UnderClosed
<1>5. \A x \in DOMAIN frames \ G : x # mainFrame =>
        frames[x].parent \in DOMAIN frames \ G
  BY <1>4 DEF Closed, TreeInv, TreeConsistent
<1>6. \A g \in DOMAIN frames' :
        /\ frames'[g].children = {x \in DOMAIN frames' : frames'[x].parent = g}
        /\ g # mainFrame' => frames'[g].parent \in DOMAIN frames'
  BY <1>2, <1>3, <1>5
<1>7. ASSUME NEW S \in SUBSET (FrameIds \cup {mainFrame}), mainFrame \in S, Closed(frames', S)
      PROVE  DOMAIN frames' \subseteq S
  <2>1. Closed(frames, S \cup G)
    BY <1>3, <1>4, <1>7 DEF Closed, TreeInv, TreeConsistent
  <2>2. DOMAIN frames \subseteq S \cup G
    BY <1>4, <1>7, <2>1, UnderSmallest DEF TreeInv, TreeConsistent
  <2> QED BY <1>3, <2>2
<1>8. DOMAIN frames' \subseteq Under(frames', mainFrame')
  BY <1>2, <1>3, <1>7, ChildTypes, ReachedIs
<1>9. Rooted'
  BY <1>2, <1>3 DEF TreeInv, Rooted
<1> QED BY <1>6, <1>8, <1>9 DEF TreeInv, TreeConsistent

LEMMA ChildNavigatedTree ==
  ASSUME TypeOK, TreeInv, NEW f \in ChildIds, ChildNavigated(f)
  PROVE  TreeInv'
<1>1. PICK G : G = Under(frames, f) \ {f}
  OBVIOUS
<1>2. f \in DOMAIN frames /\ f # mainFrame /\ mainFrame' = mainFrame
  BY ChildTypes DEF ChildNavigated
<1>3. /\ DOMAIN frames' = DOMAIN frames \ G
      /\ frames'[f].parent = frames[f].parent /\ frames'[f].children = {}
      /\ \A g \in DOMAIN frames \ G : g # f => frames'[g] = Without(frames, G)[g]
  <2>1. frames' = With(Without(frames, G), f, [frames[f] EXCEPT !.children = {}, !.url = TRUE])
    BY <1>1 DEF ChildNavigated
  <2>2. DOMAIN Without(frames, G) = DOMAIN frames \ G
    BY WithoutIs
  <2>3. frames[f] \in Frame /\ f \notin G
    BY <1>1, <1>2 DEF TypeOK
  <2> QED BY <1>2, <2>1, <2>2, <2>3 DEF With, Frame
<1>4. \A g \in DOMAIN frames \ G :
        /\ frames'[g].parent = frames[g].parent
        /\ g # f => frames'[g].children = {x \in DOMAIN frames \ G : frames[x].parent = g}
  <2>1. \A g \in DOMAIN frames \ G :
          /\ Without(frames, G)[g].parent = frames[g].parent
          /\ Without(frames, G)[g].children = {x \in DOMAIN frames \ G : frames[x].parent = g}
    BY WithoutIs
  <2> QED BY <1>3, <2>1
<1>5. f \in Under(frames, f) /\ Closed(frames, Under(frames, f))
      /\ Under(frames, f) \subseteq FrameIds
  BY ChildTypes, UnderClosed
<1>6. \A x \in DOMAIN frames \ G :
        /\ frames[x].parent # f
        /\ x # mainFrame => frames[x].parent \in DOMAIN frames \ G
  <2> TAKE x \in DOMAIN frames \ G
  <2>1. CASE x = f
    BY <1>1, <1>2, <1>5, <2>1, NoCycle DEF TreeInv, TreeConsistent
  <2>2. CASE x # f
    <3>1. x \notin Under(frames, f)
      BY <1>1, <2>2
    <3>2. \A g \in DOMAIN frames : frames[x].parent = g => g \notin Under(frames, f)
      BY <1>5, <3>1 DEF Closed, TreeInv, TreeConsistent
    <3> QED BY <1>1, <1>2, <1>5, <3>2 DEF TreeInv, TreeConsistent
  <2> QED BY <2>1, <2>2
<1>7. \A g \in DOMAIN frames' :
        /\ frames'[g].children = {x \in DOMAIN frames' : frames'[x].parent = g}
        /\ g # mainFrame' => frames'[g].parent \in DOMAIN frames'
  BY <1>2, <1>3, <1>4, <1>6
<1>8. ASSUME NEW S \in SUBSET (FrameIds \cup {mainFrame}), mainFrame \in S, Closed(frames', S)
      PROVE  DOMAIN frames' \subseteq S
  <2>1. Closed(frames, S \cup Under(frames, f))
    BY <1>1, <1>3, <1>4, <1>5, <1>8 DEF Closed, TreeInv, TreeConsistent
  <2>2. DOMAIN frames \subseteq S \cup Under(frames, f)
    BY <1>5, <1>8, <2>1, UnderSmallest DEF TreeInv, TreeConsistent
  <2>3. PICK p \in DOMAIN frames : p = frames[f].parent
    BY <1>2 DEF TreeInv, TreeConsistent
  <2>4. p \notin Under(frames, f) /\ p # f
    BY <1>2, <1>5, <2>3, NoCycle
  <2>5. p \in DOMAIN frames' /\ f \in frames'[p].children
    BY <1>1, <1>2, <1>3, <1>4, <2>3, <2>4
  <2>6. f \in S
    BY <1>8, <2>2, <2>4, <2>5 DEF Closed
  <2> QED BY <1>1, <1>3, <2>2, <2>6
<1>9. DOMAIN frames' \subseteq Under(frames', mainFrame')
  BY <1>2, <1>3, <1>8, ChildTypes, ReachedIs
<1>10. Rooted'
  BY <1>2, <1>3, <1>4 DEF TreeInv, Rooted
<1> QED BY <1>7, <1>9, <1>10 DEF TreeInv, TreeConsistent

(* A navigation of the main frame leaves nothing of the tree before it.    *)
LEMMA NothingRemains ==
  ASSUME TypeOK, TreeInv
  PROVE  DOMAIN Without(frames, OldTree) = {}
<1>1. DOMAIN frames \subseteq Under(frames, mainFrame)
  BY DEF TreeInv, TreeConsistent
<1>2. DOMAIN Without(frames, OldTree) = DOMAIN frames \ OldTree
  BY WithoutIs
<1>3. CASE mainFrame \in DOMAIN frames
  BY <1>1, <1>2, <1>3 DEF OldTree
<1>4. CASE mainFrame \notin DOMAIN frames
  <2>1. Closed(frames, {mainFrame})
    BY <1>4 DEF Closed
  <2>2. Under(frames, mainFrame) \subseteq {mainFrame}
    BY <2>1, UnderSmallest
  <2> QED BY <1>1, <1>2, <1>4, <2>2
<1> QED BY <1>3, <1>4

(* The frames after a navigation of the main frame: the main frame and the *)
(* children that came with it.                                             *)
LEMMA NavigatedFrames ==
  ASSUME TypeOK, TreeInv, NEW m \in MainIds, NEW kids \in SUBSET ChildIds, MainNavigated(m, kids)
  PROVE  /\ mainFrame' = m /\ m \notin kids
         /\ DOMAIN frames' = {m} \cup kids
         /\ frames'[m] = [MainFrameEntry EXCEPT !.children = kids]
         /\ \A g \in kids : frames'[g] = [NewFrame(m) EXCEPT !.url = TRUE]
         /\ MainFrameEntry \in Frame /\ MainFrameEntry.children = {}
         /\ MainFrameEntry.parent = None
<1> DEFINE rest == Without(frames, OldTree)
           tree == With(rest, m, MainFrameEntry)
<1>1. FramesType
  BY TypeParts
<1>2. MainFrameEntry \in Frame
  BY <1>1, MainFrameEntryType
<1>3. MainFrameEntry.children = {} /\ MainFrameEntry.parent = None
  <2>1. CASE mainFrame \in DOMAIN frames
    <3>1. frames[mainFrame] \in Frame /\ frames[mainFrame].parent = None
      BY <1>1, <2>1 DEF FramesType, TreeInv, Rooted
    <3> QED BY <2>1, <3>1 DEF MainFrameEntry, Frame
  <2>2. CASE mainFrame \notin DOMAIN frames
    BY <2>2 DEF MainFrameEntry, NewFrame
  <2> QED BY <2>1, <2>2
<1>4. DOMAIN rest = {}
  BY NothingRemains
<1>5. DOMAIN tree = {m} /\ tree[m] = MainFrameEntry
  <2> HIDE DEF rest
  <2> QED BY <1>4 DEF With
<1>6. m \notin kids
  BY FrameIdsAssumption
<1>7. mainFrame' = m /\ frames' = [g \in DOMAIN tree \cup kids |->
              IF g = m THEN [tree[m] EXCEPT !.children = @ \cup kids]
              ELSE IF g \in DOMAIN tree THEN tree[g]
              ELSE [NewFrame(m) EXCEPT !.url = TRUE]]
  BY DEF MainNavigated, tree
<1>8. [MainFrameEntry EXCEPT !.children = @ \cup kids] = [MainFrameEntry EXCEPT !.children = kids]
  BY <1>2, <1>3 DEF Frame
<1>9. PICK fr : fr = [NewFrame(m) EXCEPT !.url = TRUE]
  OBVIOUS
<1>10. /\ DOMAIN frames' = {m} \cup kids
       /\ frames'[m] = [MainFrameEntry EXCEPT !.children = @ \cup kids]
       /\ \A g \in kids : frames'[g] = fr
  <2> HIDE DEF tree
  <2>1. frames' = [g \in {m} \cup kids |->
              IF g = m THEN [tree[m] EXCEPT !.children = @ \cup kids]
              ELSE IF g \in {m} THEN tree[g] ELSE fr]
    BY <1>5, <1>7, <1>9
  <2>2. \A g \in {m} \cup kids : g # m => g \notin {m}
    OBVIOUS
  <2> QED BY <1>5, <1>6, <2>1, <2>2
<1> QED BY <1>2, <1>3, <1>6, <1>7, <1>8, <1>9, <1>10

LEMMA MainNavigatedTree ==
  ASSUME TypeOK, TreeInv, NEW m \in MainIds, NEW kids \in SUBSET ChildIds, MainNavigated(m, kids)
  PROVE  TreeInv'
<1>1. /\ mainFrame' = m /\ m \notin kids
      /\ DOMAIN frames' = {m} \cup kids
      /\ frames'[m] = [MainFrameEntry EXCEPT !.children = kids]
      /\ \A g \in kids : frames'[g] = [NewFrame(m) EXCEPT !.url = TRUE]
  BY NavigatedFrames
<1>2. /\ frames'[m].parent = None /\ frames'[m].children = kids
      /\ \A g \in kids : frames'[g].parent = m /\ frames'[g].children = {}
  <2>1. PICK e \in Frame : e = MainFrameEntry /\ e.parent = None
    BY NavigatedFrames
  <2>2. frames'[m].parent = None /\ frames'[m].children = kids
    BY <1>1, <2>1 DEF Frame
  <2> QED BY <1>1, <2>2 DEF NewFrame
<1>3. m # None /\ None \notin kids /\ {m} \cup kids \subseteq FrameIds
  BY ChildTypes, NoneAssumption
<1>4. \A g \in DOMAIN frames' :
        /\ frames'[g].children = {x \in DOMAIN frames' : frames'[x].parent = g}
        /\ g # mainFrame' => frames'[g].parent \in DOMAIN frames'
  <2> TAKE g \in DOMAIN frames'
  <2>1. CASE g = m
    <3>1. \A x \in DOMAIN frames' : frames'[x].parent = m <=> x \in kids
      BY <1>1, <1>2, <1>3
    <3>2. kids = {x \in DOMAIN frames' : frames'[x].parent = m}
      BY <1>1, <3>1
    <3> QED BY <1>1, <1>2, <2>1, <3>2
  <2>2. CASE g # m
    <3>0. g # None
      BY <1>1, <1>3, <2>2
    <3>1. \A x \in {m} \cup kids : frames'[x].parent # g
      BY <1>2, <2>2, <3>0
    <3>2. {} = {x \in DOMAIN frames' : frames'[x].parent = g}
      BY <1>1, <3>1
    <3> QED BY <1>1, <1>2, <2>2, <3>2
  <2> QED BY <2>1, <2>2
<1>5. DOMAIN frames' \subseteq Under(frames', mainFrame')
  <2>1. ASSUME NEW S \in SUBSET (FrameIds \cup {m}), m \in S, Closed(frames', S)
        PROVE  DOMAIN frames' \subseteq S
    BY <1>1, <1>2, <2>1 DEF Closed
  <2> QED BY <1>1, <1>3, <2>1, ReachedIs
<1> QED BY <1>1, <1>2, <1>4, <1>5 DEF TreeInv, TreeConsistent, Rooted

(* Whatever a step does to the other fields, it keeps the tree.            *)
LEMMA QuietTree ==
  ASSUME TypeOK, TreeInv,
         \/ \E m \in MainIds : \/ \E own : DocumentCommitted(m, own)
                               \/ \E evs : Seen(m, evs)
                               \/ FrameStartedLoading(m)
         \/ \E f \in FrameIds : \E own : NavigatedWithinDocument(f, own)
         \/ \E f \in FrameIds, c \in Contexts, d \in BOOLEAN : ContextCreated(f, c, d)
         \/ \E c \in Contexts : ContextDestroyed(c)
         \/ ContextsCleared
  PROVE  TreeInv'
<1>0. \A f \in DOMAIN frames : frames[f] \in Frame
  BY DEF TypeOK
<1>1. \A f \in DOMAIN frames : \A r :
        /\ [frames[f] EXCEPT !.loader = docs + 1, !.events = {}] = r
             => r.parent = frames[f].parent /\ r.children = frames[f].children
        /\ [frames[f] EXCEPT !.events = {}] = r
             => r.parent = frames[f].parent /\ r.children = frames[f].children
        /\ [frames[f] EXCEPT !.url = TRUE] = r
             => r.parent = frames[f].parent /\ r.children = frames[f].children
        /\ [frames[f] EXCEPT !.main = None, !.second = None] = r
             => r.parent = frames[f].parent /\ r.children = frames[f].children
  BY <1>0 DEF Frame
<1>2. \A f \in DOMAIN frames : \A x :
        /\ [frames[f] EXCEPT !.events = @ \cup x].parent = frames[f].parent
        /\ [frames[f] EXCEPT !.events = @ \cup x].children = frames[f].children
        /\ [frames[f] EXCEPT !.main = x].parent = frames[f].parent
        /\ [frames[f] EXCEPT !.main = x].children = frames[f].children
        /\ [frames[f] EXCEPT !.second = x].parent = frames[f].parent
        /\ [frames[f] EXCEPT !.second = x].children = frames[f].children
        /\ DestroyedIn(frames[f], x).parent = frames[f].parent
        /\ DestroyedIn(frames[f], x).children = frames[f].children
  BY <1>0 DEF Frame, DestroyedIn
<1>3. /\ mainFrame' = mainFrame /\ DOMAIN frames' = DOMAIN frames
      /\ \A g \in DOMAIN frames : /\ frames'[g].parent = frames[g].parent
                                  /\ frames'[g].children = frames[g].children
  <2>1. CASE \E m \in MainIds : \E own : DocumentCommitted(m, own)
    BY <1>1, <2>1 DEF DocumentCommitted
  <2>2. CASE \E m \in MainIds : \E evs : Seen(m, evs)
    BY <1>2, <2>2 DEF Seen
  <2>3. CASE \E m \in MainIds : FrameStartedLoading(m)
    BY <1>1, <2>3 DEF FrameStartedLoading
  <2>4. CASE \E f \in FrameIds : \E own : NavigatedWithinDocument(f, own)
    BY <1>1, <2>4 DEF NavigatedWithinDocument
  <2>5. CASE \E f \in FrameIds, c \in Contexts, d \in BOOLEAN : ContextCreated(f, c, d)
    <3>1. PICK f \in FrameIds, c \in Contexts, d \in BOOLEAN : ContextCreated(f, c, d)
      BY <2>5
    <3>2. mainFrame' = mainFrame
      BY <3>1 DEF ContextCreated
    <3>3. \/ UNCHANGED frames
          \/ frames' = [frames EXCEPT ![f].main = c]
          \/ frames' = [frames EXCEPT ![f].second = c]
      BY <3>1 DEF ContextCreated
    <3>4. CASE frames' = [frames EXCEPT ![f].main = c]
      BY <1>2, <3>2, <3>4
    <3>5. CASE frames' = [frames EXCEPT ![f].second = c]
      BY <1>2, <3>2, <3>5
    <3> QED BY <3>2, <3>3, <3>4, <3>5
  <2>6. CASE \E c \in Contexts : ContextDestroyed(c)
    BY <1>2, <2>6 DEF ContextDestroyed
  <2>7. CASE ContextsCleared
    BY <1>1, <2>7 DEF ContextsCleared
  <2> QED BY <2>1, <2>2, <2>3, <2>4, <2>5, <2>6, <2>7
<1> QED BY <1>3, SameTree

LEMMA TreeInit == Init => TreeInv
BY DEF Init, TreeInv, TreeConsistent, Rooted

LEMMA TreeNext == TypeOK /\ TreeInv /\ [Next]_vars => TreeInv'
<1> SUFFICES ASSUME TypeOK, TreeInv, [Next]_vars
             PROVE  TreeInv'
  OBVIOUS
<1>1. CASE \/ \E f \in ChildIds, p \in FrameIds : FrameAttached(f, p)
           \/ \E f \in FrameIds : FrameDetached(f)
           \/ \E f \in ChildIds : ChildNavigated(f)
  BY <1>1, AttachedTree, DetachedTree, ChildNavigatedTree
<1>2. CASE \E m \in MainIds, kids \in SUBSET ChildIds : MainNavigated(m, kids)
  BY <1>2, MainNavigatedTree
<1>3. CASE UNCHANGED <<frames, mainFrame>>
  BY <1>3, SameTree
<1>4. {} \in SUBSET ChildIds
  OBVIOUS
<1> QED
  BY <1>1, <1>2, <1>3, <1>4, QuietTree
  DEF Next, vars, FrameNavigated, FrameTree, PageLifecycleEvent, FrameStoppedLoading,
      EvictStaleContextIds, Goto, DeadlinePasses, Poll, PollActive, PollPending

(* The two directions of the tree kept by hand in on_frame_attached,       *)
(* on_frame_navigated and remove_frames_recursively agree, and no frame    *)
(* outlives the subtree it was in.                                         *)
THEOREM TreeKept == Spec => []TreeConsistent
<1>1. Init => TypeOK /\ TreeInv
  BY InitType, TreeInit
<1>2. TypeOK /\ TreeInv /\ [Next]_vars => TypeOK' /\ TreeInv'
  BY NextType, TreeNext
<1>3. TreeInv => TreeConsistent
  BY DEF TreeInv
<1> QED BY <1>1, <1>2, <1>3, PTL DEF Spec

-----------------------------------------------------------------------------
(* The worlds of the frames are alive                                      *)

(* The world c of frame f will be found when the browser destroys it,      *)
(* unless it was carried along.                                            *)
KnownWorld(f, c) ==
  /\ c \in made
  /\ c \in carried \/ (c \in alive /\ c \in DOMAIN contextIds /\ contextIds[c] = f)

WorldsKnown(f, fr) ==
  /\ fr.main # None => KnownWorld(f, fr.main)
  /\ fr.second # None => KnownWorld(f, fr.second)
  /\ fr.main = fr.second => fr.main \in carried \cup {None}

WorldsInv == \A f \in DOMAIN frames : WorldsKnown(f, frames[f])

(* A frame that stays has the worlds it had, and a new one has none.       *)
KeepsWorlds ==
  \A f \in DOMAIN frames' :
    \/ frames'[f].main = None /\ frames'[f].second = None
    \/ /\ f \in DOMAIN frames
       /\ frames'[f].main = frames[f].main /\ frames'[f].second = frames[f].second

LEMMA WorldsQuiet ==
  ASSUME WorldsInv, KeepsWorlds, UNCHANGED ctxVars
  PROVE  WorldsInv'
<1>1. \A f, c : KnownWorld(f, c)' <=> KnownWorld(f, c)
  BY DEF KnownWorld, ctxVars
<1>2. carried' = carried
  BY DEF ctxVars
<1> QED BY <1>1, <1>2 DEF WorldsInv, WorldsKnown, KeepsWorlds

(* Frames that are removed take nothing from those that stay.              *)
LEMMA WithoutKeeps ==
  ASSUME TypeOK, NEW gone
  PROVE  /\ DOMAIN Without(frames, gone) \subseteq DOMAIN frames
         /\ \A g \in DOMAIN Without(frames, gone) :
              LET fr == Without(frames, gone)[g]
              IN  /\ fr.main = frames[g].main /\ fr.second = frames[g].second
                  /\ fr.events = frames[g].events /\ fr.url = frames[g].url
<1>1. \A g \in DOMAIN frames : \A K :
        LET fr == [frames[g] EXCEPT !.children = @ \ K]
        IN  /\ fr.main = frames[g].main /\ fr.second = frames[g].second
            /\ fr.events = frames[g].events /\ fr.url = frames[g].url
  BY DEF TypeOK, Frame
<1> QED BY <1>1 DEF Without

LEMMA TreeStepsKeepWorlds ==
  ASSUME TypeOK,
         \/ \E f \in ChildIds, p \in FrameIds : FrameAttached(f, p)
         \/ \E f \in FrameIds : FrameDetached(f)
         \/ \E f \in ChildIds : ChildNavigated(f)
  PROVE  KeepsWorlds /\ UNCHANGED ctxVars
<1>0. \A f \in DOMAIN frames : frames[f] \in Frame
  BY DEF TypeOK
<1>1. ASSUME NEW f \in ChildIds, NEW p \in FrameIds, FrameAttached(f, p)
      PROVE  KeepsWorlds /\ UNCHANGED ctxVars
  <2>1. PICK e : e = [frames[p] EXCEPT !.children = @ \cup {f}]
    OBVIOUS
  <2>2. /\ p \in DOMAIN frames /\ f \notin DOMAIN frames
        /\ e.main = frames[p].main /\ e.second = frames[p].second
    BY <1>0, <1>1, <2>1 DEF FrameAttached, Frame
  <2>3. frames' = With(With(frames, p, e), f, NewFrame(p))
    BY <1>1, <2>1 DEF FrameAttached
  <2>4. /\ DOMAIN frames' = DOMAIN frames \cup {f} /\ frames'[f] = NewFrame(p)
        /\ frames'[p] = e
        /\ \A g \in DOMAIN frames \ {p} : frames'[g] = frames[g]
    BY <2>2, <2>3 DEF With
  <2>5. NewFrame(p).main = None /\ NewFrame(p).second = None
    BY DEF NewFrame
  <2>6. UNCHANGED ctxVars
    BY <1>1 DEF FrameAttached
  <2> QED BY <2>2, <2>4, <2>5, <2>6 DEF KeepsWorlds
<1>2. ASSUME NEW f \in FrameIds, FrameDetached(f)
      PROVE  KeepsWorlds /\ UNCHANGED ctxVars
  BY <1>2, WithoutKeeps DEF FrameDetached, KeepsWorlds
<1>3. ASSUME NEW f \in ChildIds, ChildNavigated(f)
      PROVE  KeepsWorlds /\ UNCHANGED ctxVars
  <2>1. PICK e, fs : /\ e = [frames[f] EXCEPT !.children = {}, !.url = TRUE]
                     /\ fs = Without(frames, Under(frames, f) \ {f})
    OBVIOUS
  <2>2. f \in DOMAIN frames /\ e.main = frames[f].main /\ e.second = frames[f].second
    BY <1>0, <1>3, <2>1 DEF ChildNavigated, Frame
  <2>3. frames' = With(fs, f, e)
    BY <1>3, <2>1 DEF ChildNavigated
  <2>4. /\ DOMAIN frames' = DOMAIN fs \cup {f} /\ frames'[f] = e
        /\ \A g \in DOMAIN fs \ {f} : frames'[g] = fs[g]
    BY <2>3 DEF With
  <2>5. /\ DOMAIN fs \subseteq DOMAIN frames
        /\ \A g \in DOMAIN fs : fs[g].main = frames[g].main /\ fs[g].second = frames[g].second
    BY <2>1, WithoutKeeps
  <2>6. UNCHANGED ctxVars
    BY <1>3 DEF ChildNavigated
  <2> QED BY <2>2, <2>4, <2>5, <2>6 DEF KeepsWorlds
<1> QED BY <1>1, <1>2, <1>3

(* When the main frame gets another id its worlds are carried along.       *)
LEMMA MainNavigatedWorlds ==
  ASSUME TypeOK, TreeInv, WorldsInv, NEW m \in MainIds, NEW kids \in SUBSET ChildIds,
         MainNavigated(m, kids)
  PROVE  WorldsInv'
<1>1. PICK e \in Frame : e = MainFrameEntry
  BY NavigatedFrames
<1>2. /\ DOMAIN frames' = {m} \cup kids /\ mainFrame' = m
      /\ frames'[m].main = e.main /\ frames'[m].second = e.second
      /\ \A g \in kids : frames'[g].main = None /\ frames'[g].second = None
  <2>1. frames'[m] = [e EXCEPT !.children = kids] /\ mainFrame' = m
    BY <1>1, NavigatedFrames
  <2>2. \A g \in kids : frames'[g].main = None /\ frames'[g].second = None
    <3>1. PICK k : k = [NewFrame(m) EXCEPT !.url = TRUE]
      OBVIOUS
    <3>2. k.main = None /\ k.second = None
      BY <3>1 DEF NewFrame
    <3>3. \A g \in kids : frames'[g] = k
      BY <3>1, NavigatedFrames
    <3> QED BY <3>2, <3>3
  <2>3. frames'[m].main = e.main /\ frames'[m].second = e.second
    BY <1>1, <2>1 DEF Frame
  <2> QED BY <2>1, <2>2, <2>3, NavigatedFrames
<1>3. /\ mainFrame \in DOMAIN frames =>
           e.main = frames[mainFrame].main /\ e.second = frames[mainFrame].second
      /\ mainFrame \notin DOMAIN frames => e.main = None /\ e.second = None
  <2>1. CASE mainFrame \in DOMAIN frames
    <3>1. frames[mainFrame] \in Frame
      BY <2>1 DEF TypeOK
    <3> QED BY <1>1, <2>1, <3>1 DEF MainFrameEntry, Frame
  <2>2. CASE mainFrame \notin DOMAIN frames
    BY <1>1, <2>2 DEF MainFrameEntry, NewFrame
  <2> QED BY <2>1, <2>2
<1>4. /\ UNCHANGED <<contextIds, alive, made>>
      /\ carried' = IF mainFrame = m THEN carried ELSE carried \cup ({e.main, e.second} \ {None})
  BY <1>1 DEF MainNavigated
<1>5. CASE mainFrame = m
  <2>1. KeepsWorlds
    BY <1>2, <1>3, <1>5 DEF KeepsWorlds
  <2>2. UNCHANGED ctxVars
    BY <1>4, <1>5 DEF ctxVars
  <2> QED BY <2>1, <2>2, WorldsQuiet
<1>6. CASE mainFrame # m
  <2>1. /\ e.main # None => e.main \in made /\ e.main \in carried'
        /\ e.second # None => e.second \in made /\ e.second \in carried'
    BY <1>3, <1>4, <1>6 DEF WorldsInv, WorldsKnown, KnownWorld
  <2> QED BY <1>2, <1>4, <2>1 DEF WorldsInv, WorldsKnown, KnownWorld
<1> QED BY <1>5, <1>6

LEMMA CreatedWorlds ==
  ASSUME TypeOK, WorldsInv, NEW f \in FrameIds, NEW c \in Contexts, NEW d \in BOOLEAN,
         ContextCreated(f, c, d)
  PROVE  WorldsInv'
<1>0. \A g \in DOMAIN frames : frames[g] \in Frame
  BY DEF TypeOK
<1>1. /\ c \notin made /\ made' = made \cup {c} /\ alive' = alive \cup {c}
      /\ carried' = carried /\ c # None
  BY NoneAssumption DEF ContextCreated
<1>2. CASE f \notin DOMAIN frames
  <2>1. frames' = frames /\ contextIds' = contextIds
    BY <1>2 DEF ContextCreated
  <2>2. \A g, x : KnownWorld(g, x) => KnownWorld(g, x)'
    BY <1>1, <2>1 DEF KnownWorld
  <2> QED BY <1>1, <2>1, <2>2 DEF WorldsInv, WorldsKnown
<1>3. CASE f \in DOMAIN frames
  <2>1. /\ DOMAIN contextIds' = DOMAIN contextIds \cup {c} /\ contextIds'[c] = f
        /\ \A x \in DOMAIN contextIds : x # c => contextIds'[x] = contextIds[x]
    <3>1. contextIds' = With(contextIds, c, f)
      BY <1>3 DEF ContextCreated
    <3> QED BY <3>1 DEF With
  <2>2. \A g, x : KnownWorld(g, x) => KnownWorld(g, x)' /\ x # c
    BY <1>1, <2>1 DEF KnownWorld
  <2>3. KnownWorld(f, c)'
    BY <1>1, <2>1 DEF KnownWorld
  <2>4. \/ UNCHANGED frames
        \/ frames' = [frames EXCEPT ![f].main = c]
        \/ frames' = [frames EXCEPT ![f].second = c]
    BY <1>3 DEF ContextCreated
  <2>5. CASE UNCHANGED frames
    BY <1>1, <2>2, <2>5 DEF WorldsInv, WorldsKnown
  <2>6. CASE frames' = [frames EXCEPT ![f].main = c]
    <3>1. /\ DOMAIN frames' = DOMAIN frames
          /\ frames'[f].main = c /\ frames'[f].second = frames[f].second
          /\ \A g \in DOMAIN frames : g # f => frames'[g] = frames[g]
      BY <1>0, <1>3, <2>6 DEF Frame
    <3> QED BY <1>1, <2>2, <2>3, <3>1 DEF WorldsInv, WorldsKnown
  <2>7. CASE frames' = [frames EXCEPT ![f].second = c]
    <3>1. /\ DOMAIN frames' = DOMAIN frames
          /\ frames'[f].second = c /\ frames'[f].main = frames[f].main
          /\ \A g \in DOMAIN frames : g # f => frames'[g] = frames[g]
      BY <1>0, <1>3, <2>7 DEF Frame
    <3> QED BY <1>1, <2>2, <2>3, <3>1 DEF WorldsInv, WorldsKnown
  <2> QED BY <2>4, <2>5, <2>6, <2>7
<1> QED BY <1>2, <1>3

(* Only the frame a context was created in can have it as a world.         *)
LEMMA DestroyedWorlds ==
  ASSUME TypeOK, WorldsInv, NEW c \in Contexts, ContextDestroyed(c)
  PROVE  WorldsInv'
<1>0. \A g \in DOMAIN frames : frames[g] \in Frame
  BY DEF TypeOK
<1>1. alive' = alive \ {c} /\ made' = made /\ carried' = carried /\ c # None
  BY NoneAssumption DEF ContextDestroyed
<1>2. /\ \A x \in DOMAIN contextIds : x # c => x \in DOMAIN contextIds'
                                               /\ contextIds'[x] = contextIds[x]
  BY DEF ContextDestroyed, Restrict
<1>3. \A g, x : KnownWorld(g, x) /\ (x # c \/ x \in carried) => KnownWorld(g, x)'
  BY <1>1, <1>2 DEF KnownWorld
<1>4. ASSUME NEW g \in DOMAIN frames, NEW r \in Frame, NEW q, r = frames[g],
             q = r \/ q = DestroyedIn(r, c),
             r.main = c \/ r.second = c => c \in carried \/ q = DestroyedIn(r, c)
      PROVE  WorldsKnown(g, q)'
  <2>1. WorldsKnown(g, r)
    BY <1>4 DEF WorldsInv
  <2>2. \/ q = r /\ (c \in carried \/ (r.main # c /\ r.second # c))
        \/ r.main = c /\ q.main = None /\ q.second = r.second
        \/ r.main # c /\ r.second = c /\ q.main = r.main /\ q.second = None
    BY <1>4 DEF DestroyedIn, Frame
  <2>3. CASE q = r /\ (c \in carried \/ (r.main # c /\ r.second # c))
    BY <1>1, <1>3, <2>1, <2>3 DEF WorldsKnown
  <2>4. CASE r.main = c /\ q.main = None /\ q.second = r.second
    BY <1>1, <1>3, <2>1, <2>4 DEF WorldsKnown
  <2>5. CASE r.main # c /\ r.second = c /\ q.main = r.main /\ q.second = None
    BY <1>1, <1>3, <2>1, <2>5 DEF WorldsKnown
  <2> QED BY <2>2, <2>3, <2>4, <2>5
<1>5. /\ DOMAIN frames' = DOMAIN frames
      /\ \A g \in DOMAIN frames :
           /\ frames'[g] = frames[g] \/ frames'[g] = DestroyedIn(frames[g], c)
           /\ frames[g].main = c \/ frames[g].second = c =>
                c \in carried \/ frames'[g] = DestroyedIn(frames[g], c)
  <2>1. \A g \in DOMAIN frames : frames[g].main = c \/ frames[g].second = c =>
          c \in carried \/ (c \in DOMAIN contextIds /\ contextIds[c] = g)
    BY <1>1 DEF WorldsInv, WorldsKnown, KnownWorld
  <2>2. CASE c \in DOMAIN contextIds
    BY <2>1, <2>2 DEF ContextDestroyed
  <2>3. CASE c \notin DOMAIN contextIds
    BY <2>1, <2>3 DEF ContextDestroyed
  <2> QED BY <2>2, <2>3
<1>6. ASSUME NEW g \in DOMAIN frames
      PROVE  WorldsKnown(g, frames[g])'
  <2>1. PICK r, q : r \in Frame /\ r = frames[g] /\ q = frames'[g]
    BY <1>0
  <2>2. WorldsKnown(g, q)'
    BY <1>4, <1>5, <2>1
  <2> QED BY <2>1, <2>2 DEF WorldsKnown
<1> QED BY <1>5, <1>6 DEF WorldsInv

LEMMA ClearedWorlds ==
  ASSUME TypeOK, WorldsInv, ContextsCleared
  PROVE  WorldsInv'
<1>0. \A g \in DOMAIN frames : frames[g] \in Frame
  BY DEF TypeOK
<1>1. carried' = carried /\ made' = made /\ DOMAIN frames' = DOMAIN frames
  BY DEF ContextsCleared
<1>2. ASSUME NEW f \in DOMAIN frames
      PROVE  /\ frames'[f].main # None => frames'[f].main \in carried /\ frames'[f].main \in made
             /\ frames'[f].second # None => frames'[f].second \in carried /\ frames'[f].second \in made
  <2>1. CASE f \in Range(contextIds)
    <3>1. frames'[f] = [frames[f] EXCEPT !.main = None, !.second = None]
      BY <2>1 DEF ContextsCleared
    <3> QED BY <1>0, <3>1 DEF Frame
  <2>2. CASE f \notin Range(contextIds)
    <3>1. frames'[f] = frames[f]
      BY <2>2 DEF ContextsCleared
    <3>2. \A c : KnownWorld(f, c) => c \in carried /\ c \in made
      BY <2>2 DEF KnownWorld, Range
    <3> QED BY <3>1, <3>2 DEF WorldsInv, WorldsKnown
  <2> QED BY <2>1, <2>2
<1> QED BY <1>1, <1>2 DEF WorldsInv, WorldsKnown, KnownWorld

LEMMA WorldsInit == Init => WorldsInv
BY DEF Init, WorldsInv

LEMMA WorldsNext == TypeOK /\ TreeInv /\ WorldsInv /\ [Next]_vars => WorldsInv'
<1> SUFFICES ASSUME TypeOK, TreeInv, WorldsInv, [Next]_vars
             PROVE  WorldsInv'
  OBVIOUS
<1>0. \A f \in DOMAIN frames : frames[f] \in Frame
  BY DEF TypeOK
<1>1. CASE \/ \E f \in ChildIds, p \in FrameIds : FrameAttached(f, p)
           \/ \E f \in FrameIds : FrameDetached(f)
           \/ \E f \in ChildIds : ChildNavigated(f)
  BY <1>1, TreeStepsKeepWorlds, WorldsQuiet
<1>2. CASE \E m \in MainIds, kids \in SUBSET ChildIds : MainNavigated(m, kids)
  BY <1>2, MainNavigatedWorlds
<1>3. CASE \/ \E m \in MainIds : \/ \E own : DocumentCommitted(m, own)
                                 \/ \E evs : Seen(m, evs)
                                 \/ FrameStartedLoading(m)
           \/ \E f \in FrameIds : \E own : NavigatedWithinDocument(f, own)
  <2>1. \A f \in DOMAIN frames : \A n, x :
          LET committed == [frames[f] EXCEPT !.loader = n, !.events = {}]
              seen == [frames[f] EXCEPT !.events = @ \cup x]
              started == [frames[f] EXCEPT !.events = {}]
              moved == [frames[f] EXCEPT !.url = TRUE]
          IN  \A fr \in {committed, seen, started, moved} :
                fr.main = frames[f].main /\ fr.second = frames[f].second
    BY <1>0 DEF Frame
  <2>2. UNCHANGED ctxVars
    BY <1>3 DEF DocumentCommitted, Seen, FrameStartedLoading, NavigatedWithinDocument
  <2>3. KeepsWorlds
    <3>1. CASE \E m \in MainIds : \E own : DocumentCommitted(m, own)
      BY <2>1, <3>1 DEF DocumentCommitted, KeepsWorlds
    <3>2. CASE \E m \in MainIds : \E evs : Seen(m, evs)
      BY <2>1, <3>2 DEF Seen, KeepsWorlds
    <3>3. CASE \E m \in MainIds : FrameStartedLoading(m)
      BY <2>1, <3>3 DEF FrameStartedLoading, KeepsWorlds
    <3>4. CASE \E f \in FrameIds : \E own : NavigatedWithinDocument(f, own)
      BY <2>1, <3>4 DEF NavigatedWithinDocument, KeepsWorlds
    <3> QED BY <1>3, <3>1, <3>2, <3>3, <3>4
  <2> QED BY <2>2, <2>3, WorldsQuiet
<1>4. CASE \/ \E f \in FrameIds, c \in Contexts, d \in BOOLEAN : ContextCreated(f, c, d)
           \/ \E c \in Contexts : ContextDestroyed(c)
           \/ ContextsCleared
  BY <1>4, CreatedWorlds, DestroyedWorlds, ClearedWorlds
<1>5. CASE EvictStaleContextIds
  <2>1. UNCHANGED <<frames, alive, made, carried>>
    BY <1>5 DEF EvictStaleContextIds
  <2>2. \A c \in DOMAIN contextIds : contextIds[c] \in DOMAIN frames =>
          c \in DOMAIN contextIds' /\ contextIds'[c] = contextIds[c]
    BY <1>5 DEF EvictStaleContextIds, Restrict
  <2>3. \A f \in DOMAIN frames : \A c : KnownWorld(f, c) => KnownWorld(f, c)'
    BY <2>1, <2>2 DEF KnownWorld
  <2> QED BY <2>1, <2>3 DEF WorldsInv, WorldsKnown
<1>6. CASE UNCHANGED <<frames, ctxVars>>
  BY <1>6, WorldsQuiet DEF KeepsWorlds
<1>7. {} \in SUBSET ChildIds
  OBVIOUS
<1> QED
  BY <1>1, <1>2, <1>3, <1>4, <1>5, <1>6, <1>7
  DEF Next, vars, FrameNavigated, FrameTree, PageLifecycleEvent, FrameStoppedLoading,
      Goto, DeadlinePasses, Poll, PollActive, PollPending

(* A world of a frame never keeps an execution context that the browser    *)
(* has destroyed, unless on_frame_navigated carried it to another id: the  *)
(* frame a context was created in is the only one that can have it.        *)
THEOREM WorldsStayAlive == Spec => []WorldsAlive
<1>1. Init => TypeOK /\ TreeInv /\ WorldsInv
  BY InitType, TreeInit, WorldsInit
<1>2. TypeOK /\ TreeInv /\ WorldsInv /\ [Next]_vars => TypeOK' /\ TreeInv' /\ WorldsInv'
  BY NextType, TreeNext, WorldsNext
<1>3. WorldsInv => WorldsAlive
  BY DEF WorldsInv, WorldsKnown, KnownWorld, WorldsAlive
<1> QED BY <1>1, <1>2, <1>3, PTL DEF Spec

-----------------------------------------------------------------------------
(* A new document is reported when it was loaded                           *)

(* Of the frames with a main frame's id only the main frame is there, and  *)
(* only it has events of a lifecycle.                                      *)
LoadInv ==
  /\ DOMAIN frames \cap MainIds \subseteq {mainFrame}
  /\ \A f \in DOMAIN frames :
       /\ f # mainFrame => frames[f].events = {}
       /\ f = mainFrame => frames[f].url /\ ("load" \in frames[f].events => loaded)

(* A step that leaves the main frame, its events and its document alone.   *)
LEMMA LoadQuiet ==
  ASSUME LoadInv, mainFrame' = mainFrame, loaded' = loaded,
         DOMAIN frames' \cap MainIds \subseteq DOMAIN frames,
         \A f \in DOMAIN frames' :
           \/ f # mainFrame /\ frames'[f].events = {}
           \/ /\ f \in DOMAIN frames /\ frames'[f].events = frames[f].events
              /\ frames'[f].url = frames[f].url \/ frames'[f].url = TRUE
  PROVE  LoadInv'
BY DEF LoadInv

LEMMA TreeStepsLoad ==
  ASSUME TypeOK, LoadInv,
         \/ \E f \in ChildIds, p \in FrameIds : FrameAttached(f, p)
         \/ \E f \in FrameIds : FrameDetached(f)
         \/ \E f \in ChildIds : ChildNavigated(f)
  PROVE  LoadInv'
<1>0. (\A f \in DOMAIN frames : frames[f] \in Frame) /\ mainFrame \notin ChildIds
      /\ ChildIds \cap MainIds = {}
  BY ChildTypes, FrameIdsAssumption DEF TypeOK
<1>1. ASSUME NEW f \in ChildIds, NEW p \in FrameIds, FrameAttached(f, p)
      PROVE  LoadInv'
  <2>1. PICK e : e = [frames[p] EXCEPT !.children = @ \cup {f}]
    OBVIOUS
  <2>2. /\ p \in DOMAIN frames /\ f \notin DOMAIN frames
        /\ e.events = frames[p].events /\ e.url = frames[p].url
    BY <1>0, <1>1, <2>1 DEF FrameAttached, Frame
  <2>3. frames' = With(With(frames, p, e), f, NewFrame(p))
    BY <1>1, <2>1 DEF FrameAttached
  <2>4. /\ DOMAIN frames' = DOMAIN frames \cup {f} /\ frames'[f] = NewFrame(p)
        /\ frames'[p] = e
        /\ \A g \in DOMAIN frames \ {p} : frames'[g] = frames[g]
    BY <2>2, <2>3 DEF With
  <2>5. NewFrame(p).events = {}
    BY DEF NewFrame
  <2>6. mainFrame' = mainFrame /\ loaded' = loaded
    BY <1>1 DEF FrameAttached, docVars
  <2> QED BY <1>0, <2>2, <2>4, <2>5, <2>6, LoadQuiet
<1>2. ASSUME NEW f \in FrameIds, FrameDetached(f)
      PROVE  LoadInv'
  <2>1. mainFrame' = mainFrame /\ loaded' = loaded
    BY <1>2 DEF FrameDetached, docVars
  <2>2. /\ DOMAIN frames' \subseteq DOMAIN frames
        /\ \A g \in DOMAIN frames' : /\ frames'[g].events = frames[g].events
                                     /\ frames'[g].url = frames[g].url
    BY <1>2, WithoutKeeps DEF FrameDetached
  <2> QED BY <2>1, <2>2, LoadQuiet
<1>3. ASSUME NEW f \in ChildIds, ChildNavigated(f)
      PROVE  LoadInv'
  <2>1. PICK e, fs : /\ e = [frames[f] EXCEPT !.children = {}, !.url = TRUE]
                     /\ fs = Without(frames, Under(frames, f) \ {f})
    OBVIOUS
  <2>2. f \in DOMAIN frames /\ e.events = frames[f].events /\ e.url = TRUE
    BY <1>0, <1>3, <2>1 DEF ChildNavigated, Frame
  <2>3. frames' = With(fs, f, e)
    BY <1>3, <2>1 DEF ChildNavigated
  <2>4. /\ DOMAIN frames' = DOMAIN fs \cup {f} /\ frames'[f] = e
        /\ \A g \in DOMAIN fs \ {f} : frames'[g] = fs[g]
    BY <2>3 DEF With
  <2>5. /\ DOMAIN fs \subseteq DOMAIN frames
        /\ \A g \in DOMAIN fs : fs[g].events = frames[g].events /\ fs[g].url = frames[g].url
    BY <2>1, WithoutKeeps
  <2>6. mainFrame' = mainFrame /\ loaded' = loaded
    BY <1>3 DEF ChildNavigated, docVars
  <2> QED BY <1>0, <2>2, <2>4, <2>5, <2>6, LoadQuiet
<1> QED BY <1>1, <1>2, <1>3

(* The main frame keeps its lifecycle under its new id; a main frame that  *)
(* was not there has none.                                                 *)
LEMMA MainNavigatedLoad ==
  ASSUME TypeOK, TreeInv, LoadInv, NEW m \in MainIds, NEW kids \in SUBSET ChildIds,
         MainNavigated(m, kids)
  PROVE  LoadInv'
<1>1. PICK e, k : e \in Frame /\ e = MainFrameEntry /\ k = [NewFrame(m) EXCEPT !.url = TRUE]
  BY NavigatedFrames
<1>2. /\ DOMAIN frames' = {m} \cup kids /\ mainFrame' = m /\ m \notin kids
      /\ frames'[m] = [e EXCEPT !.children = kids]
      /\ \A g \in kids : frames'[g] = k
  BY <1>1, NavigatedFrames
<1>3. k.events = {}
  BY <1>1 DEF NewFrame
<1>4. frames'[m].events = e.events /\ frames'[m].url = e.url
  BY <1>2 DEF Frame
<1>5. e.url /\ ("load" \in e.events => loaded')
  <2>1. CASE mainFrame \in DOMAIN frames
    <3>1. frames[mainFrame] \in Frame
      BY <2>1 DEF TypeOK
    <3>2. e.events = frames[mainFrame].events /\ e.url
      BY <1>1, <2>1, <3>1 DEF MainFrameEntry, Frame
    <3>3. loaded' = loaded
      BY <2>1 DEF MainNavigated, TypeOK
    <3> QED BY <2>1, <3>2, <3>3 DEF LoadInv
  <2>2. CASE mainFrame \notin DOMAIN frames
    BY <1>1, <2>2 DEF MainFrameEntry, NewFrame
  <2> QED BY <2>1, <2>2
<1>6. DOMAIN frames' \cap MainIds \subseteq {m}
  BY <1>2, FrameIdsAssumption
<1> QED BY <1>2, <1>3, <1>4, <1>5, <1>6 DEF LoadInv

(* Only the main frame loads, and what it has seen of the load of a        *)
(* document does not outlast the document.                                 *)
LEMMA LoadingLoad ==
  ASSUME TypeOK, LoadInv, NEW m \in MainIds,
         \/ \E own : DocumentCommitted(m, own)
         \/ \E evs : Seen(m, evs)
         \/ FrameStartedLoading(m)
  PROVE  LoadInv'
<1>0. /\ \A f \in DOMAIN frames : frames[f] \in Frame
      /\ loaded \in BOOLEAN
      /\ m \in DOMAIN frames => m = mainFrame
  BY DEF TypeOK, LoadInv
<1>1. ASSUME m \in DOMAIN frames, NEW e, frames' = [frames EXCEPT ![m] = e],
             e.url = frames[m].url, mainFrame' = mainFrame,
             "load" \in e.events => loaded'
      PROVE  LoadInv'
  BY <1>0, <1>1 DEF LoadInv
<1>2. CASE \E own : DocumentCommitted(m, own)
  <2>1. CASE m \in DOMAIN frames
    <3>1. PICK e : e = [frames[m] EXCEPT !.loader = docs + 1, !.events = {}]
      OBVIOUS
    <3>2. e.events = {} /\ e.url = frames[m].url
      BY <1>0, <2>1, <3>1 DEF Frame
    <3>3. frames' = [frames EXCEPT ![m] = e] /\ mainFrame' = mainFrame
      BY <1>2, <2>1, <3>1 DEF DocumentCommitted
    <3> QED BY <1>1, <2>1, <3>2, <3>3
  <2>2. CASE m \notin DOMAIN frames
    <3>1. frames' = frames /\ mainFrame' = mainFrame
      BY <1>2, <2>2 DEF DocumentCommitted
    <3>2. loaded' = loaded
      BY <1>0, <1>2, <2>2 DEF DocumentCommitted
    <3> QED BY <3>1, <3>2, LoadQuiet DEF LoadInv
  <2> QED BY <2>1, <2>2
<1>3. ASSUME NEW evs, Seen(m, evs)
      PROVE  LoadInv'
  <2>1. PICK e : e = [frames[m] EXCEPT !.events = @ \cup evs]
    OBVIOUS
  <2>2. m \in DOMAIN frames /\ e.events = frames[m].events \cup evs /\ e.url = frames[m].url
    BY <1>0, <1>3, <2>1 DEF Seen, Frame
  <2>3. frames' = [frames EXCEPT ![m] = e] /\ mainFrame' = mainFrame
    BY <1>3, <2>1 DEF Seen
  <2>4. "load" \in frames[m].events => loaded
    BY <1>0, <2>2 DEF LoadInv
  <2>5. "load" \in e.events => loaded'
    BY <1>3, <2>2, <2>4 DEF Seen
  <2> QED BY <1>1, <2>2, <2>3, <2>5
<1>4. CASE FrameStartedLoading(m)
  <2>1. PICK e : e = [frames[m] EXCEPT !.events = {}]
    OBVIOUS
  <2>2. m \in DOMAIN frames /\ e.events = {} /\ e.url = frames[m].url
    BY <1>0, <1>4, <2>1 DEF FrameStartedLoading, Frame
  <2>3. frames' = [frames EXCEPT ![m] = e] /\ mainFrame' = mainFrame
    BY <1>4, <2>1 DEF FrameStartedLoading
  <2> QED BY <1>1, <2>2, <2>3
<1> QED BY <1>2, <1>3, <1>4

LEMMA ContextStepsLoad ==
  ASSUME TypeOK, LoadInv,
         \/ \E f \in FrameIds : \E own : NavigatedWithinDocument(f, own)
         \/ \E f \in FrameIds, c \in Contexts, d \in BOOLEAN : ContextCreated(f, c, d)
         \/ \E c \in Contexts : ContextDestroyed(c)
         \/ ContextsCleared
  PROVE  LoadInv'
<1>0. \A f \in DOMAIN frames : frames[f] \in Frame
  BY DEF TypeOK
<1>1. \A f \in DOMAIN frames : \A x :
        LET moved == [frames[f] EXCEPT !.url = TRUE]
            cleared == [frames[f] EXCEPT !.main = None, !.second = None]
            first == [frames[f] EXCEPT !.main = x]
            other == [frames[f] EXCEPT !.second = x]
        IN  \A fr \in {moved, cleared, first, other, DestroyedIn(frames[f], x)} :
              fr.events = frames[f].events /\ (fr.url = frames[f].url \/ fr.url = TRUE)
  BY <1>0 DEF Frame, DestroyedIn
<1>2. /\ mainFrame' = mainFrame /\ loaded' = loaded /\ DOMAIN frames' = DOMAIN frames
      /\ \A g \in DOMAIN frames : /\ frames'[g].events = frames[g].events
                                  /\ frames'[g].url = frames[g].url \/ frames'[g].url = TRUE
  <2>1. CASE \E f \in FrameIds : \E own : NavigatedWithinDocument(f, own)
    <3>1. PICK f \in FrameIds : \E own : NavigatedWithinDocument(f, own)
      BY <2>1
    <3>2. /\ mainFrame' = mainFrame /\ loaded' = loaded
          /\ UNCHANGED frames \/ (f \in DOMAIN frames /\ frames' = [frames EXCEPT ![f].url = TRUE])
      BY <3>1 DEF NavigatedWithinDocument
    <3> QED BY <1>0, <1>1, <3>2
  <2>2. CASE \E f \in FrameIds, c \in Contexts, d \in BOOLEAN : ContextCreated(f, c, d)
    <3>1. PICK f \in FrameIds, c \in Contexts, d \in BOOLEAN : ContextCreated(f, c, d)
      BY <2>2
    <3>2. mainFrame' = mainFrame /\ loaded' = loaded
      BY <3>1 DEF ContextCreated, docVars
    <3>3. \/ UNCHANGED frames
          \/ frames' = [frames EXCEPT ![f].main = c]
          \/ frames' = [frames EXCEPT ![f].second = c]
      BY <3>1 DEF ContextCreated
    <3>4. CASE frames' = [frames EXCEPT ![f].main = c]
      BY <1>1, <3>2, <3>4
    <3>5. CASE frames' = [frames EXCEPT ![f].second = c]
      BY <1>1, <3>2, <3>5
    <3> QED BY <3>2, <3>3, <3>4, <3>5
  <2>3. CASE \E c \in Contexts : ContextDestroyed(c)
    BY <1>1, <2>3 DEF ContextDestroyed, docVars
  <2>4. CASE ContextsCleared
    BY <1>1, <2>4 DEF ContextsCleared, docVars
  <2> QED BY <2>1, <2>2, <2>3, <2>4
<1> QED BY <1>2, LoadQuiet

LEMMA LoadInit == Init => LoadInv
BY DEF Init, LoadInv

LEMMA LoadNext == TypeOK /\ TreeInv /\ LoadInv /\ [Next]_vars => LoadInv'
<1> SUFFICES ASSUME TypeOK, TreeInv, LoadInv, [Next]_vars
             PROVE  LoadInv'
  OBVIOUS
<1>1. CASE \/ \E f \in ChildIds, p \in FrameIds : FrameAttached(f, p)
           \/ \E f \in FrameIds : FrameDetached(f)
           \/ \E f \in ChildIds : ChildNavigated(f)
  BY <1>1, TreeStepsLoad
<1>2. CASE \E m \in MainIds, kids \in SUBSET ChildIds : MainNavigated(m, kids)
  BY <1>2, MainNavigatedLoad
<1>3. CASE \E m \in MainIds : \/ \E own : DocumentCommitted(m, own)
                              \/ \E evs : Seen(m, evs)
                              \/ FrameStartedLoading(m)
  BY <1>3, LoadingLoad
<1>4. CASE \/ \E f \in FrameIds : \E own : NavigatedWithinDocument(f, own)
           \/ \E f \in FrameIds, c \in Contexts, d \in BOOLEAN : ContextCreated(f, c, d)
           \/ \E c \in Contexts : ContextDestroyed(c)
           \/ ContextsCleared
  BY <1>4, ContextStepsLoad
<1>5. CASE UNCHANGED <<frames, mainFrame, loaded>>
  BY <1>5, LoadQuiet DEF LoadInv
<1>6. {} \in SUBSET ChildIds
  OBVIOUS
<1> QED
  BY <1>1, <1>2, <1>3, <1>4, <1>5, <1>6
  DEF Next, vars, docVars, FrameNavigated, FrameTree, PageLifecycleEvent,
      FrameStoppedLoading, EvictStaleContextIds, Goto, DeadlinePasses, Poll, PollActive,
      PollPending

(* Only poll ends the active navigation.                                   *)
LEMMA EndedByPoll ==
  ASSUME TypeOK, [Next]_vars, navigation # None, navigation' = None
  PROVE  PollActive
<1>0. NavigationsType
  BY TypeParts
<1>1. CASE \E m \in MainIds : \E kids : MainNavigated(m, kids)
  BY <1>0, <1>1, FollowType, NoneIsNoWatcher DEF MainNavigated
<1>2. CASE \E f \in FrameIds : \E own : NavigatedWithinDocument(f, own)
  <2>1. [navigation EXCEPT !.same = TRUE] \in NavigationWatcher
    BY <1>0 DEF NavigationsType, NavigationWatcher
  <2> QED BY <1>2, <2>1, NoneIsNoWatcher DEF NavigatedWithinDocument
<1>3. CASE Poll
  BY <1>3 DEF Poll, PollPending
<1>4. CASE navigation' = navigation
  BY <1>4
<1> QED
  BY <1>1, <1>2, <1>3, <1>4
  DEF Next, vars, navVars, FrameAttached, FrameDetached, ChildNavigated, FrameNavigated,
      FrameTree, DocumentCommitted, PageLifecycleEvent, FrameStoppedLoading, Seen,
      FrameStartedLoading, ContextCreated, ContextDestroyed, ContextsCleared,
      EvictStaleContextIds, Goto, DeadlinePasses

LEMMA LoadedWhenNew ==
  ASSUME TypeOK, LoadInv, [Next]_vars, EndsWith("new")
  PROVE  loaded
<1>1. PollActive /\ navigation \in NavigationWatcher
  BY EndedByPoll DEF EndsWith, TypeOK
<1>2. Verdict(navigation) = "new" /\ None # "new"
  BY <1>1 DEF EndsWith, PollActive
<1>3. navigation.frame \in DOMAIN frames /\ CheckLifecycle(frames[navigation.frame])
  BY <1>2 DEF Verdict, CheckLifecycleComplete
<1>4. navigation.frame = mainFrame
  BY <1>1, <1>3 DEF LoadInv, NavigationWatcher
<1> QED BY <1>3, <1>4 DEF LoadInv, CheckLifecycle

(* A navigation that poll reports as a new document was loaded: nothing of *)
(* the lifecycle of the document before it is left when it commits, and    *)
(* the frame the navigation watches is the main frame.                     *)
THEOREM NewDocumentIsLoaded == Spec => LoadedDocument
<1>1. Init => TypeOK /\ TreeInv /\ LoadInv
  BY InitType, TreeInit, LoadInit
<1>2. TypeOK /\ TreeInv /\ LoadInv /\ [Next]_vars => TypeOK' /\ TreeInv' /\ LoadInv'
  BY NextType, TreeNext, LoadNext
<1>3. TypeOK /\ LoadInv /\ [Next]_vars => [EndsWith("new") => loaded]_vars
  BY LoadedWhenNew
<1> QED BY <1>1, <1>2, <1>3, PTL DEF Spec, LoadedDocument
=============================================================================
