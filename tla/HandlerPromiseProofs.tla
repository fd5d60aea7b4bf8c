------------------------ MODULE HandlerPromiseProofs ------------------------
(***************************************************************************)
(* For every set of callers, targets and sessions and every bound on the   *)
(* calls: the handler resolves every request at most once and with an      *)
(* outcome of its kind (HeldOnce, KeepsPromise), and a Stream handler      *)
(* keeps what it needs to resolve a navigation (NavigationTracked).        *)
(***************************************************************************)
EXTENDS HandlerSafetyProofs

-----------------------------------------------------------------------------
(* The inductive invariant.                                                *)

(* A target gets at most one initiator.                                    *)
Claimed == \A t \in Targets : tgt[t].initiator # None => t \in claimed

IInv == TypeOK /\ KindsMatch /\ FreshIds /\ Claimed /\ HeldOnce

(* HeldOnce for one caller.                                                *)
HeldFor(c) ==
  /\ Waiting(c) <=> \/ \E i \in CallId : Holds(i, c)
                    \/ \E t \in Targets : HasCaller(t, c)
                    \/ InProgress(c)
  /\ \A i \in CallId, t \in Targets : ~(Holds(i, c) /\ HasCaller(t, c))
  /\ \A i \in CallId : ~(Holds(i, c) /\ InProgress(c))
  /\ \A t \in Targets : ~(HasCaller(t, c) /\ InProgress(c))
  /\ \A i, j \in CallId : Holds(i, c) /\ Holds(j, c) => i = j
  /\ \A t, u \in Targets : HasCaller(t, c) /\ HasCaller(u, c) => t = u

LEMMA HeldForAll ==
  /\ HeldOnce <=> \A c \in Callers : HeldFor(c)
  /\ HeldOnce' <=> \A c \in Callers : HeldFor(c)'
<1>1. HeldOnce <=> \A c \in Callers : HeldFor(c)
  BY DEF HeldOnce, HeldFor
<1>2. HeldOnce' <=> \A c \in Callers : HeldFor(c)'
  BY DEF HeldOnce, HeldFor
<1> QED
  BY <1>1, <1>2

-----------------------------------------------------------------------------
(* What a step can do to a caller: leave it where it is, resolve it, or    *)
(* move it to one other place.                                             *)

Untouched(c) ==
  /\ asked'[c] = asked[c]
  /\ reply'[c] = reply[c]
  /\ \A i \in CallId : Holds(i, c)' <=> Holds(i, c)
  /\ \A t \in Targets : HasCaller(t, c)' <=> HasCaller(t, c)
  /\ InProgress(c)' <=> InProgress(c)

Left(c) ==
  /\ \A i \in CallId : ~Holds(i, c)'
  /\ \A t \in Targets : ~HasCaller(t, c)'
  /\ ~InProgress(c)'

LEMMA UntouchedHeld ==
  ASSUME NEW c \in Callers, HeldFor(c), Untouched(c)
  PROVE  HeldFor(c)'
BY DEF HeldFor, Untouched, Waiting, P!Waiting

LEMMA ResolvedHeld ==
  ASSUME NEW c \in Callers, reply'[c] # "none", Left(c)
  PROVE  HeldFor(c)'
BY DEF HeldFor, Left, Waiting, P!Waiting

LEMMA ToPendingHeld ==
  ASSUME NEW c \in Callers, asked'[c] # "idle", reply'[c] = "none",
         NEW i \in CallId, \A j \in CallId : Holds(j, c)' <=> j = i,
         \A t \in Targets : ~HasCaller(t, c)', ~InProgress(c)'
  PROVE  HeldFor(c)'
BY DEF HeldFor, Waiting, P!Waiting

LEMMA ToTargetHeld ==
  ASSUME NEW c \in Callers, asked'[c] # "idle", reply'[c] = "none",
         NEW t \in Targets, \A u \in Targets : HasCaller(u, c)' <=> u = t,
         \A i \in CallId : ~Holds(i, c)', ~InProgress(c)'
  PROVE  HeldFor(c)'
BY DEF HeldFor, Waiting, P!Waiting

LEMMA ToNavigationHeld ==
  ASSUME NEW c \in Callers, asked'[c] # "idle", reply'[c] = "none", InProgress(c)',
         \A i \in CallId : ~Holds(i, c)', \A t \in Targets : ~HasCaller(t, c)'
  PROVE  HeldFor(c)'
BY DEF HeldFor, Waiting, P!Waiting

(* A caller that did not ask is nowhere.                                   *)
LEMMA IdleNowhere ==
  ASSUME NEW c \in Callers, HeldFor(c), ~Waiting(c)
  PROVE  /\ \A i \in CallId : ~Holds(i, c)
         /\ \A t \in Targets : ~HasCaller(t, c)
         /\ ~InProgress(c)
BY DEF HeldFor

(* Nor is a caller in two places.                                          *)
LEMMA HeldByTarget ==
  ASSUME NEW c \in Callers, HeldFor(c), NEW t \in Targets, HasCaller(t, c)
  PROVE  /\ Waiting(c)
         /\ \A i \in CallId : ~Holds(i, c)
         /\ \A u \in Targets : HasCaller(u, c) => u = t
         /\ ~InProgress(c)
BY DEF HeldFor

LEMMA HeldByEntry ==
  ASSUME NEW c \in Callers, HeldFor(c), NEW i \in CallId, Holds(i, c)
  PROVE  /\ Waiting(c)
         /\ \A j \in CallId : Holds(j, c) => j = i
         /\ \A t \in Targets : ~HasCaller(t, c)
         /\ ~InProgress(c)
BY DEF HeldFor

LEMMA HeldByNavigation ==
  ASSUME NEW c \in Callers, HeldFor(c), InProgress(c)
  PROVE  /\ Waiting(c)
         /\ \A i \in CallId : ~Holds(i, c)
         /\ \A t \in Targets : ~HasCaller(t, c)
BY DEF HeldFor

-----------------------------------------------------------------------------
(* What a step does to the entries and to the targets.                     *)

LEMMA HasCallerIs ==
  ASSUME NEW t \in Targets, NEW c \in Callers
  PROVE  /\ HasCaller(t, c) <=> c \in tgt[t].inbox \/ c = tgt[t].initiator
         /\ HasCaller(t, c)' <=> c \in tgt'[t].inbox \/ c = tgt'[t].initiator
BY NoneAssumption DEF HasCaller, DroppedWith

LEMMA SameEntries ==
  ASSUME UNCHANGED pending
  PROVE  \A i \in CallId, c \in Callers : Holds(i, c)' <=> Holds(i, c)
BY DEF Holds

LEMMA SubmitOwning ==
  ASSUME TypeOK, FreshIds, NEW req \in Owning, NEW c \in Callers, NEW t,
         Submit(Pending(req, c, t))
  PROVE  /\ nextId \in CallId
         /\ \A i \in CallId, d \in Callers :
              Holds(i, d)' <=> Holds(i, d) \/ (i = nextId /\ d = c)
BY SubmitIsFresh DEF Holds, Pending

LEMMA SubmitOther ==
  ASSUME TypeOK, FreshIds, NEW req, req \notin Owning, NEW c, NEW t, Submit(Pending(req, c, t))
  PROVE  \A i \in CallId, d \in Callers : Holds(i, d)' <=> Holds(i, d)
BY SubmitIsFresh DEF Holds, Pending

LEMMA WithoutHolds ==
  ASSUME NEW I, pending' = Without(I)
  PROVE  \A i \in CallId, c \in Callers : Holds(i, c)' <=> Holds(i, c) /\ i \notin I
BY DEF Holds, Without, NoPending, Pending, Owning

(* A step that gives no target another sender and takes none away.         *)
LEMMA SameSenders ==
  ASSUME \A t \in Targets : /\ tgt'[t].inbox = tgt[t].inbox
                            /\ tgt'[t].initiator = tgt[t].initiator
  PROVE  \A t \in Targets, c \in Callers : HasCaller(t, c)' <=> HasCaller(t, c)
BY DEF HasCaller, DroppedWith

LEMMA NewHasNone ==
  ASSUME NEW t \in Targets, tgt'[t] \in {NewTarget, Absent}
  PROVE  \A c \in Callers : ~HasCaller(t, c)'
BY HasCallerIs, NoneAssumption DEF NewTarget, Absent

-----------------------------------------------------------------------------
(* Every step keeps HeldOnce.  In each, the callers it is not about are    *)
(* untouched.                                                              *)

LEMMA RequestsHeld ==
  ASSUME IInv, NEW c \in Callers,
         BrowserCommand(c) \/ FetchTargets(c) \/ CloseBrowser(c) \/ CreatePage(c)
  PROVE  \A d \in Callers : HeldFor(d)'
<1>0. TypeOK /\ FreshIds /\ \A d \in Callers : HeldFor(d)
  BY HeldForAll DEF IInv
<1>1. UNCHANGED <<tgt, navigations>> /\ asked[c] = "idle" /\ asked'[c] # "idle"
      /\ \A d \in Callers : d # c => asked'[d] = asked[d]
  BY <1>0 DEF BrowserCommand, FetchTargets, CloseBrowser, CreatePage, Ask, TypeOK, P!TypeOK
<1>2. /\ \A t \in Targets, d \in Callers : HasCaller(t, d)' <=> HasCaller(t, d)
      /\ \A d \in Callers : InProgress(d)' <=> InProgress(d)
  BY <1>1, SameSenders DEF InProgress
<1>3. reply[c] = "none" /\ ~Waiting(c)
  BY <1>1 DEF IInv, KindsMatch, Waiting, P!Waiting
<1>4. /\ \A i \in CallId : ~Holds(i, c)
      /\ \A t \in Targets : ~HasCaller(t, c)'
      /\ ~InProgress(c)'
  BY <1>0, <1>2, <1>3, IdleNowhere
<1>5. \/ UNCHANGED reply /\ \E req \in Owning : \E t : Submit(Pending(req, c, t))
      \/ UNCHANGED pending /\ \E r \in {"canceled", "not_found", "error"} : reply' = Resolved({c}, r)
  BY DEF BrowserCommand, FetchTargets, CloseBrowser, CreatePage, Full, wireVars, Owning
<1>6. CASE UNCHANGED reply /\ \E req \in Owning : \E t : Submit(Pending(req, c, t))
  <2>1. /\ nextId \in CallId
        /\ \A i \in CallId, d \in Callers :
              Holds(i, d)' <=> Holds(i, d) \/ (i = nextId /\ d = c)
    BY <1>0, <1>6, SubmitOwning
  <2>2. HeldFor(c)'
    <3>1. \A i \in CallId : Holds(i, c)' <=> i = nextId
      BY <1>4, <2>1
    <3>2. reply'[c] = "none"
      BY <1>3, <1>6
    <3> QED
      BY <1>1, <1>4, <2>1, <3>1, <3>2, ToPendingHeld
  <2>3. ASSUME NEW d \in Callers, d # c
        PROVE  HeldFor(d)'
    <3>1. Untouched(d)
      BY <1>1, <1>2, <1>6, <2>1, <2>3 DEF Untouched
    <3> QED
      BY <1>0, <3>1, UntouchedHeld
  <2> QED
    BY <2>2, <2>3
<1>7. ASSUME NEW r \in {"canceled", "not_found", "error"},
             UNCHANGED pending, reply' = Resolved({c}, r)
      PROVE  \A d \in Callers : HeldFor(d)'
  <2>1. reply'[c] # "none" /\ \A d \in Callers : d # c => reply'[d] = reply[d]
    BY <1>7 DEF Resolved
  <2>2. \A i \in CallId, d \in Callers : Holds(i, d)' <=> Holds(i, d)
    BY <1>7, SameEntries
  <2>3. HeldFor(c)'
    BY <1>4, <2>1, <2>2, ResolvedHeld DEF Left
  <2>4. ASSUME NEW d \in Callers, d # c
        PROVE  HeldFor(d)'
    <3>1. Untouched(d)
      BY <1>1, <1>2, <2>1, <2>2, <2>4 DEF Untouched
    <3> QED
      BY <1>0, <3>1, UntouchedHeld
  <2> QED
    BY <2>3, <2>4
<1> QED
  BY <1>5, <1>6, <1>7

(* One caller moves, or is resolved, and the rest stays.                   *)
LEMMA OneMoves ==
  ASSUME IInv, NEW c \in Callers, HeldFor(c)',
         \A d \in Callers : d # c => Untouched(d)
  PROVE  \A d \in Callers : HeldFor(d)'
BY UntouchedHeld, HeldForAll DEF IInv

(* A message is taken from the page channel of t.                          *)
LEMMA TakenFromInbox ==
  ASSUME IInv, NEW t \in Targets, NEW c \in tgt[t].inbox,
         tgt'[t].inbox = tgt[t].inbox \ {c}, tgt'[t].initiator = tgt[t].initiator,
         \A u \in Targets : u # t => tgt'[u] = tgt[u]
  PROVE  /\ c \in Callers /\ HasCaller(t, c)
         /\ \A u \in Targets : ~HasCaller(u, c)'
         /\ \A u \in Targets, d \in Callers : d # c => (HasCaller(u, d)' <=> HasCaller(u, d))
<1>1. c \in Callers
  BY TgtType DEF IInv, Target
<1>2. c # tgt[t].initiator
  BY <1>1, NoneAssumption DEF IInv, KindsMatch, TargetMatches
<1>3. HasCaller(t, c)
  BY <1>1, HasCallerIs
<1>4. ASSUME NEW u \in Targets
      PROVE  ~HasCaller(u, c)'
  <2>1. CASE u = t
    BY <1>1, <1>2, <2>1, HasCallerIs
  <2>2. CASE u # t
    <3>1. ~HasCaller(u, c)
      BY <1>1, <1>3, <2>2, HeldByTarget, HeldForAll DEF IInv
    <3> QED
      BY <1>1, <2>2, <3>1, HasCallerIs
  <2> QED
    BY <2>1, <2>2
<1>5. ASSUME NEW u \in Targets, NEW d \in Callers, d # c
      PROVE  HasCaller(u, d)' <=> HasCaller(u, d)
  BY <1>5, HasCallerIs
<1> QED
  BY <1>1, <1>3, <1>4, <1>5

LEMMA PageSendsHeld ==
  ASSUME IInv, NEW t \in Targets, NEW c \in Callers, PageSends(c, t)
  PROVE  \A d \in Callers : HeldFor(d)'
<1>0. TypeOK /\ HeldFor(c)
  BY HeldForAll DEF IInv
<1>1. /\ UNCHANGED <<pending, navigations, reply>>
      /\ asked[c] = "idle" /\ asked'[c] # "idle"
      /\ \A d \in Callers : d # c => asked'[d] = asked[d]
  BY <1>0 DEF PageSends, Ask, wireVars, TypeOK, P!TypeOK
<1>2. /\ \A i \in CallId, d \in Callers : Holds(i, d)' <=> Holds(i, d)
      /\ \A d \in Callers : InProgress(d)' <=> InProgress(d)
  BY <1>1, SameEntries DEF InProgress
<1>3. /\ tgt'[t].inbox = tgt[t].inbox \union {c} /\ tgt'[t].initiator = tgt[t].initiator
      /\ \A u \in Targets : u # t => tgt'[u] = tgt[u]
  <2>1. tgt[t] \in Target
    BY <1>0, TgtType
  <2> QED
    BY <1>0, <2>1, TgtType DEF PageSends, Target
<1>4. reply'[c] = "none" /\ ~Waiting(c)
  BY <1>1 DEF IInv, KindsMatch, Waiting, P!Waiting
<1>5. /\ \A i \in CallId : ~Holds(i, c)'
      /\ \A u \in Targets : ~HasCaller(u, c)
      /\ ~InProgress(c)'
  BY <1>0, <1>2, <1>4, IdleNowhere
<1>6. \A u \in Targets : HasCaller(u, c)' <=> u = t
  BY <1>3, <1>5, HasCallerIs
<1>7. HeldFor(c)'
  BY <1>1, <1>4, <1>5, <1>6, ToTargetHeld
<1>8. \A d \in Callers : d # c => Untouched(d)
  BY <1>1, <1>2, <1>3, HasCallerIs DEF Untouched
<1> QED
  BY <1>7, <1>8, OneMoves

LEMMA TakeCommandHeld ==
  ASSUME IInv, NEW t \in Targets, NEW c \in Callers, TakeCommand(t, c) \/ TakeClosing(t, c)
  PROVE  \A d \in Callers : HeldFor(d)'
<1>0. TypeOK /\ FreshIds /\ HeldFor(c)
  BY HeldForAll DEF IInv
<1>1. c \in tgt[t].inbox /\ UNCHANGED <<asked, navigations>>
  BY DEF TakeCommand, TakeClosing, Takes
<1>2. /\ tgt'[t].inbox = tgt[t].inbox \ {c} /\ tgt'[t].initiator = tgt[t].initiator
      /\ \A u \in Targets : u # t => tgt'[u] = tgt[u]
  <2>1. tgt[t] \in Target
    BY <1>0, TgtType
  <2> QED
    BY <1>0, <2>1, TgtType DEF TakeCommand, TakeClosing, Target
<1>3. /\ HasCaller(t, c) /\ \A u \in Targets : ~HasCaller(u, c)'
      /\ \A u \in Targets, d \in Callers : d # c => (HasCaller(u, d)' <=> HasCaller(u, d))
  BY <1>1, <1>2, TakenFromInbox
<1>4. Waiting(c) /\ (\A i \in CallId : ~Holds(i, c)) /\ ~InProgress(c)'
  BY <1>0, <1>1, <1>3, HeldByTarget DEF InProgress
<1>5. \A d \in Callers : InProgress(d)' <=> InProgress(d)
  BY <1>1 DEF InProgress
<1>6. \/ UNCHANGED reply /\ \E u : Submit(Pending("ExternalCommand", c, u))
      \/ UNCHANGED pending /\ reply' = Resolved({c}, "canceled")
  BY DEF TakeCommand, TakeClosing, Full, wireVars
<1>7. CASE UNCHANGED reply /\ \E u : Submit(Pending("ExternalCommand", c, u))
  <2>1. /\ nextId \in CallId
        /\ \A i \in CallId, d \in Callers :
              Holds(i, d)' <=> Holds(i, d) \/ (i = nextId /\ d = c)
    BY <1>0, <1>7, SubmitOwning DEF Owning
  <2>2. \A i \in CallId : Holds(i, c)' <=> i = nextId
    BY <1>4, <2>1
  <2>3. asked'[c] # "idle" /\ reply'[c] = "none"
    BY <1>1, <1>4, <1>7 DEF Waiting, P!Waiting
  <2>4. HeldFor(c)'
    BY <1>3, <1>4, <2>1, <2>2, <2>3, ToPendingHeld
  <2>5. \A d \in Callers : d # c => Untouched(d)
    BY <1>1, <1>3, <1>5, <1>7, <2>1 DEF Untouched
  <2> QED
    BY <2>4, <2>5, OneMoves
<1>8. CASE UNCHANGED pending /\ reply' = Resolved({c}, "canceled")
  <2>1. \A i \in CallId, d \in Callers : Holds(i, d)' <=> Holds(i, d)
    BY <1>8, SameEntries
  <2>2. reply'[c] # "none" /\ \A d \in Callers : d # c => reply'[d] = reply[d]
    BY <1>8 DEF Resolved
  <2>3. HeldFor(c)'
    BY <1>3, <1>4, <2>1, <2>2, ResolvedHeld DEF Left
  <2>4. \A d \in Callers : d # c => Untouched(d)
    BY <1>1, <1>3, <1>5, <2>1, <2>2 DEF Untouched
  <2> QED
    BY <2>3, <2>4, OneMoves
<1> QED
  BY <1>6, <1>7, <1>8

LEMMA TakeNavigateHeld ==
  ASSUME IInv, NEW t \in Targets, NEW c \in Callers, TakeNavigate(t, c)
  PROVE  \A d \in Callers : HeldFor(d)'
<1>0. TypeOK /\ FreshIds /\ HeldFor(c)
  BY HeldForAll DEF IInv
<1>1. /\ c \in tgt[t].inbox /\ UNCHANGED <<asked, reply>>
      /\ InProgress(c)' /\ \A d \in Callers : d # c => (InProgress(d)' <=> InProgress(d))
  BY <1>0 DEF TakeNavigate, Takes, callerVars, InProgress, TypeOK
<1>2. /\ tgt'[t].inbox = tgt[t].inbox \ {c} /\ tgt'[t].initiator = tgt[t].initiator
      /\ \A u \in Targets : u # t => tgt'[u] = tgt[u]
  <2>1. tgt[t] \in Target
    BY <1>0, TgtType
  <2> QED
    BY <1>0, <2>1, TgtType DEF TakeNavigate, Target
<1>3. /\ HasCaller(t, c) /\ \A u \in Targets : ~HasCaller(u, c)'
      /\ \A u \in Targets, d \in Callers : d # c => (HasCaller(u, d)' <=> HasCaller(u, d))
  BY <1>1, <1>2, TakenFromInbox
<1>4. \A i \in CallId, d \in Callers : Holds(i, d)' <=> Holds(i, d)
  <2>1. UNCHANGED pending \/ Submit(Pending("Navigate", c, None))
    BY DEF TakeNavigate, Full, wireVars
  <2>2. "Navigate" \notin Owning
    BY DEF Owning
  <2> QED
    BY <1>0, <2>1, <2>2, SubmitOther, SameEntries
<1>5. /\ asked'[c] # "idle" /\ reply'[c] = "none"
      /\ \A i \in CallId : ~Holds(i, c)'
  BY <1>0, <1>1, <1>3, <1>4, HeldByTarget DEF Waiting, P!Waiting
<1>6. HeldFor(c)'
  BY <1>1, <1>3, <1>5, ToNavigationHeld
<1>7. \A d \in Callers : d # c => Untouched(d)
  BY <1>1, <1>3, <1>4 DEF Untouched
<1> QED
  BY <1>6, <1>7, OneMoves

(* The initiator of t is answered, and t keeps none.                       *)
LEMMA InitiatorAnswered ==
  ASSUME IInv, NEW t \in Targets, UNCHANGED <<asked, navigations>>,
         \A i \in CallId, d \in Callers : Holds(i, d)' <=> Holds(i, d),
         tgt'[t].inbox = tgt[t].inbox, tgt'[t].initiator = None,
         \A u \in Targets : u # t => tgt'[u] = tgt[u],
         NEW r \in {"ok", "timeout"},
         reply' = Resolved({tgt[t].initiator} \ {None}, r)
  PROVE  \A d \in Callers : HeldFor(d)'
<1>1. \A d \in Callers : InProgress(d)' <=> InProgress(d)
  BY DEF InProgress
<1>2. \A u \in Targets, d \in Callers :
        d # tgt[t].initiator => (HasCaller(u, d)' <=> HasCaller(u, d))
  BY HasCallerIs, NoneAssumption
<1>3. \A d \in Callers : d # tgt[t].initiator => Untouched(d)
  BY <1>1, <1>2 DEF Untouched, Resolved
<1>4. ASSUME NEW c \in Callers, c = tgt[t].initiator
      PROVE  \A d \in Callers : HeldFor(d)'
  <2>1. HasCaller(t, c) /\ HeldFor(c)
    BY <1>4, HasCallerIs, HeldForAll DEF IInv
  <2>2. /\ \A i \in CallId : ~Holds(i, c)'
        /\ \A u \in Targets : HasCaller(u, c) => u = t
        /\ ~InProgress(c)'
    BY <1>1, <2>1, HeldByTarget
  <2>3. c \notin tgt[t].inbox
    BY <1>4, NoneAssumption DEF IInv, KindsMatch, TargetMatches
  <2>4. \A u \in Targets : ~HasCaller(u, c)'
    BY <2>2, <2>3, HasCallerIs, NoneAssumption
  <2>5. reply'[c] # "none"
    BY <1>4, NoneAssumption DEF Resolved
  <2>6. HeldFor(c)'
    BY <2>2, <2>4, <2>5, ResolvedHeld DEF Left
  <2> QED
    BY <1>3, <1>4, <2>6, OneMoves
<1>5. CASE tgt[t].initiator \notin Callers
  BY <1>3, <1>5, UntouchedHeld, HeldForAll DEF IInv
<1> QED
  BY <1>4, <1>5

LEMMA PollHeld ==
  ASSUME IInv, NEW t \in Targets,
         PollAttach(t) \/ PollInit(t) \/ PollInitFailed(t) \/ PollInitiator(t)
  PROVE  \A d \in Callers : HeldFor(d)'
<1>0. TypeOK /\ FreshIds /\ tgt[t] \in Target
  BY TgtType DEF IInv
<1>1. UNCHANGED <<asked, navigations>>
  BY DEF PollAttach, PollInit, PollInitFailed, PollInitiator, callerVars
<1>2. \A i \in CallId, d \in Callers : Holds(i, d)' <=> Holds(i, d)
  <2>1. \/ UNCHANGED pending
        \/ \E req \in Internal : Submit(Pending(req, None, t))
    BY DEF PollAttach, PollInit, PollInitFailed, PollInitiator, Full, wireVars, Internal
  <2>2. \A req \in Internal : req \notin Owning
    BY DEF Internal, Owning
  <2> QED
    BY <1>0, <2>1, <2>2, SubmitOther, SameEntries
<1>3. CASE PollAttach(t) \/ PollInit(t)
  <2>1. \A u \in Targets : /\ tgt'[u].inbox = tgt[u].inbox
                           /\ tgt'[u].initiator = tgt[u].initiator
    BY <1>0, <1>3, TgtType DEF PollAttach, PollInit, Target
  <2>2. UNCHANGED reply
    BY <1>3 DEF PollAttach, PollInit, callerVars
  <2>3. \A d \in Callers : Untouched(d)
    BY <1>1, <1>2, <2>1, <2>2, SameSenders DEF Untouched, InProgress
  <2> QED
    BY <2>3, UntouchedHeld, HeldForAll DEF IInv
<1>4. CASE PollInitFailed(t) \/ PollInitiator(t)
  <2>1. /\ tgt'[t].inbox = tgt[t].inbox /\ tgt'[t].initiator = None
        /\ \A u \in Targets : u # t => tgt'[u] = tgt[u]
    BY <1>0, <1>4, TgtType DEF PollInitFailed, PollInitiator, Target
  <2>2. \E r \in {"ok", "timeout"} : reply' = Resolved({tgt[t].initiator} \ {None}, r)
    <3>1. CASE PollInitFailed(t)
      BY <3>1 DEF PollInitFailed
    <3>2. CASE PollInitiator(t)
      <4>1. {tgt[t].initiator} = {tgt[t].initiator} \ {None}
        BY <3>2 DEF PollInitiator
      <4> QED
        BY <3>2, <4>1 DEF PollInitiator
    <3> QED
      BY <1>4, <3>1, <3>2
  <2> QED
    BY <1>1, <1>2, <2>1, <2>2, InitiatorAnswered
<1> QED
  BY <1>3, <1>4

(* A navigation is answered, by the response that came last or by the      *)
(* frame manager.                                                          *)
LEMMA NavigationAnswered ==
  ASSUME IInv, NEW c \in Callers, UNCHANGED asked,
         \A i \in CallId, d \in Callers : Holds(i, d)' <=> Holds(i, d),
         \A t \in Targets, d \in Callers : HasCaller(t, d)' <=> HasCaller(t, d),
         \/ /\ \A d \in Callers : InProgress(d)' <=> InProgress(d)
            /\ UNCHANGED reply
         \/ /\ InProgress(c)
            /\ navigations' = [navigations EXCEPT ![c] = "none"]
            /\ \E r \in {"ok", "error"} : reply' = Resolved({c}, r)
  PROVE  \A d \in Callers : HeldFor(d)'
<1>1. CASE UNCHANGED reply /\ \A d \in Callers : InProgress(d)' <=> InProgress(d)
  <2>1. \A d \in Callers : Untouched(d)
    BY <1>1 DEF Untouched
  <2> QED
    BY <2>1, UntouchedHeld, HeldForAll DEF IInv
<1>2. CASE /\ InProgress(c)
           /\ navigations' = [navigations EXCEPT ![c] = "none"]
           /\ \E r \in {"ok", "error"} : reply' = Resolved({c}, r)
  <2>1. /\ \A i \in CallId : ~Holds(i, c)'
        /\ \A t \in Targets : ~HasCaller(t, c)'
    BY <1>2, HeldByNavigation, HeldForAll DEF IInv
  <2>2. /\ ~InProgress(c)'
        /\ \A d \in Callers : d # c => (InProgress(d)' <=> InProgress(d))
    BY <1>2 DEF InProgress, IInv, TypeOK
  <2>3. reply'[c] # "none" /\ \A d \in Callers : d # c => reply'[d] = reply[d]
    BY <1>2 DEF Resolved
  <2>4. HeldFor(c)'
    BY <2>1, <2>2, <2>3, ResolvedHeld DEF Left
  <2>5. \A d \in Callers : d # c => Untouched(d)
    BY <2>2, <2>3 DEF Untouched
  <2> QED
    BY <2>4, <2>5, OneMoves
<1> QED
  BY <1>1, <1>2

LEMMA NavigationHeld ==
  ASSUME IInv, NEW t \in Targets,
         \/ \E c \in Callers : NavigationRequest(t, c)
         \/ NavigationLoaded(t)
         \/ NavigationFailed(t)
  PROVE  \A d \in Callers : HeldFor(d)'
<1>0. TypeOK /\ FreshIds /\ tgt[t] \in Target
  BY TgtType DEF IInv
<1>1. UNCHANGED asked
  BY DEF NavigationRequest, NavigationLoaded, NavigationFailed, callerVars
<1>2. \A u \in Targets, d \in Callers : HasCaller(u, d)' <=> HasCaller(u, d)
  <2>1. \A u \in Targets : /\ tgt'[u].inbox = tgt[u].inbox
                           /\ tgt'[u].initiator = tgt[u].initiator
    <3>1. ASSUME NEW c \in Callers, NavigationRequest(t, c)
          PROVE  \A u \in Targets : /\ tgt'[u].inbox = tgt[u].inbox
                                   /\ tgt'[u].initiator = tgt[u].initiator
      <4>1. \A u \in Targets :
              tgt'[u] = IF u = t THEN [tgt[t] EXCEPT !.queued = @ \ {c}, !.active = c] ELSE tgt[u]
        BY <1>0, <3>1, TgtType DEF NavigationRequest
      <4> QED
        BY <1>0, <4>1 DEF Target
    <3>2. CASE NavigationLoaded(t) \/ NavigationFailed(t)
      BY <1>0, <3>2, TgtType DEF NavigationLoaded, NavigationFailed, Target
    <3> QED
      BY <3>1, <3>2
  <2> QED
    BY <2>1, SameSenders
<1>3. \A i \in CallId, d \in Callers : Holds(i, d)' <=> Holds(i, d)
  <2>1. UNCHANGED pending \/ \E c \in Callers : Submit(Pending("Navigate", c, None))
    BY DEF NavigationRequest, NavigationLoaded, NavigationFailed, Full, wireVars
  <2>2. "Navigate" \notin Owning
    BY DEF Owning
  <2> QED
    BY <1>0, <2>1, <2>2, SubmitOther, SameEntries
<1>4. ASSUME NEW c \in Callers, NavigationRequest(t, c)
      PROVE  \A d \in Callers : HeldFor(d)'
  <2>1. UNCHANGED <<reply, navigations>>
    BY <1>4 DEF NavigationRequest, callerVars
  <2>2. \A d \in Callers : Untouched(d)
    BY <1>1, <1>2, <1>3, <2>1 DEF Untouched, InProgress
  <2> QED
    BY <2>2, UntouchedHeld, HeldForAll DEF IInv
<1>5. CASE NavigationLoaded(t)
  <2> DEFINE c == tgt[t].active
  <2>1. c \in Callers
    BY <1>0, <1>5 DEF NavigationLoaded, Target
  <2>2. \/ /\ \A d \in Callers : InProgress(d)' <=> InProgress(d)
           /\ UNCHANGED reply
        \/ /\ InProgress(c)
           /\ navigations' = [navigations EXCEPT ![c] = "none"]
           /\ reply' = Resolved({c}, "ok")
    BY <1>0, <1>5, <2>1 DEF NavigationLoaded, InProgress, TypeOK
  <2> QED
    BY <1>1, <1>2, <1>3, <2>1, <2>2, NavigationAnswered
<1>6. CASE NavigationFailed(t)
  <2> DEFINE c == tgt[t].active
  <2>1. c \in Callers
    BY <1>0, <1>6 DEF NavigationFailed, Target
  <2>2. \/ /\ \A d \in Callers : InProgress(d)' <=> InProgress(d)
           /\ UNCHANGED reply
        \/ /\ InProgress(c)
           /\ navigations' = [navigations EXCEPT ![c] = "none"]
           /\ reply' = Resolved({c}, "error")
    BY <1>0, <1>6, <2>1 DEF NavigationFailed, InProgress, TypeOK
  <2> QED
    BY <1>1, <1>2, <1>3, <2>1, <2>2, NavigationAnswered
<1> QED
  BY <1>4, <1>5, <1>6

(* Entries are removed: the senders they own are nowhere else.             *)
LEMMA EntriesRemoved ==
  ASSUME IInv, NEW I \in SUBSET CallId, pending' = Without(I), NEW c \in Callers
  PROVE  /\ c \in OwnersOf(I) => /\ Waiting(c) /\ ~InProgress(c)
                                 /\ \A i \in CallId : ~Holds(i, c)'
                                 /\ \A t \in Targets : ~HasCaller(t, c)
         /\ c \notin OwnersOf(I) => \A i \in CallId : Holds(i, c)' <=> Holds(i, c)
<1>0. HeldFor(c)
  BY HeldForAll DEF IInv
<1>1. \A i \in CallId : Holds(i, c)' <=> Holds(i, c) /\ i \notin I
  BY WithoutHolds
<1>2. c \in OwnersOf(I) <=> \E i \in I : Holds(i, c)
  BY DEF OwnersOf, Holds
<1>3. CASE c \in OwnersOf(I)
  <2>1. PICK i \in I : Holds(i, c)
    BY <1>2, <1>3
  <2> QED
    BY <1>0, <1>1, <1>3, <2>1, HeldByEntry
<1> QED
  BY <1>1, <1>2, <1>3

(* Targets are replaced or forgotten: the senders they held are nowhere    *)
(* else.                                                                   *)
LEMMA TargetsReplaced ==
  ASSUME IInv, NEW T \in SUBSET Targets,
         \A t \in T : tgt'[t] \in {NewTarget, Absent},
         \A t \in Targets \ T : tgt'[t] = tgt[t],
         NEW c \in Callers
  PROVE  /\ c \in DroppedBy(T) => /\ Waiting(c) /\ ~InProgress(c)
                                  /\ \A i \in CallId : ~Holds(i, c)
                                  /\ \A t \in Targets : ~HasCaller(t, c)'
         /\ c \notin DroppedBy(T) => \A t \in Targets : HasCaller(t, c)' <=> HasCaller(t, c)
<1>0. HeldFor(c)
  BY HeldForAll DEF IInv
<1>1. /\ \A t \in T : ~HasCaller(t, c)'
      /\ \A t \in Targets \ T : HasCaller(t, c)' <=> HasCaller(t, c)
  BY NewHasNone, HasCallerIs
<1>2. c \in DroppedBy(T) <=> \E t \in T : HasCaller(t, c)
  BY DEF DroppedBy, HasCaller
<1>3. CASE c \in DroppedBy(T)
  <2>1. PICK t \in T : HasCaller(t, c)
    BY <1>2, <1>3
  <2> QED
    BY <1>0, <1>1, <1>3, <2>1, HeldByTarget
<1> QED
  BY <1>1, <1>2, <1>3

(* The owner of one entry is answered.                                     *)
LEMMA EntryAnswered ==
  ASSUME IInv, NEW i \in CallId, pending[i].req \in Owning, pending' = Without({i}),
         UNCHANGED <<asked, tgt, navigations>>,
         NEW r \in P!Replies, reply' = Resolved({pending[i].tx}, r)
  PROVE  \A d \in Callers : HeldFor(d)'
<1>1. OwnersOf({i}) = {pending[i].tx}
  BY DEF OwnersOf
<1>2. /\ \A t \in Targets, d \in Callers : HasCaller(t, d)' <=> HasCaller(t, d)
      /\ \A d \in Callers : InProgress(d)' <=> InProgress(d)
  BY SameSenders DEF InProgress
<1>3. ASSUME NEW d \in Callers, d = pending[i].tx
      PROVE  HeldFor(d)'
  BY <1>1, <1>2, <1>3, EntriesRemoved, ResolvedHeld DEF Left, Resolved, P!Replies
<1>4. ASSUME NEW d \in Callers, d # pending[i].tx
      PROVE  HeldFor(d)'
  <2>1. Untouched(d)
    BY <1>1, <1>2, <1>4, EntriesRemoved DEF Untouched, Resolved
  <2> QED
    BY <2>1, UntouchedHeld, HeldForAll DEF IInv
<1> QED
  BY <1>3, <1>4

(* An entry without a sender is taken out.                                 *)
LEMMA EntryTaken ==
  ASSUME NEW i \in CallId, pending[i].req \notin Owning, pending' = Without({i})
  PROVE  \A j \in CallId, d \in Callers : Holds(j, d)' <=> Holds(j, d)
BY WithoutHolds DEF Holds

LEMMA AnswerCreateHeld ==
  ASSUME IInv, NEW i \in CallId, AnswerCreate(i)
  PROVE  \A d \in Callers : HeldFor(d)'
<1>0. /\ TypeOK /\ pending[i].req \in Owning /\ pending' = Without({i})
      /\ UNCHANGED <<asked, navigations>>
      /\ pending[i].tx \in Callers
  BY OwnerType DEF IInv, AnswerCreate, Answers, Owning
<1>1. \/ UNCHANGED tgt /\ \E r \in {"error", "not_found"} : reply' = Resolved({pending[i].tx}, r)
      \/ UNCHANGED reply /\ \E t \in Targets \ claimed :
                              tgt' = [tgt EXCEPT ![t].initiator = pending[i].tx]
  BY DEF AnswerCreate
<1>2. CASE UNCHANGED tgt /\ \E r \in {"error", "not_found"} : reply' = Resolved({pending[i].tx}, r)
  BY <1>0, <1>2, EntryAnswered DEF P!Replies
<1>3. ASSUME NEW c \in Callers, c = pending[i].tx, NEW t \in Targets \ claimed,
             tgt' = [tgt EXCEPT ![t].initiator = c], UNCHANGED reply
      PROVE  \A d \in Callers : HeldFor(d)'
  <2>1. OwnersOf({i}) = {c}
    BY <1>0, <1>3 DEF OwnersOf
  <2>2. /\ Waiting(c) /\ ~InProgress(c)
        /\ \A j \in CallId : ~Holds(j, c)'
        /\ \A u \in Targets : ~HasCaller(u, c)
    BY <1>0, <2>1, EntriesRemoved
  <2>3. tgt[t].initiator = None
    BY DEF IInv, Claimed
  <2>4. /\ tgt'[t].inbox = tgt[t].inbox /\ tgt'[t].initiator = c
        /\ \A u \in Targets : u # t => tgt'[u] = tgt[u]
    <3>1. tgt[t] \in Target
      BY <1>0, TgtType
    <3> QED
      BY <1>0, <1>3, <3>1, TgtType DEF Target
  <2>5. \A u \in Targets : HasCaller(u, c)' <=> u = t
    BY <2>2, <2>4, HasCallerIs
  <2>6. asked'[c] # "idle" /\ reply'[c] = "none" /\ ~InProgress(c)'
    BY <1>0, <1>3, <2>2 DEF Waiting, P!Waiting, InProgress
  <2>7. HeldFor(c)'
    BY <2>2, <2>5, <2>6, ToTargetHeld
  <2>8. ASSUME NEW d \in Callers, d # c
        PROVE  Untouched(d)
    <3>1. \A u \in Targets : HasCaller(u, d)' <=> HasCaller(u, d)
      BY <2>3, <2>4, <2>8, HasCallerIs, NoneAssumption
    <3>2. \A j \in CallId : Holds(j, d)' <=> Holds(j, d)
      BY <1>0, <2>1, <2>8, EntriesRemoved
    <3> QED
      BY <1>0, <1>3, <3>1, <3>2 DEF Untouched, InProgress
  <2> QED
    BY <2>7, <2>8, OneMoves
<1> QED
  BY <1>0, <1>1, <1>2, <1>3

LEMMA AnswerGetTargetsHeld ==
  ASSUME IInv, NEW i \in CallId, AnswerGetTargets(i)
  PROVE  \A d \in Callers : HeldFor(d)'
<1>0. /\ TypeOK /\ pending[i].req \in Owning /\ pending' = Without({i})
      /\ UNCHANGED <<asked, navigations>>
  BY DEF IInv, AnswerGetTargets, Answers, Owning
<1>1. OwnersOf({i}) = {pending[i].tx}
  BY <1>0 DEF OwnersOf
<1>2. CASE UNCHANGED tgt /\ reply' = Resolved({pending[i].tx}, "error")
  BY <1>0, <1>2, EntryAnswered DEF P!Replies
<1>3. ASSUME NEW T \in SUBSET Targets, Create(T),
             reply' = [d \in Callers |-> IF d = pending[i].tx THEN "ok"
                                         ELSE IF d \in DroppedBy(T) THEN "canceled"
                                         ELSE reply[d]],
             NEW d \in Callers
      PROVE  HeldFor(d)'
  <2>1. /\ \A t \in T : tgt'[t] \in {NewTarget, Absent}
        /\ \A t \in Targets \ T : tgt'[t] = tgt[t]
    BY <1>3 DEF Create
  <2>2. InProgress(d)' <=> InProgress(d)
    BY <1>0 DEF InProgress
  <2>3. CASE d = pending[i].tx
    <3>1. Left(d)
      BY <1>0, <1>1, <2>1, <2>2, <2>3, EntriesRemoved, TargetsReplaced DEF Left
    <3> QED
      BY <1>3, <2>3, <3>1, ResolvedHeld
  <2>4. CASE d # pending[i].tx /\ d \in DroppedBy(T)
    <3>1. Left(d)
      BY <1>0, <1>1, <2>1, <2>2, <2>4, EntriesRemoved, TargetsReplaced DEF Left
    <3> QED
      BY <1>3, <2>4, <3>1, ResolvedHeld
  <2>5. CASE d # pending[i].tx /\ d \notin DroppedBy(T)
    <3>1. Untouched(d)
      BY <1>0, <1>1, <1>3, <2>1, <2>2, <2>5, EntriesRemoved, TargetsReplaced DEF Untouched
    <3> QED
      BY <3>1, UntouchedHeld, HeldForAll DEF IInv
  <2> QED
    BY <2>3, <2>4, <2>5
<1> QED
  BY <1>2, <1>3 DEF AnswerGetTargets

LEMMA OnResponseHeld ==
  ASSUME IInv, NEW i \in CallId, OnResponse(i)
  PROVE  \A d \in Callers : HeldFor(d)'
<1>0. TypeOK
  BY DEF IInv
<1>1. CASE AnswerCommand(i) \/ AnswerCloseBrowser(i)
  <2>1. /\ pending[i].req \in Owning /\ pending' = Without({i})
        /\ UNCHANGED <<asked, tgt, navigations>>
        /\ reply' = Resolved({pending[i].tx}, "ok")
    BY <1>1 DEF AnswerCommand, AnswerCloseBrowser, Answers, Owning
  <2> QED
    BY <2>1, EntryAnswered DEF P!Replies
<1>2. CASE AnswerNavigate(i)
  <2>1. /\ pending[i].req \notin Owning /\ pending' = Without({i})
        /\ UNCHANGED <<asked, tgt>>
        /\ pending[i].tx \in Callers
    BY <1>0, <1>2, OwnerType DEF AnswerNavigate, Answers, Owning
  <2>2. /\ \A j \in CallId, d \in Callers : Holds(j, d)' <=> Holds(j, d)
        /\ \A t \in Targets, d \in Callers : HasCaller(t, d)' <=> HasCaller(t, d)
    BY <2>1, EntryTaken, SameSenders
  <2>3. ASSUME NEW c \in Callers, OnNavigationResponse(c)
        PROVE  \/ /\ \A d \in Callers : InProgress(d)' <=> InProgress(d)
                  /\ UNCHANGED reply
               \/ /\ InProgress(c)
                  /\ navigations' = [navigations EXCEPT ![c] = "none"]
                  /\ reply' = Resolved({c}, "ok")
    BY <1>0, <2>3 DEF OnNavigationResponse, InProgress, TypeOK
  <2>4. \E c \in Callers : OnNavigationResponse(c)
    BY <1>2, <2>1 DEF AnswerNavigate
  <2> QED
    BY <2>1, <2>2, <2>3, <2>4, NavigationAnswered
<1>3. CASE AnswerAttach(i) \/ AnswerInit(i) \/ AnswerCloseTarget(i)
  <2>1. /\ pending[i].req \notin Owning /\ pending' = Without({i})
        /\ UNCHANGED <<asked, reply, navigations>>
    BY <1>3 DEF AnswerAttach, AnswerInit, AnswerCloseTarget, Answers, Owning, callerVars
  <2>2. \A t \in Targets : /\ tgt'[t].inbox = tgt[t].inbox
                           /\ tgt'[t].initiator = tgt[t].initiator
    <3>1. CASE UNCHANGED tgt
      BY <3>1
    <3>2. ASSUME NEW u \in Targets,
                 \/ \E s \in Sessions : tgt' = [tgt EXCEPT ![u].session = s]
                 \/ \E f \in BOOLEAN :
                      tgt' = [tgt EXCEPT ![u] = [@ EXCEPT !.init = "Initialized", !.frame = f]]
          PROVE  \A t \in Targets : /\ tgt'[t].inbox = tgt[t].inbox
                                    /\ tgt'[t].initiator = tgt[t].initiator
      <4>1. tgt[u] \in Target
        BY <1>0, TgtType
      <4>2. CASE \E s \in Sessions : tgt' = [tgt EXCEPT ![u].session = s]
        BY <1>0, <4>1, <4>2, TgtType DEF Target
      <4>3. ASSUME NEW f \in BOOLEAN, NEW t \in Targets,
                   tgt' = [tgt EXCEPT ![u] = [@ EXCEPT !.init = "Initialized", !.frame = f]]
            PROVE  tgt'[t].inbox = tgt[t].inbox /\ tgt'[t].initiator = tgt[t].initiator
        <5>1. tgt'[t] = IF t = u THEN [tgt[u] EXCEPT !.init = "Initialized", !.frame = f]
                        ELSE tgt[t]
          BY <1>0, <4>3, TgtType
        <5> QED
          BY <4>1, <5>1 DEF Target
      <4> QED
        BY <3>2, <4>2, <4>3
    <3>3. CASE AnswerAttach(i)
      <4>1. pending[i].target \in Targets
        BY <1>0, <3>3, OwnerType DEF AnswerAttach, Answers, Internal
      <4> QED
        BY <3>1, <3>2, <3>3, <4>1 DEF AnswerAttach
    <3>4. CASE AnswerInit(i)
      <4>1. pending[i].target \in Targets
        BY <1>0, <3>4, OwnerType DEF AnswerInit, Answers, Internal
      <4> QED
        BY <3>1, <3>2, <3>4, <4>1 DEF AnswerInit
    <3> QED
      BY <1>3, <3>1, <3>3, <3>4 DEF AnswerCloseTarget
  <2>3. \A d \in Callers : Untouched(d)
    BY <2>1, <2>2, EntryTaken, SameSenders DEF Untouched, InProgress
  <2> QED
    BY <2>3, UntouchedHeld, HeldForAll DEF IInv
<1> QED
  BY <1>1, <1>2, <1>3, AnswerCreateHeld, AnswerGetTargetsHeld DEF OnResponse

(* A new page, or a new session: no sender moves.                          *)
LEMMA SessionsHeld ==
  ASSUME IInv,
         \/ \E t \in Targets : GetPage(t)
         \/ \E s \in Sessions : \/ \E t \in Targets : AttachedToTarget(s, t)
                              \/ DetachedFromTarget(s)
  PROVE  \A d \in Callers : HeldFor(d)'
<1>1. UNCHANGED <<pending, navigations, asked, reply>>
  BY DEF GetPage, AttachedToTarget, DetachedFromTarget, wireVars, callerVars
<1>2. \A t \in Targets : /\ tgt'[t].inbox = tgt[t].inbox
                         /\ tgt'[t].initiator = tgt[t].initiator
  <2>1. ASSUME NEW u \in Targets, NEW s,
               \/ tgt' = [tgt EXCEPT ![u].session = s]
               \/ tgt' = [tgt EXCEPT ![u].page = s]
        PROVE  \A t \in Targets : /\ tgt'[t].inbox = tgt[t].inbox
                                  /\ tgt'[t].initiator = tgt[t].initiator
    <3>1. TypeOK /\ tgt[u] \in Target
      BY TgtType DEF IInv
    <3> QED
      BY <2>1, <3>1, TgtType DEF Target
  <2>2. \/ UNCHANGED tgt
        \/ \E u \in Targets : \/ \E s : tgt' = [tgt EXCEPT ![u].session = s]
                              \/ \E s : tgt' = [tgt EXCEPT ![u].page = s]
    <3>1. ASSUME NEW s \in Sessions, DetachedFromTarget(s)
          PROVE  \/ UNCHANGED tgt
                 \/ \E u \in Targets : tgt' = [tgt EXCEPT ![u].session = None]
      BY <3>1 DEF DetachedFromTarget, IInv, TypeOK
    <3>2. ASSUME NEW s \in Sessions, NEW t \in Targets, AttachedToTarget(s, t)
          PROVE  UNCHANGED tgt \/ tgt' = [tgt EXCEPT ![t].session = s]
      BY <3>2 DEF AttachedToTarget
    <3>3. ASSUME NEW t \in Targets, GetPage(t)
          PROVE  tgt' = [tgt EXCEPT ![t].page = tgt[t].session]
      BY <3>3 DEF GetPage
    <3> QED
      BY <3>1, <3>2, <3>3
  <2> QED
    BY <2>1, <2>2
<1>3. \A d \in Callers : Untouched(d)
  BY <1>1, <1>2, SameSenders, SameEntries DEF Untouched, InProgress
<1> QED
  BY <1>3, UntouchedHeld, HeldForAll DEF IInv

LEMMA TargetEventHeld ==
  ASSUME IInv, NEW t \in Targets, TargetCreated(t) \/ TargetDestroyed(t) \/ TargetCrashed(t),
         NEW d \in Callers
  PROVE  HeldFor(d)'
<1>0. UNCHANGED <<asked, navigations>> /\ (InProgress(d)' <=> InProgress(d))
  BY DEF TargetCreated, TargetDestroyed, TargetCrashed, InProgress
<1>1. CASE TargetCreated(t) /\ UNCHANGED <<tgt, reply>>
  <2>1. Untouched(d)
    BY <1>0, <1>1, SameEntries, SameSenders DEF Untouched, TargetCreated, wireVars
  <2> QED
    BY <2>1, UntouchedHeld, HeldForAll DEF IInv
<1>2. CASE tgt'[t] \in {NewTarget, Absent} /\ \A u \in Targets \ {t} : tgt'[u] = tgt[u]
  <2>0. d \in DroppedBy({t}) <=> d \in DroppedWith(t)
    BY DEF DroppedBy
  <2>1. /\ d \in DroppedWith(t) => /\ Waiting(d) /\ ~InProgress(d)
                                   /\ \A i \in CallId : ~Holds(i, d)
                                   /\ \A u \in Targets : ~HasCaller(u, d)'
        /\ d \notin DroppedWith(t) => \A u \in Targets : HasCaller(u, d)' <=> HasCaller(u, d)
    BY <1>2, <2>0, TargetsReplaced
  <2>2. CASE UNCHANGED pending /\ reply' = Resolved(DroppedWith(t), "canceled")
    <3>1. \A i \in CallId : Holds(i, d)' <=> Holds(i, d)
      BY <2>2, SameEntries
    <3>2. CASE d \in DroppedWith(t)
      BY <1>0, <2>1, <2>2, <3>1, <3>2, ResolvedHeld DEF Left, Resolved
    <3>3. CASE d \notin DroppedWith(t)
      <4>1. Untouched(d)
        BY <1>0, <2>1, <2>2, <3>1, <3>3 DEF Untouched, Resolved
      <4> QED
        BY <4>1, UntouchedHeld, HeldForAll DEF IInv
    <3> QED
      BY <3>2, <3>3
  <2>3. CASE TargetCrashed(t)
    <3>1. pending' = Without(BoundTo(t)) /\ BoundTo(t) \in SUBSET CallId
      BY <2>3 DEF TargetCrashed, BoundTo
    <3>2. /\ d \in OwnersOf(BoundTo(t)) => /\ Waiting(d) /\ ~InProgress(d)
                                           /\ \A i \in CallId : ~Holds(i, d)'
                                           /\ \A u \in Targets : ~HasCaller(u, d)
          /\ d \notin OwnersOf(BoundTo(t)) => \A i \in CallId : Holds(i, d)' <=> Holds(i, d)
      BY <3>1, EntriesRemoved
    <3>3. CASE d \in OwnersOf(BoundTo(t)) \/ d \in DroppedWith(t)
      <4>0. HasCaller(t, d) <=> d \in DroppedWith(t)
        BY DEF HasCaller
      <4>1. Left(d)
        BY <1>0, <2>1, <3>2, <3>3, <4>0 DEF Left
      <4>2. reply'[d] # "none"
        BY <2>3, <3>3 DEF TargetCrashed
      <4> QED
        BY <4>1, <4>2, ResolvedHeld
    <3>4. CASE d \notin OwnersOf(BoundTo(t)) /\ d \notin DroppedWith(t)
      <4>1. Untouched(d)
        BY <1>0, <2>1, <2>3, <3>2, <3>4 DEF Untouched, TargetCrashed
      <4> QED
        BY <4>1, UntouchedHeld, HeldForAll DEF IInv
    <3> QED
      BY <3>3, <3>4
  <2>4. CASE (TargetCreated(t) /\ ~UNCHANGED <<tgt, reply>>) \/ TargetDestroyed(t)
    <3>1. UNCHANGED pending /\ reply' = Resolved(DroppedWith(t), "canceled")
      BY <2>4 DEF TargetCreated, TargetDestroyed, wireVars
    <3> QED
      BY <2>2, <3>1
  <2> QED
    BY <1>1, <2>3, <2>4
<1>3. \/ TargetCreated(t) /\ UNCHANGED <<tgt, reply>>
      \/ tgt'[t] \in {NewTarget, Absent} /\ \A u \in Targets \ {t} : tgt'[u] = tgt[u]
  BY TgtType DEF TargetCreated, TargetDestroyed, TargetCrashed, Create, Forget, IInv
<1> QED
  BY <1>1, <1>2, <1>3

LEMMA EndHeld ==
  ASSUME IInv, DisposeContext \/ (\E I \in SUBSET CallId : Evict(I)) \/ Stop, NEW d \in Callers
  PROVE  HeldFor(d)'
<1>0. HeldFor(d) /\ TypeOK
  BY HeldForAll DEF IInv
<1>1. CASE DisposeContext
  <2>1. Untouched(d)
    BY <1>1, SameEntries, SameSenders DEF DisposeContext, wireVars, callerVars, Untouched, InProgress
  <2> QED
    BY <1>0, <2>1, UntouchedHeld
<1>2. ASSUME NEW I \in SUBSET CallId, Evict(I)
      PROVE  HeldFor(d)'
  <2>1. /\ d \in OwnersOf(I) => /\ Waiting(d) /\ ~InProgress(d)
                                /\ \A i \in CallId : ~Holds(i, d)'
                                /\ \A t \in Targets : ~HasCaller(t, d)
        /\ d \notin OwnersOf(I) => \A i \in CallId : Holds(i, d)' <=> Holds(i, d)
    BY <1>2, EntriesRemoved DEF Evict
  <2>2. UNCHANGED <<asked, tgt>> /\ \A t \in Targets : HasCaller(t, d)' <=> HasCaller(t, d)
    BY <1>2, SameSenders DEF Evict
  <2>3. InProgress(d)' <=> InProgress(d) /\ d \notin ExpiredNavigations(I)
    BY <1>2 DEF Evict, InProgress
  <2>4. d \in ExpiredNavigations(I) => InProgress(d)
    BY DEF ExpiredNavigations, InProgress
  <2>5. CASE d \in OwnersOf(I) \union ExpiredNavigations(I)
    <3>1. Left(d)
      BY <1>0, <2>1, <2>2, <2>3, <2>4, <2>5, HeldByNavigation DEF Left
    <3> QED
      BY <1>2, <2>5, <3>1, ResolvedHeld DEF Evict, Resolved
  <2>6. CASE d \notin OwnersOf(I) \union ExpiredNavigations(I)
    <3>1. Untouched(d)
      BY <1>2, <2>1, <2>2, <2>3, <2>6 DEF Evict, Resolved, Untouched
    <3> QED
      BY <1>0, <3>1, UntouchedHeld
  <2> QED
    BY <2>5, <2>6
<1>3. CASE Stop
  <2>1. Left(d)
    BY <1>3, WithoutHolds, NewHasNone DEF Stop, Left, InProgress
  <2>2. CASE Waiting(d)
    BY <1>3, <2>1, <2>2, ResolvedHeld DEF Stop, Resolved
  <2>3. CASE ~Waiting(d)
    <3>1. Untouched(d)
      BY <1>0, <1>3, <2>1, <2>3, IdleNowhere DEF Stop, Resolved, Untouched, Left
    <3> QED
      BY <1>0, <3>1, UntouchedHeld
  <2> QED
    BY <2>2, <2>3
<1> QED
  BY <1>1, <1>2, <1>3

LEMMA HeldNext == IInv /\ [Next]_vars => HeldOnce'
<1> SUFFICES ASSUME IInv, [Next]_vars
             PROVE  \A d \in Callers : HeldFor(d)'
  BY HeldForAll
<1>1. CASE Next
  BY <1>1, RequestsHeld, PageSendsHeld, TakeCommandHeld, TakeNavigateHeld, PollHeld,
     NavigationHeld, OnResponseHeld, SessionsHeld, TargetEventHeld, EndHeld
  DEF Next, Shutdown, ConnectionLost
<1>2. CASE UNCHANGED vars
  <2>1. \A d \in Callers : Untouched(d)
    BY <1>2, SameEntries, SameSenders DEF vars, wireVars, callerVars, Untouched, InProgress
  <2> QED
    BY <2>1, UntouchedHeld, HeldForAll DEF IInv
<1> QED
  BY <1>1, <1>2

-----------------------------------------------------------------------------
(* A target is claimed once.                                               *)

(* Only the answer to a CreateTarget gives a target its initiator.         *)
LEMMA InitiatorNext ==
  ASSUME TypeOK, Next, NEW t \in Targets
  PROVE  tgt'[t].initiator \in {tgt[t].initiator, None} \/ t \in claimed'
<1> DEFINE Kept == \A u \in Targets : tgt'[u].initiator \in {tgt[u].initiator, None}
<1>0. tgt \in [Targets -> Target]
  BY TgtType
<1>2. ASSUME NEW u \in Targets, NEW c \in Callers,
             PageSends(c, u) \/ TakeCommand(u, c) \/ TakeClosing(u, c)
      PROVE  Kept
  <2>1. \/ tgt' = [tgt EXCEPT ![u].inbox = @ \union {c}]
        \/ tgt' = [tgt EXCEPT ![u].inbox = @ \ {c}]
    BY <1>2 DEF PageSends, TakeCommand, TakeClosing
  <2> QED
    BY <1>0, <2>1 DEF Target
<1>3. ASSUME NEW u \in Targets, NEW c \in Callers, TakeNavigate(u, c)
      PROVE  Kept
  BY <1>0, <1>3 DEF TakeNavigate, Target
<1>4. ASSUME NEW u \in Targets, NEW c \in Callers, NavigationRequest(u, c)
      PROVE  Kept
  <2>1. \A v \in Targets :
          tgt'[v] = IF v = u THEN [tgt[u] EXCEPT !.queued = @ \ {c}, !.active = c] ELSE tgt[v]
    BY <1>0, <1>4 DEF NavigationRequest
  <2> QED
    BY <1>0, <2>1 DEF Target
<1>5. ASSUME NEW u \in Targets, NavigationLoaded(u) \/ NavigationFailed(u)
      PROVE  Kept
  BY <1>0, <1>5 DEF NavigationLoaded, NavigationFailed, Target
<1>6. ASSUME NEW u \in Targets, PollAttach(u) \/ PollInit(u) \/ GetPage(u)
      PROVE  Kept
  BY <1>0, <1>6 DEF PollAttach, PollInit, GetPage, Target
<1>7. ASSUME NEW u \in Targets, PollInitFailed(u) \/ PollInitiator(u)
      PROVE  Kept
  BY <1>0, <1>7 DEF PollInitFailed, PollInitiator, Target
<1>8. ASSUME NEW i \in CallId, OnResponse(i)
      PROVE  Kept \/ t \in claimed' \/ tgt'[t] = tgt[t]
  <2>1. CASE AnswerCreate(i)
    BY <1>0, <2>1 DEF AnswerCreate
  <2>2. CASE AnswerGetTargets(i)
    BY <2>2 DEF AnswerGetTargets, Create, NewTarget
  <2>3. CASE AnswerAttach(i) \/ AnswerInit(i)
    <3>1. pending[i].target \in Targets
      BY <2>3, OwnerType DEF AnswerAttach, AnswerInit, Answers, Internal
    <3>2. ASSUME NEW u \in Targets, NEW s \in Sessions, tgt' = [tgt EXCEPT ![u].session = s]
          PROVE  Kept
      BY <1>0, <3>2 DEF Target
    <3>3. ASSUME NEW u \in Targets, NEW f \in BOOLEAN,
                 tgt' = [tgt EXCEPT ![u] = [@ EXCEPT !.init = "Initialized", !.frame = f]]
          PROVE  Kept
      <4>1. \A v \in Targets :
              tgt'[v] = IF v = u THEN [tgt[u] EXCEPT !.init = "Initialized", !.frame = f]
                        ELSE tgt[v]
        BY <1>0, <3>3
      <4>2. tgt[u] \in Target
        BY <1>0
      <4>3. [tgt[u] EXCEPT !.init = "Initialized", !.frame = f].initiator = tgt[u].initiator
        BY <4>2 DEF Target
      <4> QED
        BY <4>1, <4>3
    <3>4. CASE UNCHANGED tgt
      BY <3>4
    <3>5. CASE AnswerAttach(i)
      BY <3>1, <3>2, <3>4, <3>5 DEF AnswerAttach
    <3>6. CASE AnswerInit(i)
      BY <3>1, <3>3, <3>4, <3>6 DEF AnswerInit
    <3> QED
      BY <2>3, <3>5, <3>6
  <2>4. CASE AnswerNavigate(i) \/ AnswerCommand(i) \/ AnswerCloseTarget(i) \/ AnswerCloseBrowser(i)
    BY <2>4 DEF AnswerNavigate, AnswerCommand, AnswerCloseTarget, AnswerCloseBrowser
  <2> QED
    BY <1>8, <2>1, <2>2, <2>3, <2>4 DEF OnResponse
<1>9. ASSUME NEW u \in Targets, TargetCreated(u) \/ TargetDestroyed(u) \/ TargetCrashed(u)
      PROVE  Kept
  BY <1>0, <1>9
  DEF TargetCreated, TargetDestroyed, TargetCrashed, Create, Forget, NewTarget, Absent
<1>10. ASSUME NEW s \in Sessions, DetachedFromTarget(s) \/ \E u \in Targets : AttachedToTarget(s, u)
       PROVE  Kept
  <2>1. sessions[s] \in Targets \union {None}
    BY DEF TypeOK
  <2> QED
    BY <1>0, <1>10, <2>1 DEF DetachedFromTarget, AttachedToTarget, Target
<1>11. CASE Stop
  BY <1>11 DEF Stop, Absent, NewTarget
<1>12. ASSUME \/ DisposeContext \/ (\E I \in SUBSET CallId : Evict(I))
              \/ \E c \in Callers : \/ BrowserCommand(c) \/ FetchTargets(c)
                                    \/ CloseBrowser(c) \/ CreatePage(c)
       PROVE  Kept
  BY <1>12 DEF DisposeContext, Evict, BrowserCommand, FetchTargets, CloseBrowser, CreatePage
<1> QED
  BY <1>2, <1>3, <1>4, <1>5, <1>6, <1>7, <1>8, <1>9, <1>10, <1>11, <1>12
  DEF Next, Shutdown, ConnectionLost

LEMMA ClaimedGrows ==
  ASSUME Next
  PROVE  claimed \subseteq claimed'
BY DEF Next, OnResponse, BrowserCommand, FetchTargets, CloseBrowser, CreatePage, GetPage,
   DisposeContext, PageSends, TakeCommand, TakeNavigate, TakeClosing, PollAttach, PollInit,
   PollInitFailed, PollInitiator, NavigationRequest, NavigationLoaded, NavigationFailed,
   AnswerCreate, AnswerGetTargets, AnswerNavigate, AnswerCommand, AnswerAttach, AnswerInit,
   AnswerCloseTarget, AnswerCloseBrowser, TargetCreated, TargetDestroyed, TargetCrashed,
   AttachedToTarget, DetachedFromTarget, Evict, Stop, Shutdown, ConnectionLost, browserVars

LEMMA ClaimedNext == TypeOK /\ Claimed /\ [Next]_vars => Claimed'
<1> SUFFICES ASSUME TypeOK, Claimed, [Next]_vars
             PROVE  Claimed'
  OBVIOUS
<1>1. CASE Next
  BY <1>1, InitiatorNext, ClaimedGrows DEF Claimed
<1>2. CASE UNCHANGED vars
  BY <1>2 DEF Claimed, vars, browserVars
<1> QED
  BY <1>1, <1>2

-----------------------------------------------------------------------------

LEMMA IInvInit == Init => IInv
<1> SUFFICES ASSUME Init
             PROVE  IInv
  OBVIOUS
<1>1. TypeOK /\ KindsMatch
  BY InitType, NavigationInit
<1>2. FreshIds /\ Claimed
  BY DEF Init, FreshIds, Claimed, Absent, NewTarget
<1>3. \A c \in Callers : HeldFor(c)
  BY NoneAssumption
  DEF Init, P!Init, HeldFor, Waiting, P!Waiting, Holds, NoPending, Pending, Owning,
      HasCaller, DroppedWith, Absent, NewTarget, InProgress
<1> QED
  BY <1>1, <1>2, <1>3, HeldForAll DEF IInv

LEMMA IInvNext == IInv /\ [Next]_vars => IInv'
<1> SUFFICES ASSUME IInv, [Next]_vars
             PROVE  IInv'
  OBVIOUS
<1>1. TypeOK' /\ KindsMatch' /\ HeldOnce'
  BY StepType, KindsNext, HeldNext DEF IInv
<1>2. FreshIds' /\ Claimed'
  BY FreshNext, ClaimedNext DEF IInv
<1> QED
  BY <1>1, <1>2 DEF IInv

(* A caller that waits is held by exactly one entry of pending_commands or *)
(* navigations, or by one target, and a caller that was answered by none:  *)
(* no step of the event loop loses a sender or keeps one it has used.      *)
THEOREM HeldOnceAlways == Spec => []HeldOnce
<1>1. IInv => HeldOnce
  BY DEF IInv
<1> QED
  BY <1>1, IInvInit, IInvNext, PTL DEF Spec

-----------------------------------------------------------------------------
(* Every step keeps the promise: it asks, or resolves callers that wait.   *)

Answered(c) ==
  reply'[c] # reply[c] => Waiting(c) /\ reply'[c] \in P!Outcomes(asked[c])

LEMMA ResolveStep ==
  ASSUME TypeOK', UNCHANGED asked, \A c \in Callers : Answered(c)
  PROVE  P!Resolve
BY DEF P!Resolve, Answered, Waiting, TypeOK, P!TypeOK

LEMMA HoldersWait ==
  ASSUME IInv, NEW c \in Callers
  PROVE  /\ \A i \in CallId : Holds(i, c) => Waiting(c)
         /\ \A t \in Targets : c \in DroppedWith(t) => Waiting(c)
         /\ navigations[c] # "none" => Waiting(c) /\ asked[c] = "Navigate"
<1>1. HeldFor(c)
  BY HeldForAll DEF IInv
<1>2. navigations[c] # "none" => asked[c] = "Navigate"
  BY DEF IInv, KindsMatch
<1> QED
  BY <1>1, <1>2 DEF HeldFor, HasCaller, InProgress

LEMMA AnyOutcome == \A k : {"ok", "timeout", "canceled"} \subseteq P!Outcomes(k)
BY DEF P!Outcomes

LEMMA RequestsPromise ==
  ASSUME IInv, NEW c \in Callers,
         \/ BrowserCommand(c) \/ FetchTargets(c) \/ CloseBrowser(c) \/ CreatePage(c)
         \/ \E t \in Targets : PageSends(c, t)
  PROVE  P!Next
<1>0. reply \in [Callers -> P!Replies \union {"none"}]
  BY DEF IInv, TypeOK, P!TypeOK
<1>1. ASSUME NEW k \in P!Requests, Ask(c, k),
             \/ UNCHANGED reply
             \/ \E r \in P!Outcomes(k) : reply' = Resolved({c}, r)
      PROVE  P!Next
  <2>1. \A r : Resolved({c}, r) = [reply EXCEPT ![c] = r]
    BY <1>0 DEF Resolved
  <2>2. P!Ask(c, k)
    BY <1>1, <2>1 DEF Ask, P!Ask
  <2> QED
    BY <2>2 DEF P!Next
<1>2. CASE BrowserCommand(c)
  BY <1>1, <1>2, AnyOutcome DEF BrowserCommand, P!Requests, P!Commands
<1>3. CASE FetchTargets(c)
  BY <1>1, <1>3, AnyOutcome DEF FetchTargets, P!Requests
<1>4. CASE CloseBrowser(c)
  BY <1>1, <1>4, AnyOutcome DEF CloseBrowser, P!Requests
<1>5. CASE CreatePage(c)
  <2>1. {"error", "not_found"} \subseteq P!Outcomes("CreatePage")
    BY DEF P!Outcomes
  <2> QED
    BY <1>1, <1>5, <2>1 DEF CreatePage, P!Requests
<1>6. CASE \E t \in Targets : PageSends(c, t)
  BY <1>1, <1>6 DEF PageSends, P!Requests, P!Commands
<1> QED
  BY <1>2, <1>3, <1>4, <1>5, <1>6

LEMMA ChannelPromise ==
  ASSUME IInv, NEW t \in Targets, NEW c \in Callers,
         TakeCommand(t, c) \/ TakeNavigate(t, c) \/ TakeClosing(t, c) \/ NavigationRequest(t, c)
  PROVE  UNCHANGED asked /\ \A d \in Callers : Answered(d)
<1>1. CASE TakeCommand(t, c) \/ TakeClosing(t, c)
  <2>1. c \in DroppedWith(t)
    BY <1>1, NoneAssumption DEF TakeCommand, TakeClosing, Takes, DroppedWith
  <2>2. Waiting(c)
    BY <2>1, HoldersWait
  <2> QED
    BY <1>1, <2>2, AnyOutcome DEF TakeCommand, TakeClosing, Resolved, Answered
<1>2. CASE TakeNavigate(t, c) \/ NavigationRequest(t, c)
  BY <1>2 DEF TakeNavigate, NavigationRequest, callerVars, Answered
<1> QED
  BY <1>1, <1>2

LEMMA PollPromise ==
  ASSUME IInv, NEW t \in Targets,
         \/ PollAttach(t) \/ PollInit(t) \/ PollInitFailed(t) \/ PollInitiator(t)
         \/ NavigationLoaded(t) \/ NavigationFailed(t)
  PROVE  UNCHANGED asked /\ \A d \in Callers : Answered(d)
<1>1. CASE PollAttach(t) \/ PollInit(t)
  BY <1>1 DEF PollAttach, PollInit, callerVars, Answered
<1>2. CASE PollInitFailed(t) \/ PollInitiator(t)
  <2>1. \A d \in Callers : d = tgt[t].initiator => Waiting(d)
    BY HoldersWait, NoneAssumption DEF DroppedWith
  <2> QED
    BY <1>2, <2>1, AnyOutcome DEF PollInitFailed, PollInitiator, Resolved, Answered
<1>3. CASE NavigationLoaded(t)
  BY <1>3, HoldersWait, AnyOutcome DEF NavigationLoaded, Resolved, Answered
<1>4. CASE NavigationFailed(t)
  <2>1. "error" \in P!Outcomes("Navigate")
    BY DEF P!Outcomes
  <2> QED
    BY <1>4, <2>1, HoldersWait DEF NavigationFailed, Resolved, Answered
<1> QED
  BY <1>1, <1>2, <1>3, <1>4

LEMMA OnResponsePromise ==
  ASSUME IInv, NEW i \in CallId, OnResponse(i)
  PROVE  UNCHANGED asked /\ \A d \in Callers : Answered(d)
<1>1. ASSUME NEW r, pending[i].req \in Owning, r \in P!Outcomes(asked[pending[i].tx]),
             NEW d \in Callers, reply'[d] = IF d = pending[i].tx THEN r ELSE reply[d]
      PROVE  Answered(d)
  <2>1. d = pending[i].tx => Waiting(d)
    BY <1>1, HoldersWait DEF Holds
  <2> QED
    BY <1>1, <2>1 DEF Answered
<1>2. /\ pending[i].req = "CreateTarget" =>
           {"error", "not_found"} \subseteq P!Outcomes(asked[pending[i].tx])
      /\ pending[i].req = "GetTargets" => "error" \in P!Outcomes(asked[pending[i].tx])
  BY DEF IInv, KindsMatch, EntryMatches, P!Outcomes
<1>3. CASE AnswerCreate(i)
  <2>1. \/ UNCHANGED reply
        \/ \E r \in {"error", "not_found"} : reply' = Resolved({pending[i].tx}, r)
    BY <1>3 DEF AnswerCreate
  <2>2. pending[i].req = "CreateTarget" /\ UNCHANGED asked
    BY <1>3 DEF AnswerCreate, Answers
  <2> QED
    BY <1>1, <1>2, <2>1, <2>2 DEF Resolved, Answered, Owning
<1>4. CASE AnswerGetTargets(i)
  <2>1. pending[i].req = "GetTargets" /\ UNCHANGED asked
    BY <1>4 DEF AnswerGetTargets, Answers
  <2>2. CASE reply' = Resolved({pending[i].tx}, "error")
    BY <1>1, <1>2, <2>1, <2>2 DEF Resolved, Owning
  <2>3. ASSUME NEW T \in SUBSET Targets, NEW d \in Callers,
               reply'[d] = IF d = pending[i].tx THEN "ok"
                           ELSE IF d \in DroppedBy(T) THEN "canceled" ELSE reply[d]
        PROVE  Answered(d)
    <3>1. d = pending[i].tx => Waiting(d)
      BY <2>1, HoldersWait DEF Holds, Owning
    <3>2. d \in DroppedBy(T) => Waiting(d)
      BY HoldersWait DEF DroppedBy
    <3> QED
      BY <2>3, <3>1, <3>2, AnyOutcome DEF Answered
  <2> QED
    BY <1>4, <2>1, <2>2, <2>3 DEF AnswerGetTargets
<1>5. CASE AnswerCommand(i) \/ AnswerCloseBrowser(i)
  <2>1. /\ pending[i].req \in Owning /\ UNCHANGED asked
        /\ reply' = Resolved({pending[i].tx}, "ok")
    BY <1>5 DEF AnswerCommand, AnswerCloseBrowser, Answers, Owning
  <2> QED
    BY <1>1, <2>1, AnyOutcome DEF Resolved
<1>6. CASE AnswerNavigate(i)
  BY <1>6, HoldersWait, AnyOutcome
  DEF AnswerNavigate, OnNavigationResponse, Resolved, Answered
<1>7. CASE AnswerAttach(i) \/ AnswerInit(i) \/ AnswerCloseTarget(i)
  BY <1>7 DEF AnswerAttach, AnswerInit, AnswerCloseTarget, callerVars, Answered
<1> QED
  BY <1>3, <1>4, <1>5, <1>6, <1>7 DEF OnResponse

LEMMA TargetEventPromise ==
  ASSUME IInv, NEW t \in Targets, TargetCreated(t) \/ TargetDestroyed(t) \/ TargetCrashed(t)
  PROVE  UNCHANGED asked /\ \A d \in Callers : Answered(d)
<1>1. CASE TargetCreated(t) \/ TargetDestroyed(t)
  BY <1>1, HoldersWait, AnyOutcome DEF TargetCreated, TargetDestroyed, Resolved, Answered
<1>2. CASE TargetCrashed(t)
  <2>1. ASSUME NEW d \in Callers, d \in OwnersOf(BoundTo(t))
        PROVE  Waiting(d) /\ "crashed" \in P!Outcomes(asked[d])
    <3>1. PICK i \in CallId : i \in BoundTo(t) /\ pending[i].req \in Owning /\ d = pending[i].tx
      BY <2>1 DEF OwnersOf, BoundTo
    <3>2. pending[i].req = "ExternalCommand"
      BY <3>1 DEF BoundTo, Owning, Internal
    <3>3. asked[d] \in {"Command", "PageCommand"}
      BY <3>1, <3>2 DEF IInv, KindsMatch, EntryMatches
    <3>4. "crashed" \in P!Outcomes(asked[d])
      BY <3>3 DEF P!Outcomes, P!Commands
    <3> QED
      BY <3>1, <3>4, HoldersWait DEF Holds
  <2>2. \A d \in Callers : d \in DroppedWith(t) => Waiting(d)
    BY HoldersWait
  <2> QED
    BY <1>2, <2>1, <2>2, AnyOutcome DEF TargetCrashed, Answered
<1> QED
  BY <1>1, <1>2

LEMMA EndPromise ==
  ASSUME IInv,
         \/ DisposeContext \/ (\E I \in SUBSET CallId : Evict(I)) \/ Stop
         \/ \E t \in Targets : GetPage(t)
         \/ \E s \in Sessions : \/ \E t \in Targets : AttachedToTarget(s, t)
                              \/ DetachedFromTarget(s)
  PROVE  UNCHANGED asked /\ \A d \in Callers : Answered(d)
<1>1. ASSUME NEW I \in SUBSET CallId, Evict(I)
      PROVE  UNCHANGED asked /\ \A d \in Callers : Answered(d)
  <2>1. \A d \in Callers : d \in OwnersOf(I) \union ExpiredNavigations(I) => Waiting(d)
    BY HoldersWait DEF OwnersOf, Holds, ExpiredNavigations
  <2> QED
    BY <1>1, <2>1, AnyOutcome DEF Evict, Resolved, Answered
<1>2. CASE Stop
  BY <1>2, AnyOutcome DEF Stop, Resolved, Answered
<1> QED
  BY <1>1, <1>2
  DEF DisposeContext, GetPage, AttachedToTarget, DetachedFromTarget, callerVars, Answered

LEMMA PromiseNext == IInv /\ [Next]_vars => [P!Next]_P!vars
<1> SUFFICES ASSUME IInv, [Next]_vars
             PROVE  [P!Next]_P!vars
  OBVIOUS
<1>1. TypeOK'
  BY StepType DEF IInv
<1>2. CASE UNCHANGED asked /\ \A d \in Callers : Answered(d)
  BY <1>1, <1>2, ResolveStep DEF P!Next
<1>3. CASE Next
  BY <1>2, <1>3, RequestsPromise, ChannelPromise, PollPromise, OnResponsePromise,
     TargetEventPromise, EndPromise
  DEF Next, Shutdown, ConnectionLost
<1>4. CASE UNCHANGED vars
  BY <1>4 DEF vars, callerVars, P!vars
<1> QED
  BY <1>3, <1>4

(* The handler implements Promise: a one-shot is resolved at most once,    *)
(* never changed after, and only with an outcome of its request's kind.    *)
THEOREM PromiseKept == Spec => KeepsPromise
<1>1. Init => P!Init
  BY DEF Init
<1> QED
  BY <1>1, IInvInit, IInvNext, PromiseNext, PTL DEF Spec, KeepsPromise, P!Spec

-----------------------------------------------------------------------------
(* A navigation of a Stream handler can still be resolved.                 *)

IsNavigate(i, c) == pending[i].req = "Navigate" /\ pending[i].tx = c

(* As long as the end of the lifecycle is to come, the frame manager has   *)
(* the navigation or was lost; as long as the answer is to come, for a     *)
(* navigation that was started, its Page.navigate is pending.              *)
Followed(c) ==
  /\ navigations[c] \in {"started", "responded"} =>
       c \in homeless \/ \E t \in Targets : c \in Tracked(t)
  /\ navigations[c] = "navigated"
       \/ (navigations[c] = "started" /\ \E t \in Targets : tgt[t].active = c) =>
         \E i \in CallId : IsNavigate(i, c)

(* What is in a page channel was never given to a frame manager.           *)
Untaken == \A t, u \in Targets : tgt[t].inbox \cap Tracked(u) = {}

Followable == (mode = "stream" => \A c \in Callers : Followed(c)) /\ Untaken

LEMMA TrackedIs ==
  \A t \in Targets, c \in Callers :
    /\ c \in Tracked(t) <=> c \in tgt[t].queued \/ c = tgt[t].active
    /\ c \in Tracked(t)' <=> c \in tgt'[t].queued \/ c = tgt'[t].active
BY NoneAssumption DEF Tracked

(* What becomes of a target q keeps its navigations.                       *)
Pursues(q, r) == r.inbox \subseteq q.inbox /\ r.queued = q.queued /\ r.active = q.active

KeepsEntries(c) == \A i \in CallId : IsNavigate(i, c) => pending'[i] = pending[i]

LEMMA FollowedKept ==
  ASSUME NEW c \in Callers, Followed(c), homeless \subseteq homeless',
         navigations'[c] = "none" \/ (navigations'[c] = navigations[c] /\ KeepsEntries(c)),
         \A t \in Targets : c \in Tracked(t) =>
           c \in homeless' \/ navigations'[c] = "none" \/ \E u \in Targets : c \in Tracked(u)',
         \A t \in Targets : tgt'[t].active = c => \E u \in Targets : tgt[u].active = c
  PROVE  Followed(c)'
<1>1. CASE navigations'[c] = "none"
  BY <1>1 DEF Followed
<1>2. CASE navigations'[c] # "none"
  <2>1. navigations'[c] = navigations[c] /\ \A i \in CallId : IsNavigate(i, c) => IsNavigate(i, c)'
    BY <1>2 DEF KeepsEntries, IsNavigate
  <2> QED BY <1>2, <2>1 DEF Followed
<1> QED BY <1>1, <1>2

(* The steps in which no caller navigates.                                 *)
Moves(t) ==
  \/ \E c \in Callers : PageSends(c, t) \/ TakeNavigate(t, c) \/ NavigationRequest(t, c)
  \/ NavigationLoaded(t) \/ NavigationFailed(t)

LEMMA OtherTargets ==
  ASSUME TypeOK, Next, ~ \E t \in Targets : Moves(t)
  PROVE  /\ homeless \subseteq homeless'
         /\ \A t \in Targets :
              \/ Pursues(tgt[t], tgt'[t])
              \/ tgt'[t] \in {NewTarget, Absent} /\ (Tracked(t) \subseteq homeless' \/ Stop)
<1> DEFINE Kept == /\ homeless \subseteq homeless'
                   /\ \A t \in Targets :
                        \/ Pursues(tgt[t], tgt'[t])
                        \/ /\ tgt'[t] \in {NewTarget, Absent}
                           /\ Tracked(t) \subseteq homeless' \/ Stop
<1>0. tgt \in [Targets -> Target]
  BY DEF TypeOK
<1>1. ASSUME NEW u \in Targets, NEW r, tgt' = [tgt EXCEPT ![u] = r], Pursues(tgt[u], r),
             UNCHANGED homeless
      PROVE  Kept
  BY <1>0, <1>1 DEF Pursues
<1>2. ASSUME NEW u \in Targets, NEW c \in Callers, TakeCommand(u, c) \/ TakeClosing(u, c)
      PROVE  Kept
  <2>1. tgt' = [tgt EXCEPT ![u] = [tgt[u] EXCEPT !.inbox = @ \ {c}]] /\ UNCHANGED homeless
    BY <1>0, <1>2 DEF TakeCommand, TakeClosing, histVars
  <2>2. Pursues(tgt[u], [tgt[u] EXCEPT !.inbox = @ \ {c}])
    BY <1>0 DEF Target, Pursues
  <2> QED BY <1>1, <2>1, <2>2
<1>3. ASSUME NEW u \in Targets, PollAttach(u) \/ PollInit(u) \/ GetPage(u)
      PROVE  Kept
  BY <1>0, <1>3 DEF PollAttach, PollInit, GetPage, Target, Pursues, histVars
<1>4. ASSUME NEW u \in Targets, PollInitFailed(u) \/ PollInitiator(u)
      PROVE  Kept
  BY <1>0, <1>4 DEF PollInitFailed, PollInitiator, Target, Pursues, histVars
<1>5. ASSUME NEW i \in CallId, OnResponse(i)
      PROVE  Kept
  <2>1. CASE AnswerCreate(i)
    BY <1>0, <2>1 DEF AnswerCreate, Target, Pursues, histVars
  <2>2. CASE AnswerGetTargets(i)
    BY <2>2 DEF AnswerGetTargets, Create, UntrackedBy, Pursues
  <2>3. CASE AnswerInit(i)
    <3>1. pending[i].target \in Targets
      BY <2>3, OwnerType DEF AnswerInit, Answers, Internal
    <3>2. \A f \in BOOLEAN, u \in Targets :
            Pursues(tgt[u], [tgt[u] EXCEPT !.init = "Initialized", !.frame = f])
      BY <1>0 DEF Target, Pursues
    <3>3. \/ UNCHANGED tgt
          \/ \E f \in BOOLEAN : tgt' = [tgt EXCEPT ![pending[i].target] =
                                  [tgt[pending[i].target] EXCEPT !.init = "Initialized", !.frame = f]]
      BY <1>0, <2>3, <3>1 DEF AnswerInit
    <3>4. UNCHANGED homeless
      BY <2>3 DEF AnswerInit, histVars
    <3> QED BY <1>1, <3>1, <3>2, <3>3, <3>4 DEF Pursues
  <2>4. CASE AnswerAttach(i)
    <3>1. pending[i].target \in Targets
      BY <2>4, OwnerType DEF AnswerAttach, Answers, Internal
    <3>2. \/ UNCHANGED tgt
          \/ \E s \in Sessions : tgt' = [tgt EXCEPT ![pending[i].target] =
                                           [tgt[pending[i].target] EXCEPT !.session = s]]
      BY <1>0, <2>4, <3>1 DEF AnswerAttach
    <3>3. \A s \in Sessions, u \in Targets : Pursues(tgt[u], [tgt[u] EXCEPT !.session = s])
      BY <1>0 DEF Target, Pursues
    <3>4. UNCHANGED homeless
      BY <2>4 DEF AnswerAttach, histVars
    <3> QED BY <1>1, <3>1, <3>2, <3>3, <3>4 DEF Pursues
  <2>5. CASE AnswerNavigate(i) \/ AnswerCommand(i) \/ AnswerCloseTarget(i) \/ AnswerCloseBrowser(i)
    BY <2>5
    DEF AnswerNavigate, AnswerCommand, AnswerCloseTarget, AnswerCloseBrowser, Pursues, histVars
  <2> QED
    BY <1>5, <2>1, <2>2, <2>3, <2>4, <2>5 DEF OnResponse
<1>6. ASSUME NEW u \in Targets, TargetCreated(u) \/ TargetDestroyed(u) \/ TargetCrashed(u)
      PROVE  Kept
  BY <1>0, <1>6
  DEF TargetCreated, TargetDestroyed, TargetCrashed, Create, Forget, Pursues
<1>7. ASSUME NEW s \in Sessions, DetachedFromTarget(s) \/ \E t \in Targets : AttachedToTarget(s, t)
      PROVE  Kept
  <2>1. UNCHANGED homeless
    BY <1>7 DEF DetachedFromTarget, AttachedToTarget, histVars
  <2>2. \/ UNCHANGED tgt
        \/ \E u \in Targets, x \in Sessions \union {None} :
             tgt' = [tgt EXCEPT ![u] = [tgt[u] EXCEPT !.session = x]]
    <3>1. sessions[s] \in Targets \union {None}
      BY DEF TypeOK
    <3> QED BY <1>0, <1>7, <3>1 DEF DetachedFromTarget, AttachedToTarget
  <2>3. \A u \in Targets, x \in Sessions \union {None} :
          Pursues(tgt[u], [tgt[u] EXCEPT !.session = x])
    BY <1>0 DEF Target, Pursues
  <2> QED BY <1>1, <2>1, <2>2, <2>3 DEF Pursues
<1>8. CASE Stop
  BY <1>8 DEF Stop, histVars
<1>9. ASSUME \/ DisposeContext \/ (\E I \in SUBSET CallId : Evict(I))
             \/ \E c \in Callers : \/ BrowserCommand(c) \/ FetchTargets(c)
                                   \/ CloseBrowser(c) \/ CreatePage(c)
       PROVE  Kept
  BY <1>9
  DEF DisposeContext, Evict, BrowserCommand, FetchTargets, CloseBrowser, CreatePage, histVars, Pursues
<1> QED
  BY <1>2, <1>3, <1>4, <1>5, <1>6, <1>7, <1>8, <1>9 DEF Next, Shutdown, ConnectionLost, Moves

LEMMA SubmitKeeps ==
  ASSUME TypeOK, FreshIds, (\E p : Submit(p)) \/ UNCHANGED wireVars
  PROVE  \A c \in Callers : KeepsEntries(c)
<1>1. CASE UNCHANGED wireVars
  BY <1>1 DEF wireVars, KeepsEntries
<1>2. ASSUME NEW p, Submit(p) PROVE \A c \in Callers : KeepsEntries(c)
  <2>1. nextId \in CallId /\ nextId >= nextId
    BY <1>2, SubmitIsFresh DEF TypeOK
  <2>2. pending[nextId].req # "Navigate"
    BY <2>1 DEF FreshIds, NoPending, Pending
  <2> QED BY <1>2, <2>2, SubmitIsFresh DEF KeepsEntries, IsNavigate
<1> QED BY <1>1, <1>2

LEMMA OtherNavigations ==
  ASSUME TypeOK, FreshIds, Next,
         ~ \E t \in Targets : Moves(t), ~ \E i \in CallId : AnswerNavigate(i)
  PROVE  \A c \in Callers :
           navigations'[c] = "none" \/ (navigations'[c] = navigations[c] /\ KeepsEntries(c))
<1> DEFINE Kept == \A c \in Callers :
           navigations'[c] = "none" \/ (navigations'[c] = navigations[c] /\ KeepsEntries(c))
<1>1. ASSUME NEW c \in Callers,
             BrowserCommand(c) \/ FetchTargets(c) \/ CloseBrowser(c) \/ CreatePage(c)
      PROVE  Kept
  BY <1>1, SubmitKeeps DEF BrowserCommand, FetchTargets, CloseBrowser, CreatePage, Full
<1>2. ASSUME NEW t \in Targets, NEW c \in Callers, TakeCommand(t, c) \/ TakeClosing(t, c)
      PROVE  Kept
  BY <1>2, SubmitKeeps DEF TakeCommand, TakeClosing, Full
<1>3. ASSUME NEW t \in Targets,
             \/ GetPage(t) \/ PollAttach(t) \/ PollInit(t) \/ PollInitFailed(t) \/ PollInitiator(t)
             \/ TargetCreated(t) \/ TargetDestroyed(t)
      PROVE  Kept
  BY <1>3, SubmitKeeps
  DEF GetPage, PollAttach, PollInit, PollInitFailed, PollInitiator, TargetCreated,
      TargetDestroyed, Full
<1>4. ASSUME NEW i \in CallId, OnResponse(i)
      PROVE  Kept
  <2>1. UNCHANGED navigations
    BY <1>4
    DEF OnResponse, AnswerCreate, AnswerGetTargets, AnswerCommand, AnswerAttach,
        AnswerInit, AnswerCloseTarget, AnswerCloseBrowser
  <2>2. pending' = Without({i}) /\ pending[i].req # "Navigate"
    BY <1>4
    DEF OnResponse, AnswerCreate, AnswerGetTargets, AnswerCommand, AnswerAttach,
        AnswerInit, AnswerCloseTarget, AnswerCloseBrowser, Answers
  <2> QED BY <2>1, <2>2 DEF KeepsEntries, IsNavigate, Without
<1>5. ASSUME NEW I \in SUBSET CallId, Evict(I)
      PROVE  Kept
  <2>1. /\ pending' = Without(I)
        /\ \A c \in Callers :
             navigations'[c] = IF c \in ExpiredNavigations(I) THEN "none" ELSE navigations[c]
    BY <1>5 DEF Evict
  <2>2. ASSUME NEW c \in Callers, navigations'[c] # "none", NEW i \in CallId, IsNavigate(i, c)
        PROVE  i \notin I
    BY <2>1, <2>2 DEF ExpiredNavigations, IsNavigate
  <2> QED BY <2>1, <2>2 DEF KeepsEntries, Without
<1>6. ASSUME NEW t \in Targets, TargetCrashed(t)
      PROVE  Kept
  <2>1. UNCHANGED navigations /\ pending' = Without(BoundTo(t))
    BY <1>6 DEF TargetCrashed
  <2>2. \A i \in CallId, c \in Callers : IsNavigate(i, c) => i \notin BoundTo(t)
    BY DEF IsNavigate, BoundTo, Internal
  <2> QED BY <2>1, <2>2 DEF KeepsEntries, Without
<1>7. CASE Stop
  BY <1>7 DEF Stop
<1>8. CASE \/ DisposeContext
           \/ \E s \in Sessions : DetachedFromTarget(s) \/ \E t \in Targets : AttachedToTarget(s, t)
  BY <1>8, SubmitKeeps DEF DisposeContext, DetachedFromTarget, AttachedToTarget
<1> QED
  BY <1>1, <1>2, <1>3, <1>4, <1>5, <1>6, <1>7, <1>8 DEF Next, Shutdown, ConnectionLost, Moves

LEMMA ModeKept == Next => mode' = mode
BY DEF Next, OnResponse, BrowserCommand, FetchTargets, CloseBrowser, CreatePage, GetPage,
   DisposeContext, PageSends, TakeCommand, TakeNavigate, TakeClosing, PollAttach, PollInit,
   PollInitFailed, PollInitiator, NavigationRequest, NavigationLoaded, NavigationFailed,
   AnswerCreate, AnswerGetTargets, AnswerNavigate, AnswerCommand, AnswerAttach, AnswerInit,
   AnswerCloseTarget, AnswerCloseBrowser, Answers, TargetCreated, TargetDestroyed, TargetCrashed,
   AttachedToTarget, DetachedFromTarget, Evict, Stop, Shutdown, ConnectionLost, loopVars

LEMMA OtherFollowed ==
  ASSUME TypeOK, FreshIds, Followable, Next, ~ \E t \in Targets : Moves(t)
  PROVE  Followable'
<1>0. tgt \in [Targets -> Target] /\ navigations \in [Callers -> NavStates]
  BY DEF TypeOK
<1>1. /\ homeless \subseteq homeless'
      /\ \A t \in Targets :
           \/ Pursues(tgt[t], tgt'[t])
           \/ tgt'[t] \in {NewTarget, Absent} /\ (Tracked(t) \subseteq homeless' \/ Stop)
  BY OtherTargets
<1>2. /\ NewTarget.inbox = {} /\ NewTarget.queued = {} /\ NewTarget.active = None
      /\ Absent.inbox = {} /\ Absent.queued = {} /\ Absent.active = None
  BY DEF NewTarget, Absent
<1>3. Untaken'
  <2>1. \A t \in Targets : tgt'[t].inbox \subseteq tgt[t].inbox /\ Tracked(t)' \subseteq Tracked(t)
    BY <1>1, <1>2 DEF Pursues, Tracked
  <2> QED BY <2>1 DEF Followable, Untaken
<1>4. ASSUME NEW c \in Callers, Followed(c), mode = "stream"
      PROVE  Followed(c)'
  <2>1. \A t \in Targets : c \in Tracked(t) =>
          c \in homeless' \/ navigations'[c] = "none" \/ \E u \in Targets : c \in Tracked(u)'
    <3>1. Stop => navigations'[c] = "none"
      BY DEF Stop
    <3> QED BY <1>1, <3>1 DEF Pursues, Tracked
  <2>2. \A t \in Targets : tgt'[t].active = c => \E u \in Targets : tgt[u].active = c
    BY <1>1, <1>2, NoneAssumption DEF Pursues
  <2>3. ASSUME NEW i \in CallId, AnswerNavigate(i)
        PROVE  Followed(c)'
    <3>1. /\ pending' = Without({i}) /\ UNCHANGED <<tgt, homeless>>
          /\ OnNavigationResponse(pending[i].tx) /\ pending[i].req = "Navigate"
      BY <2>3 DEF AnswerNavigate, Answers
    <3>2. pending[i].tx \in Callers
      BY <3>1, OwnerType
    <3>3. CASE c = pending[i].tx
      <4>1. \/ navigations'[c] = "none"
            \/ navigations[c] \in {"started", "responded"} /\ navigations'[c] = "responded"
        BY <1>0, <3>1, <3>2, <3>3 DEF OnNavigationResponse
      <4> QED BY <1>4, <3>1, <4>1 DEF Followed, Tracked
    <3>4. CASE c # pending[i].tx
      <4>1. navigations'[c] = navigations[c]
        BY <1>0, <3>1, <3>2, <3>4 DEF OnNavigationResponse
      <4>2. KeepsEntries(c)
        BY <3>1, <3>4 DEF KeepsEntries, IsNavigate, Without
      <4> QED BY <1>1, <1>4, <2>1, <2>2, <4>1, <4>2, FollowedKept
    <3> QED BY <3>3, <3>4
  <2>4. CASE ~ \E i \in CallId : AnswerNavigate(i)
    <3>1. navigations'[c] = "none" \/ (navigations'[c] = navigations[c] /\ KeepsEntries(c))
      BY <2>4, OtherNavigations
    <3> QED BY <1>1, <1>4, <2>1, <2>2, <3>1, FollowedKept
  <2> QED BY <2>3, <2>4
<1> QED BY <1>3, <1>4, ModeKept DEF Followable

(* A page asks: it never asked before.                                     *)
LEMMA SendsFollowed ==
  ASSUME IInv, Followable, NEW c \in Callers, NEW t \in Targets, PageSends(c, t)
  PROVE  Followable'
<1>0. tgt \in [Targets -> Target]
  BY DEF IInv, TypeOK
<1>1. /\ asked[c] = "idle" /\ UNCHANGED <<mode, navigations, pending, homeless>>
      /\ tgt' = [tgt EXCEPT ![t] = [tgt[t] EXCEPT !.inbox = @ \union {c}]]
  BY <1>0 DEF PageSends, Ask, loopVars, wireVars, histVars
<1>2. \A u \in Targets : /\ tgt'[u].queued = tgt[u].queued /\ tgt'[u].active = tgt[u].active
                         /\ tgt'[u].inbox \subseteq tgt[u].inbox \union {c}
  BY <1>0, <1>1 DEF Target
<1>3. \A u \in Targets : c \notin Tracked(u)
  <2>1. \A u \in Targets : c \notin tgt[u].queued /\ c # tgt[u].active
    BY <1>1, NoneAssumption DEF IInv, KindsMatch, TargetMatches
  <2> QED BY <2>1, TrackedIs
<1>4. \A u \in Targets : Tracked(u)' = Tracked(u)
  BY <1>2 DEF Tracked
<1>5. Untaken'
  BY <1>2, <1>3, <1>4 DEF Followable, Untaken
<1>6. \A d \in Callers : Followed(d) => Followed(d)'
  BY <1>1, <1>2, <1>4 DEF Followed, IsNavigate
<1> QED BY <1>1, <1>5, <1>6 DEF Followable

(* A navigation leaves the channel for the frame manager, if it has one.   *)
LEMMA TakenFollowed ==
  ASSUME IInv, Followable, NEW t \in Targets, NEW c \in Callers, TakeNavigate(t, c)
  PROVE  Followable'
<1>0. /\ tgt \in [Targets -> Target] /\ navigations \in [Callers -> NavStates]
      /\ TypeOK /\ FreshIds /\ HeldOnce /\ c \in tgt[t].inbox
  BY DEF IInv, TypeOK, TakeNavigate, Takes
<1>1. /\ mode' = mode
      /\ navigations' = [navigations EXCEPT ![c] = "started"]
      /\ homeless' = IF tgt[t].frame THEN homeless ELSE homeless \union {c}
      /\ tgt' = [tgt EXCEPT ![t] = [tgt[t] EXCEPT !.inbox = @ \ {c},
                       !.queued = IF tgt[t].frame THEN @ \union {c} ELSE @]]
  BY <1>0 DEF TakeNavigate, loopVars
<1>2. /\ \A u \in Targets : tgt'[u].active = tgt[u].active /\ tgt[u].queued \subseteq tgt'[u].queued
      /\ \A u \in Targets : tgt'[u].queued \subseteq tgt[u].queued \union {c}
      /\ \A u \in Targets \ {t} : tgt'[u].inbox = tgt[u].inbox
      /\ tgt'[t].inbox = tgt[t].inbox \ {c}
      /\ tgt[t].frame => c \in tgt'[t].queued
  BY <1>0, <1>1 DEF Target
<1>3. \A u \in Targets : c \notin tgt'[u].inbox
  <2>1. ASSUME NEW u \in Targets \ {t} PROVE c \notin tgt[u].inbox
    <3>1. HasCaller(t, c)
      BY <1>0, HasCallerIs
    <3>2. HasCaller(u, c) => u = t
      BY <1>0, <3>1 DEF HeldOnce
    <3> QED BY <3>2, HasCallerIs
  <2> QED BY <1>2, <2>1
<1>4. /\ \A u \in Targets : Tracked(u) \subseteq Tracked(u)' /\ Tracked(u)' \subseteq Tracked(u) \union {c}
      /\ \A u \in Targets : tgt'[u].inbox \subseteq tgt[u].inbox
  BY <1>2 DEF Tracked
<1>5. Untaken'
  BY <1>3, <1>4 DEF Followable, Untaken
<1>6. \A d \in Callers : KeepsEntries(d)
  BY <1>0, SubmitKeeps DEF TakeNavigate, Full, wireVars
<1>7. ASSUME NEW d \in Callers, d # c, Followed(d) PROVE Followed(d)'
  <2>1. navigations'[d] = navigations[d] /\ homeless \subseteq homeless'
    BY <1>1, <1>7
  <2> QED BY <1>2, <1>4, <1>6, <1>7, <2>1, FollowedKept
<1>8. Followed(c)'
  <2>1. navigations'[c] = "started"
    BY <1>0, <1>1
  <2>2. c \in homeless' \/ c \in Tracked(t)'
    BY <1>1, <1>2, TrackedIs
  <2>3. \A u \in Targets : tgt'[u].active # c
    BY <1>0, <1>2, TrackedIs DEF Followable, Untaken
  <2> QED BY <2>1, <2>2, <2>3 DEF Followed
<1> QED BY <1>1, <1>5, <1>7, <1>8 DEF Followable

(* The frame manager has a navigation carried out: its Page.navigate is    *)
(* pending from then on.                                                   *)
LEMMA RequestFollowed ==
  ASSUME IInv, Followable, NEW t \in Targets, NEW c \in Callers, NavigationRequest(t, c)
  PROVE  Followable'
<1>0. tgt \in [Targets -> Target] /\ TypeOK /\ FreshIds
  BY DEF IInv, TypeOK
<1>1. /\ UNCHANGED <<mode, navigations, homeless>>
      /\ tgt[t].active = None /\ c \in tgt[t].queued
      /\ tgt' = [tgt EXCEPT ![t] = [tgt[t] EXCEPT !.queued = @ \ {c}, !.active = c]]
      /\ Submit(Pending("Navigate", c, None)) \/ Full
  BY <1>0 DEF NavigationRequest, loopVars
<1>2. /\ \A u \in Targets \ {t} : tgt'[u] = tgt[u]
      /\ tgt'[t].queued = tgt[t].queued \ {c} /\ tgt'[t].active = c /\ tgt'[t].inbox = tgt[t].inbox
  BY <1>0, <1>1 DEF Target
<1>3. \A u \in Targets : Tracked(u)' = Tracked(u)
  BY <1>1, <1>2, NoneAssumption DEF Tracked
<1>4. Untaken'
  BY <1>2, <1>3 DEF Followable, Untaken
<1>5. \A d \in Callers : KeepsEntries(d)
  BY <1>0, <1>1, SubmitKeeps DEF Full
<1>6. ASSUME mode = "stream" PROVE \E i \in CallId : IsNavigate(i, c)'
  <2>1. Submit(Pending("Navigate", c, None))
    BY <1>1, <1>6 DEF Full
  <2>2. nextId \in CallId /\ pending'[nextId] = Pending("Navigate", c, None)
    BY <1>0, <2>1, SubmitIsFresh
  <2>3. PICK i \in CallId : i = nextId
    BY <2>2
  <2>4. pending'[i].req = "Navigate" /\ pending'[i].tx = c
    BY <2>2, <2>3 DEF Pending
  <2> QED BY <2>4 DEF IsNavigate
<1>7. ASSUME NEW d \in Callers, d # c, Followed(d) PROVE Followed(d)'
  <2>1. \A u \in Targets : tgt'[u].active = d => \E v \in Targets : tgt[v].active = d
    BY <1>2, <1>7
  <2>2. \A u \in Targets : d \in Tracked(u) =>
          d \in homeless' \/ navigations'[d] = "none" \/ \E v \in Targets : d \in Tracked(v)'
    BY <1>3
  <2> QED BY <1>1, <1>5, <1>7, <2>1, <2>2, FollowedKept
<1>8. ASSUME mode = "stream", Followed(c) PROVE Followed(c)'
  BY <1>1, <1>3, <1>6, <1>8 DEF Followed
<1> QED BY <1>1, <1>4, <1>7, <1>8 DEF Followable

(* The lifecycle ends, and the frame manager is done with it.              *)
LEMMA ResultFollowed ==
  ASSUME IInv, Followable, NEW t \in Targets, NavigationLoaded(t) \/ NavigationFailed(t)
  PROVE  Followable'
<1>0. tgt \in [Targets -> Target] /\ navigations \in [Callers -> NavStates]
  BY DEF IInv, TypeOK
<1>1. PICK c \in Callers : c = tgt[t].active
  BY <1>0 DEF NavigationLoaded, NavigationFailed, Target
<1>2. /\ UNCHANGED <<mode, pending, homeless>>
      /\ tgt' = [tgt EXCEPT ![t] = [tgt[t] EXCEPT !.active = None]]
  BY <1>0 DEF NavigationLoaded, NavigationFailed, loopVars, wireVars, histVars
<1>3. /\ \A u \in Targets \ {t} : tgt'[u] = tgt[u]
      /\ tgt'[t].queued = tgt[t].queued /\ tgt'[t].active = None /\ tgt'[t].inbox = tgt[t].inbox
  BY <1>0, <1>2 DEF Target
<1>4. \A u \in Targets : Tracked(u)' \subseteq Tracked(u) /\ tgt'[u].inbox = tgt[u].inbox
  BY <1>3 DEF Tracked
<1>5. Untaken'
  BY <1>4 DEF Followable, Untaken
<1>6. \A d \in Callers : KeepsEntries(d)
  BY <1>2 DEF KeepsEntries
<1>7. /\ \A d \in Callers \ {c} : navigations'[d] = navigations[d]
      /\ \/ navigations'[c] = "none"
         \/ navigations[c] \in {"started", "navigated"} /\ navigations'[c] = "navigated"
  BY <1>0, <1>1 DEF NavigationLoaded, NavigationFailed, NavStates
<1>8. ASSUME NEW d \in Callers, d # c, Followed(d) PROVE Followed(d)'
  <2>1. \A u \in Targets : tgt'[u].active = d => \E v \in Targets : tgt[v].active = d
    BY <1>3, NoneAssumption
  <2>2. \A u \in Targets : d \in Tracked(u) => \E v \in Targets : d \in Tracked(v)'
    BY <1>1, <1>3, <1>8, TrackedIs
  <2> QED BY <1>2, <1>6, <1>7, <1>8, <2>1, <2>2, FollowedKept
<1>9. ASSUME Followed(c) PROVE Followed(c)'
  BY <1>1, <1>2, <1>7, <1>9 DEF Followed, IsNavigate
<1> QED BY <1>2, <1>5, <1>8, <1>9 DEF Followable

LEMMA FollowedNext == IInv /\ Followable /\ [Next]_vars => Followable'
<1> SUFFICES ASSUME IInv, Followable, [Next]_vars PROVE Followable'
  OBVIOUS
<1>1. CASE UNCHANGED vars
  BY <1>1
  DEF vars, loopVars, wireVars, histVars, Followable, Followed, Untaken, Tracked, IsNavigate
<1>2. CASE \E t \in Targets : Moves(t)
  BY <1>2, SendsFollowed, TakenFollowed, RequestFollowed, ResultFollowed DEF Moves
<1>3. CASE Next /\ ~ \E t \in Targets : Moves(t)
  BY <1>3, OtherFollowed DEF IInv
<1> QED BY <1>1, <1>2, <1>3

LEMMA FollowedInit == Init => Followable
BY NoneAssumption DEF Init, Followable, Followed, Untaken, Absent, NewTarget

(* A navigation in progress of a Stream handler has somebody left to end   *)
(* it: its frame manager, or the answer or eviction of its Page.navigate.  *)
(* No order of the response, the end of the lifecycle, the eviction and    *)
(* the loss or replacement of targets leaves its sender in navigations     *)
(* for good, except that the handler lost its frame manager itself.        *)
THEOREM NavigationsAreTracked == Spec => []NavigationTracked
<1>1. Followable /\ TypeOK => NavigationTracked
  <2> SUFFICES ASSUME Followable, TypeOK, mode = "stream", NEW c \in Callers, navigations[c] # "none"
               PROVE  \/ c \in homeless
                      \/ \E t \in Targets : c \in Tracked(t)
                      \/ \E i \in CallId : pending[i].req = "Navigate" /\ pending[i].tx = c
    BY DEF NavigationTracked
  <2>1. navigations[c] \in {"started", "responded", "navigated"}
    BY DEF TypeOK, NavStates
  <2> QED BY <2>1 DEF Followable, Followed, IsNavigate
<1>2. IInv => TypeOK
  BY DEF IInv
<1> QED
  BY <1>1, <1>2, IInvInit, IInvNext, FollowedInit, FollowedNext, PTL DEF Spec

=============================================================================
