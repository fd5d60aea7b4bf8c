------------------------ MODULE HandlerSafetyProofs ------------------------
(***************************************************************************)
(* For every set of callers, targets and sessions and every bound on the   *)
(* calls: a navigation is answered with Ok only after its response and the *)
(* end of its lifecycle (NavigateNeedsBoth), on the way to which every     *)
(* place that holds a sender is shown to hold one of its kind; the         *)
(* session table names live sessions (NoGhostSession); a sender is dropped *)
(* only for a reason (NoSilentDrop).                                       *)
(***************************************************************************)
EXTENDS HandlerProofs

-----------------------------------------------------------------------------
(* The inductive invariant: what every place that holds a sender, or the   *)
(* id of a navigation, says about its caller.                              *)

EntryMatches(p, a) ==
  /\ p.req = "CreateTarget" => a[p.tx] = "CreatePage"
  /\ p.req = "GetTargets" => a[p.tx] = "FetchTargets"
  /\ p.req = "ExternalCommand" => a[p.tx] \in {"Command", "PageCommand"}
  /\ p.req = "CloseBrowser" => a[p.tx] = "CloseBrowser"
  /\ p.req = "Navigate" => a[p.tx] = "Navigate"

TargetMatches(r, a) ==
  /\ r.initiator # None => a[r.initiator] = "CreatePage"
  /\ \A c \in r.inbox : a[c] \in {"PageCommand", "Navigate"}
  /\ \A c \in r.queued : a[c] = "Navigate"
  /\ r.active # None => a[r.active] = "Navigate"

KindsMatch ==
  /\ \A i \in CallId : EntryMatches(pending[i], asked)
  /\ \A t \in Targets : TargetMatches(tgt[t], asked)
  /\ \A c \in Callers : navigations[c] # "none" => asked[c] = "Navigate"
  /\ \A c \in Callers : asked[c] = "idle" => reply[c] = "none"

(* What the state of a navigation says about its history.                  *)
NavigationMatches ==
  \A c \in Callers : /\ navigations[c] = "responded" => c \in answeredNav
                     /\ navigations[c] = "navigated" => c \in loadedNav

-----------------------------------------------------------------------------
(* The kinds match.                                                        *)

(* A caller asks once: what matched what was asked, a, still does.         *)
Extends(a, b) == \A c \in Callers : a[c] # "idle" => b[c] = a[c]

LEMMA AskExtends ==
  ASSUME TypeOK, NEW c \in Callers, NEW k, Ask(c, k)
  PROVE  Extends(asked, asked')
BY DEF Ask, Extends, TypeOK, P!TypeOK

LEMMA EntryKept ==
  ASSUME NEW a, NEW b, Extends(a, b), NEW p \in PendingRequest, EntryMatches(p, a)
  PROVE  EntryMatches(p, b)
BY DEF EntryMatches, Extends, PendingRequest, Owning

LEMMA TargetKept ==
  ASSUME NEW a, NEW b, Extends(a, b), NEW r \in Target, TargetMatches(r, a)
  PROVE  TargetMatches(r, b)
BY DEF TargetMatches, Extends, Target

LEMMA NothingMatches ==
  ASSUME NEW a
  PROVE  /\ EntryMatches(NoPending, a)
         /\ \A req \in Internal, t \in Targets : EntryMatches(Pending(req, None, t), a)
         /\ TargetMatches(NewTarget, a)
         /\ TargetMatches(Absent, a)
BY DEF EntryMatches, NoPending, Pending, Internal, TargetMatches, NewTarget, Absent

(* What a step leaves of KindsMatch to show: the entries and the targets   *)
(* it makes.                                                               *)
LEMMA KindsStep ==
  ASSUME TypeOK, TypeOK', KindsMatch, Extends(asked, asked'),
         \A i \in CallId : pending'[i] = pending[i] \/ EntryMatches(pending'[i], asked'),
         \A t \in Targets : tgt'[t] = tgt[t] \/ TargetMatches(tgt'[t], asked'),
         \A c \in Callers : navigations'[c] # "none" =>
                            navigations[c] # "none" \/ asked'[c] = "Navigate",
         \A c \in Callers : asked'[c] = "idle" => asked[c] = "idle" /\ reply'[c] = reply[c]
  PROVE  KindsMatch'
<1>1. ASSUME NEW i \in CallId
      PROVE  EntryMatches(pending'[i], asked')
  BY EntryKept DEF TypeOK, KindsMatch
<1>2. ASSUME NEW t \in Targets
      PROVE  TargetMatches(tgt'[t], asked')
  BY TargetKept DEF TypeOK, KindsMatch
<1>3. ASSUME NEW c \in Callers
      PROVE  /\ navigations'[c] # "none" => asked'[c] = "Navigate"
             /\ asked'[c] = "idle" => reply'[c] = "none"
  BY DEF KindsMatch, Extends
<1> QED
  BY <1>1, <1>2, <1>3 DEF KindsMatch

LEMMA SubmitMatches ==
  ASSUME TypeOK, NEW a, NEW p, EntryMatches(p, a), Submit(p)
  PROVE  \A i \in CallId : pending'[i] = pending[i] \/ EntryMatches(pending'[i], a)
BY DEF Submit, TypeOK

LEMMA WithoutMatches ==
  ASSUME TypeOK, NEW I, pending' = Without(I)
  PROVE  \A i \in CallId : pending'[i] = pending[i] \/ EntryMatches(pending'[i], asked')
BY NothingMatches DEF Without

LEMMA RequestsKinds ==
  ASSUME TypeOK, TypeOK', KindsMatch, NEW c \in Callers,
         BrowserCommand(c) \/ FetchTargets(c) \/ CloseBrowser(c) \/ CreatePage(c)
  PROVE  KindsMatch'
<1>1. /\ Extends(asked, asked')
      /\ asked'[c] # "idle"
      /\ \A d \in Callers : asked'[d] = "idle" => asked[d] = "idle" /\ reply'[d] = reply[d]
  BY AskExtends DEF BrowserCommand, FetchTargets, CloseBrowser, CreatePage, Ask, Resolved,
                    TypeOK, P!TypeOK
<1>2. \A i \in CallId : pending'[i] = pending[i] \/ EntryMatches(pending'[i], asked')
  <2>1. CASE BrowserCommand(c)
    <3>1. asked'[c] = "Command"
      BY <2>1 DEF BrowserCommand, Ask, TypeOK, P!TypeOK
    <3>2. \A t : EntryMatches(Pending("ExternalCommand", c, t), asked')
      BY <3>1 DEF EntryMatches, Pending
    <3> QED
      BY <2>1, <3>2, SubmitMatches DEF BrowserCommand, Full, wireVars
  <2>2. CASE FetchTargets(c)
    <3>1. asked'[c] = "FetchTargets"
      BY <2>2 DEF FetchTargets, Ask, TypeOK, P!TypeOK
    <3>2. EntryMatches(Pending("GetTargets", c, None), asked')
      BY <3>1 DEF EntryMatches, Pending
    <3> QED
      BY <2>2, <3>2, SubmitMatches DEF FetchTargets, Full, wireVars
  <2>3. CASE CloseBrowser(c)
    <3>1. asked'[c] = "CloseBrowser"
      BY <2>3 DEF CloseBrowser, Ask, TypeOK, P!TypeOK
    <3>2. EntryMatches(Pending("CloseBrowser", c, None), asked')
      BY <3>1 DEF EntryMatches, Pending
    <3> QED
      BY <2>3, <3>2, SubmitMatches DEF CloseBrowser, Full, wireVars
  <2>4. CASE CreatePage(c)
    <3>1. asked'[c] = "CreatePage"
      BY <2>4 DEF CreatePage, Ask, TypeOK, P!TypeOK
    <3>2. EntryMatches(Pending("CreateTarget", c, None), asked')
      BY <3>1 DEF EntryMatches, Pending
    <3> QED
      BY <2>4, <3>2, SubmitMatches DEF CreatePage, Full, wireVars
  <2> QED
    BY <2>1, <2>2, <2>3, <2>4
<1>3. UNCHANGED <<tgt, navigations>>
  BY DEF BrowserCommand, FetchTargets, CloseBrowser, CreatePage
<1> QED
  BY <1>1, <1>2, <1>3, KindsStep

(* Most steps leave what was asked, and answer only a caller that asked.   *)
LEMMA KindsStepQuiet ==
  ASSUME TypeOK, TypeOK', KindsMatch, UNCHANGED asked,
         \A i \in CallId : pending'[i] = pending[i] \/ EntryMatches(pending'[i], asked),
         \A t \in Targets : tgt'[t] = tgt[t] \/ TargetMatches(tgt'[t], asked),
         \A c \in Callers : navigations'[c] # "none" =>
                            navigations[c] # "none" \/ asked[c] = "Navigate",
         \A c \in Callers : reply'[c] = reply[c] \/ asked[c] # "idle"
  PROVE  KindsMatch'
<1>1. Extends(asked, asked')
  BY DEF Extends
<1> QED
  BY <1>1, KindsStep

LEMMA ChannelKinds ==
  ASSUME TypeOK, TypeOK', KindsMatch, NEW t \in Targets, NEW c \in Callers,
         PageSends(c, t) \/ TakeCommand(t, c) \/ TakeNavigate(t, c) \/ TakeClosing(t, c)
  PROVE  KindsMatch'
<1>0. TargetMatches(tgt[t], asked) /\ tgt[t] \in Target /\ tgt' \in [Targets -> Target]
  BY TgtType DEF KindsMatch, TypeOK
<1>1. CASE PageSends(c, t)
  <2>1. Extends(asked, asked') /\ asked'[c] \in {"PageCommand", "Navigate"}
    BY <1>1, AskExtends DEF PageSends, Ask, TypeOK, P!TypeOK
  <2>2. \A d \in Callers : asked'[d] = "idle" => asked[d] = "idle" /\ reply'[d] = reply[d]
    BY <1>1 DEF PageSends, Ask, TypeOK, P!TypeOK
  <2>3. TargetMatches(tgt[t], asked')
    BY <1>0, <2>1, TargetKept
  <2>4. TargetMatches([tgt[t] EXCEPT !.inbox = @ \union {c}], asked')
    BY <1>0, <2>1, <2>3 DEF TargetMatches, Target
  <2>5. \A u \in Targets : tgt'[u] = tgt[u] \/ TargetMatches(tgt'[u], asked')
    BY <1>1, <2>4, TgtType DEF PageSends
  <2>6. UNCHANGED <<pending, navigations>>
    BY <1>1 DEF PageSends, wireVars
  <2> QED
    BY <2>1, <2>2, <2>5, <2>6, KindsStep
<1>2. TargetMatches([tgt[t] EXCEPT !.inbox = @ \ {c}], asked)
  BY <1>0 DEF TargetMatches, Target
<1>3. CASE TakeCommand(t, c)
  <2>1. asked[c] = "PageCommand" /\ UNCHANGED <<asked, navigations>>
    BY <1>3 DEF TakeCommand
  <2>2. \A u \in Targets : tgt'[u] = tgt[u] \/ TargetMatches(tgt'[u], asked)
    BY <1>2, <1>3, TgtType DEF TakeCommand
  <2>3. \A u : EntryMatches(Pending("ExternalCommand", c, u), asked)
    BY <2>1 DEF EntryMatches, Pending
  <2>4. \A i \in CallId : pending'[i] = pending[i] \/ EntryMatches(pending'[i], asked)
    BY <1>3, <2>3, SubmitMatches DEF TakeCommand, Full, wireVars
  <2>5. \A d \in Callers : reply'[d] = reply[d] \/ asked[d] # "idle"
    BY <1>3, <2>1 DEF TakeCommand, Resolved
  <2> QED
    BY <2>1, <2>2, <2>4, <2>5, KindsStepQuiet
<1>4. CASE TakeNavigate(t, c)
  <2>1. asked[c] = "Navigate" /\ UNCHANGED <<asked, reply>>
    BY <1>4 DEF TakeNavigate, callerVars
  <2>2. TargetMatches([tgt[t] EXCEPT !.inbox = @ \ {c},
                       !.queued = IF tgt[t].frame THEN @ \union {c} ELSE @], asked)
    BY <1>0, <2>1 DEF TargetMatches, Target
  <2>3. \A u \in Targets : tgt'[u] = tgt[u] \/ TargetMatches(tgt'[u], asked)
    BY <1>4, <2>2, TgtType DEF TakeNavigate
  <2>4. EntryMatches(Pending("Navigate", c, None), asked)
    BY <2>1 DEF EntryMatches, Pending
  <2>5. \A i \in CallId : pending'[i] = pending[i] \/ EntryMatches(pending'[i], asked)
    BY <1>4, <2>4, SubmitMatches DEF TakeNavigate, Full, wireVars
  <2>6. \A d \in Callers : navigations'[d] = navigations[d] \/ asked[d] = "Navigate"
    BY <1>4, <2>1 DEF TakeNavigate, TypeOK
  <2> QED
    BY <2>1, <2>3, <2>5, <2>6, KindsStepQuiet
<1>5. CASE TakeClosing(t, c)
  <2>1. asked[c] # "idle"
    BY <1>0, <1>5 DEF TakeClosing, TargetMatches
  <2>2. \A u \in Targets : tgt'[u] = tgt[u] \/ TargetMatches(tgt'[u], asked)
    BY <1>2, <1>5, TgtType DEF TakeClosing
  <2>3. \A d \in Callers : reply'[d] = reply[d] \/ asked[d] # "idle"
    BY <1>5, <2>1 DEF TakeClosing, Resolved, TypeOK, P!TypeOK
  <2>4. UNCHANGED <<asked, pending, navigations>>
    BY <1>5 DEF TakeClosing, wireVars
  <2> QED
    BY <2>2, <2>3, <2>4, KindsStepQuiet
<1> QED
  BY <1>1, <1>3, <1>4, <1>5

LEMMA PollKinds ==
  ASSUME TypeOK, TypeOK', KindsMatch, NEW t \in Targets,
         PollAttach(t) \/ PollInit(t) \/ PollInitFailed(t) \/ PollInitiator(t)
  PROVE  KindsMatch'
<1>0. TargetMatches(tgt[t], asked) /\ tgt[t] \in Target
  BY TgtType DEF KindsMatch, TypeOK
<1>1. UNCHANGED <<asked, navigations>>
  BY DEF PollAttach, PollInit, PollInitFailed, PollInitiator, callerVars
<1>2. \A i \in CallId : pending'[i] = pending[i] \/ EntryMatches(pending'[i], asked)
  <2>1. ASSUME NEW req \in Internal, Submit(Pending(req, None, t)) \/ Full
        PROVE  \A i \in CallId : pending'[i] = pending[i] \/ EntryMatches(pending'[i], asked)
    <3>1. EntryMatches(Pending(req, None, t), asked)
      BY NothingMatches
    <3> QED
      BY <2>1, <3>1, SubmitMatches DEF Full, wireVars
  <2>2. CASE PollAttach(t) \/ PollInit(t) \/ PollInitFailed(t)
    BY <2>1, <2>2 DEF PollAttach, PollInit, PollInitFailed, Internal
  <2>3. CASE PollInitiator(t)
    BY <2>3 DEF PollInitiator, wireVars
  <2> QED
    BY <2>2, <2>3
<1>3. \A u \in Targets : tgt'[u] = tgt[u] \/ TargetMatches(tgt'[u], asked)
  <2>1. CASE PollAttach(t)
    <3>1. TargetMatches([tgt[t] EXCEPT !.init = "InitializingFrame"], asked)
      BY <1>0 DEF TargetMatches, Target
    <3> QED
      BY <2>1, <3>1, TgtType DEF PollAttach
  <2>2. CASE PollInit(t)
    <3>1. TargetMatches([tgt[t] EXCEPT !.init = "Initializing"], asked)
      BY <1>0 DEF TargetMatches, Target
    <3> QED
      BY <2>2, <3>1, TgtType DEF PollInit
  <2>3. CASE PollInitFailed(t)
    <3>1. TargetMatches([tgt[t] EXCEPT !.init = "Closing", !.initiator = None], asked)
      BY <1>0 DEF TargetMatches, Target
    <3> QED
      BY <2>3, <3>1, TgtType DEF PollInitFailed
  <2>4. CASE PollInitiator(t)
    <3>1. TargetMatches([tgt[t] EXCEPT !.initiator = None,
                         !.page = IF @ = None THEN tgt[t].session ELSE @], asked)
      BY <1>0 DEF TargetMatches, Target
    <3> QED
      BY <2>4, <3>1, TgtType DEF PollInitiator
  <2> QED
    BY <2>1, <2>2, <2>3, <2>4
<1>4. \A d \in Callers : reply'[d] = reply[d] \/ asked[d] # "idle"
  BY <1>0 DEF PollAttach, PollInit, PollInitFailed, PollInitiator, callerVars, Resolved,
              TargetMatches, TypeOK, P!TypeOK
<1> QED
  BY <1>1, <1>2, <1>3, <1>4, KindsStepQuiet

LEMMA NavigationKinds ==
  ASSUME TypeOK, TypeOK', KindsMatch, NEW t \in Targets,
         \/ \E c \in Callers : NavigationRequest(t, c)
         \/ NavigationLoaded(t)
         \/ NavigationFailed(t)
  PROVE  KindsMatch'
<1>0. TargetMatches(tgt[t], asked) /\ tgt[t] \in Target
  BY TgtType DEF KindsMatch, TypeOK
<1>1. ASSUME NEW c \in Callers, NavigationRequest(t, c)
      PROVE  KindsMatch'
  <2>1. asked[c] = "Navigate" /\ UNCHANGED <<asked, reply, navigations>>
    BY <1>0, <1>1 DEF NavigationRequest, callerVars, TargetMatches
  <2>2. TargetMatches([tgt[t] EXCEPT !.queued = @ \ {c}, !.active = c], asked)
    BY <1>0, <2>1 DEF TargetMatches, Target
  <2>3. \A u \in Targets : tgt'[u] = tgt[u] \/ TargetMatches(tgt'[u], asked)
    BY <1>1, <2>2, TgtType DEF NavigationRequest
  <2>4. EntryMatches(Pending("Navigate", c, None), asked)
    BY <2>1 DEF EntryMatches, Pending
  <2>5. \A i \in CallId : pending'[i] = pending[i] \/ EntryMatches(pending'[i], asked)
    BY <1>1, <2>4, SubmitMatches DEF NavigationRequest, Full, wireVars
  <2> QED
    BY <2>1, <2>3, <2>5, KindsStepQuiet
<1>2. CASE NavigationLoaded(t) \/ NavigationFailed(t)
  <2>1. UNCHANGED <<asked, pending>> /\ tgt[t].active \in Callers
    BY <1>0, <1>2 DEF NavigationLoaded, NavigationFailed, wireVars, Target
  <2>2. TargetMatches([tgt[t] EXCEPT !.active = None], asked)
    BY <1>0 DEF TargetMatches, Target
  <2>3. \A u \in Targets : tgt'[u] = tgt[u] \/ TargetMatches(tgt'[u], asked)
    BY <1>2, <2>2, TgtType DEF NavigationLoaded, NavigationFailed
  <2>4. \A d \in Callers : navigations'[d] # "none" => navigations[d] # "none"
    BY <1>2, <2>1 DEF NavigationLoaded, NavigationFailed, TypeOK
  <2>5. \A d \in Callers : reply'[d] = reply[d] \/ navigations[d] # "none"
    BY <1>2, <2>1 DEF NavigationLoaded, NavigationFailed, Resolved, TypeOK, P!TypeOK
  <2> QED
    BY <2>1, <2>3, <2>4, <2>5, KindsStepQuiet DEF KindsMatch
<1> QED
  BY <1>1, <1>2

(* A sender of an entry has asked, and so has one a target holds.          *)
LEMMA OwnerAsked ==
  ASSUME TypeOK, KindsMatch
  PROVE  /\ \A i \in CallId :
              pending[i].req \in Owning \union {"Navigate"} => asked[pending[i].tx] # "idle"
         /\ \A t \in Targets : \A c \in DroppedWith(t) : asked[c] # "idle"
<1>1. ASSUME NEW i \in CallId, pending[i].req \in Owning \union {"Navigate"}
      PROVE  asked[pending[i].tx] # "idle"
  BY <1>1 DEF KindsMatch, EntryMatches, Owning
<1>2. ASSUME NEW t \in Targets, NEW c \in DroppedWith(t)
      PROVE  asked[c] # "idle"
  <2>1. TargetMatches(tgt[t], asked)
    BY DEF KindsMatch
  <2> QED
    BY <1>2, <2>1 DEF DroppedWith, TargetMatches
<1> QED
  BY <1>1, <1>2

LEMMA OnResponseKinds ==
  ASSUME TypeOK, TypeOK', KindsMatch, NEW i \in CallId, OnResponse(i)
  PROVE  KindsMatch'
<1>0. ASSUME NEW req, Answers(i, req)
      PROVE  \A j \in CallId : pending'[j] = pending[j] \/ EntryMatches(pending'[j], asked)
  BY <1>0, NothingMatches DEF Answers, Without
<1>1. CASE AnswerCreate(i)
  <2>1. asked[pending[i].tx] = "CreatePage" /\ pending[i].tx \in Callers
    BY <1>1, OwnerType DEF AnswerCreate, Answers, KindsMatch, EntryMatches, Owning
  <2>2. ASSUME NEW t \in Targets
        PROVE  TargetMatches([tgt[t] EXCEPT !.initiator = pending[i].tx], asked)
    <3>1. TargetMatches(tgt[t], asked) /\ tgt[t] \in Target
      BY TgtType DEF KindsMatch
    <3> QED
      BY <2>1, <3>1 DEF TargetMatches, Target
  <2>3. \A u \in Targets : tgt'[u] = tgt[u] \/ TargetMatches(tgt'[u], asked)
    BY <1>1, <2>2, TgtType DEF AnswerCreate
  <2>4. \A d \in Callers : reply'[d] = reply[d] \/ asked[d] # "idle"
    BY <1>1, <2>1 DEF AnswerCreate, Resolved, TypeOK, P!TypeOK
  <2>5. UNCHANGED <<asked, navigations>>
    BY <1>1 DEF AnswerCreate
  <2> QED
    BY <1>0, <1>1, <2>3, <2>4, <2>5, KindsStepQuiet DEF AnswerCreate
<1>2. CASE AnswerGetTargets(i)
  <2>1. asked[pending[i].tx] # "idle"
    BY <1>2, OwnerAsked DEF AnswerGetTargets, Answers, Owning
  <2>2. \A u \in Targets : tgt'[u] = tgt[u] \/ TargetMatches(tgt'[u], asked)
    BY <1>2, NothingMatches DEF AnswerGetTargets, Create
  <2>3. \A d \in Callers : reply'[d] = reply[d] \/ asked[d] # "idle"
    BY <1>2, <2>1, OwnerAsked DEF AnswerGetTargets, Resolved, DroppedBy, TypeOK, P!TypeOK
  <2>4. UNCHANGED <<asked, navigations>>
    BY <1>2 DEF AnswerGetTargets
  <2> QED
    BY <1>0, <1>2, <2>2, <2>3, <2>4, KindsStepQuiet DEF AnswerGetTargets
<1>3. CASE AnswerNavigate(i)
  <2>1. asked[pending[i].tx] # "idle" /\ pending[i].tx \in Callers
    BY <1>3, OwnerAsked, OwnerType DEF AnswerNavigate, Answers
  <2>2. \A d \in Callers : /\ navigations'[d] # "none" => navigations[d] # "none"
                           /\ reply'[d] = reply[d] \/ asked[d] # "idle"
    BY <1>3, <2>1
    DEF AnswerNavigate, OnNavigationResponse, Resolved, TypeOK, P!TypeOK
  <2>3. UNCHANGED <<asked, tgt>>
    BY <1>3 DEF AnswerNavigate
  <2> QED
    BY <1>0, <1>3, <2>2, <2>3, KindsStepQuiet DEF AnswerNavigate
<1>4. CASE AnswerCommand(i) \/ AnswerCloseBrowser(i)
  <2>1. asked[pending[i].tx] # "idle"
    BY <1>4, OwnerAsked DEF AnswerCommand, AnswerCloseBrowser, Answers, Owning
  <2>2. \A d \in Callers : reply'[d] = reply[d] \/ asked[d] # "idle"
    BY <1>4, <2>1 DEF AnswerCommand, AnswerCloseBrowser, Resolved, TypeOK, P!TypeOK
  <2>3. UNCHANGED <<asked, tgt, navigations>>
    BY <1>4 DEF AnswerCommand, AnswerCloseBrowser
  <2> QED
    BY <1>0, <1>4, <2>2, <2>3, KindsStepQuiet DEF AnswerCommand, AnswerCloseBrowser
<1>5. CASE AnswerAttach(i) \/ AnswerInit(i) \/ AnswerCloseTarget(i)
  <2>1. UNCHANGED <<asked, reply, navigations>>
    BY <1>5 DEF AnswerAttach, AnswerInit, AnswerCloseTarget, callerVars
  <2>2. ASSUME NEW t \in Targets, NEW s \in Sessions \union {None}, NEW f \in BOOLEAN
        PROVE  /\ TargetMatches([tgt[t] EXCEPT !.session = s], asked)
               /\ TargetMatches([tgt[t] EXCEPT !.init = "Initialized", !.frame = f], asked)
    <3>1. TargetMatches(tgt[t], asked) /\ tgt[t] \in Target
      BY TgtType DEF KindsMatch
    <3> QED
      BY <3>1 DEF TargetMatches, Target
  <2>3. \A u \in Targets : tgt'[u] = tgt[u] \/ TargetMatches(tgt'[u], asked)
    <3>1. CASE AnswerAttach(i)
      <4>1. CASE UNCHANGED tgt
        BY <4>1
      <4>2. ASSUME NEW s \in Sessions, tgt' = [tgt EXCEPT ![pending[i].target].session = s]
            PROVE  \A u \in Targets : tgt'[u] = tgt[u] \/ TargetMatches(tgt'[u], asked)
        BY <2>2, <4>2, TgtType
      <4> QED
        BY <3>1, <4>1, <4>2 DEF AnswerAttach
    <3>2. CASE AnswerInit(i)
      <4>1. CASE UNCHANGED tgt
        BY <4>1
      <4>2. ASSUME NEW f \in BOOLEAN,
                   tgt' = [tgt EXCEPT ![pending[i].target] =
                             [@ EXCEPT !.init = "Initialized", !.frame = f]]
            PROVE  \A u \in Targets : tgt'[u] = tgt[u] \/ TargetMatches(tgt'[u], asked)
        BY <2>2, <4>2, TgtType
      <4> QED
        BY <3>2, <4>1, <4>2 DEF AnswerInit
    <3>3. CASE AnswerCloseTarget(i)
      BY <3>3 DEF AnswerCloseTarget
    <3> QED
      BY <1>5, <3>1, <3>2, <3>3
  <2> QED
    BY <1>0, <1>5, <2>1, <2>3, KindsStepQuiet DEF AnswerAttach, AnswerInit, AnswerCloseTarget
<1> QED
  BY <1>1, <1>2, <1>3, <1>4, <1>5 DEF OnResponse

LEMMA EventKinds ==
  ASSUME TypeOK, TypeOK', KindsMatch,
         \/ \E t \in Targets : \/ GetPage(t) \/ TargetCreated(t) \/ TargetDestroyed(t)
                             \/ TargetCrashed(t)
         \/ \E s \in Sessions : \/ \E t \in Targets : AttachedToTarget(s, t)
                              \/ DetachedFromTarget(s)
  PROVE  KindsMatch'
<1>1. UNCHANGED <<asked, navigations>>
  BY DEF GetPage, TargetCreated, TargetDestroyed, TargetCrashed, AttachedToTarget,
         DetachedFromTarget, callerVars
<1>2. \A i \in CallId : pending'[i] = pending[i] \/ EntryMatches(pending'[i], asked)
  BY NothingMatches
  DEF GetPage, TargetCreated, TargetDestroyed, TargetCrashed, AttachedToTarget,
      DetachedFromTarget, wireVars, Without
<1>3. \A d \in Callers : reply'[d] = reply[d] \/ asked[d] # "idle"
  <2>1. ASSUME NEW t \in Targets, TargetCreated(t) \/ TargetDestroyed(t)
        PROVE  \A d \in Callers : reply'[d] = reply[d] \/ asked[d] # "idle"
    BY <2>1, OwnerAsked DEF TargetCreated, TargetDestroyed, Resolved, TypeOK, P!TypeOK
  <2>2. ASSUME NEW t \in Targets, TargetCrashed(t)
        PROVE  \A d \in Callers : reply'[d] = reply[d] \/ asked[d] # "idle"
    <3>1. \A d \in OwnersOf(BoundTo(t)) \union DroppedWith(t) : asked[d] # "idle"
      BY OwnerAsked DEF OwnersOf, BoundTo
    <3> QED
      BY <2>2, <3>1 DEF TargetCrashed
  <2> QED
    BY <2>1, <2>2 DEF GetPage, AttachedToTarget, DetachedFromTarget, callerVars
<1>4. \A u \in Targets : tgt'[u] = tgt[u] \/ TargetMatches(tgt'[u], asked)
  <2>1. ASSUME NEW t \in Targets, NEW s \in Sessions \union {None}
        PROVE  /\ TargetMatches([tgt[t] EXCEPT !.session = s], asked)
               /\ TargetMatches([tgt[t] EXCEPT !.page = s], asked)
    <3>1. TargetMatches(tgt[t], asked) /\ tgt[t] \in Target
      BY TgtType DEF KindsMatch
    <3> QED
      BY <3>1 DEF TargetMatches, Target
  <2>2. ASSUME NEW t \in Targets, GetPage(t)
        PROVE  \A u \in Targets : tgt'[u] = tgt[u] \/ TargetMatches(tgt'[u], asked)
    BY <2>1, <2>2, TgtType DEF GetPage, Target
  <2>3. ASSUME NEW t \in Targets, TargetCreated(t) \/ TargetDestroyed(t) \/ TargetCrashed(t)
        PROVE  \A u \in Targets : tgt'[u] = tgt[u] \/ TargetMatches(tgt'[u], asked)
    <3>1. \/ UNCHANGED tgt
          \/ tgt' = [u \in Targets |-> IF u \in {t} THEN NewTarget ELSE tgt[u]]
          \/ tgt' = [tgt EXCEPT ![t] = Absent]
      BY <2>3 DEF TargetCreated, TargetDestroyed, TargetCrashed, Create, Forget
    <3> QED
      BY <3>1, NothingMatches, TgtType
  <2>4. ASSUME NEW s \in Sessions, NEW t \in Targets, AttachedToTarget(s, t)
        PROVE  \A u \in Targets : tgt'[u] = tgt[u] \/ TargetMatches(tgt'[u], asked)
    BY <2>1, <2>4, TgtType DEF AttachedToTarget
  <2>5. ASSUME NEW s \in Sessions, DetachedFromTarget(s)
        PROVE  \A u \in Targets : tgt'[u] = tgt[u] \/ TargetMatches(tgt'[u], asked)
    BY <2>1, <2>5, TgtType DEF DetachedFromTarget, TypeOK
  <2> QED
    BY <2>2, <2>3, <2>4, <2>5
<1> QED
  BY <1>1, <1>2, <1>3, <1>4, KindsStepQuiet

LEMMA EndKinds ==
  ASSUME TypeOK, TypeOK', KindsMatch,
         DisposeContext \/ (\E I \in SUBSET CallId : Evict(I)) \/ Stop
  PROVE  KindsMatch'
<1>1. UNCHANGED asked
  BY DEF DisposeContext, Evict, Stop, callerVars
<1>2. \A i \in CallId : pending'[i] = pending[i] \/ EntryMatches(pending'[i], asked)
  BY NothingMatches DEF DisposeContext, Evict, Stop, wireVars, Without
<1>3. \A u \in Targets : tgt'[u] = tgt[u] \/ TargetMatches(tgt'[u], asked)
  BY NothingMatches DEF DisposeContext, Evict, Stop
<1>4. \A d \in Callers : navigations'[d] # "none" => navigations[d] # "none"
  BY DEF DisposeContext, Evict, Stop, TypeOK
<1>5. \A d \in Callers : reply'[d] = reply[d] \/ asked[d] # "idle"
  <2>1. CASE DisposeContext
    BY <2>1 DEF DisposeContext, callerVars
  <2>2. ASSUME NEW I \in SUBSET CallId, Evict(I)
        PROVE  \A d \in Callers : reply'[d] = reply[d] \/ asked[d] # "idle"
    BY <2>2, OwnerAsked DEF Evict, Resolved, OwnersOf, ExpiredNavigations, KindsMatch
  <2>3. CASE Stop
    BY <2>3 DEF Stop, Resolved, Waiting, P!Waiting
  <2> QED
    BY <2>1, <2>2, <2>3
<1> QED
  BY <1>1, <1>2, <1>3, <1>4, <1>5, KindsStepQuiet

LEMMA KindsNext == TypeOK /\ KindsMatch /\ [Next]_vars => KindsMatch'
<1> SUFFICES ASSUME TypeOK, KindsMatch, [Next]_vars
             PROVE  KindsMatch'
  OBVIOUS
<1>0. TypeOK'
  BY StepType
<1>1. CASE Next
  BY <1>0, <1>1, RequestsKinds, ChannelKinds, PollKinds, NavigationKinds, OnResponseKinds,
     EventKinds, EndKinds
  DEF Next, Shutdown, ConnectionLost
<1>2. CASE UNCHANGED vars
  BY <1>2 DEF KindsMatch, vars, callerVars, wireVars
<1> QED
  BY <1>1, <1>2

-----------------------------------------------------------------------------
(* A navigation is answered after its response and its lifecycle.          *)

(* The steps that end no navigation with Ok.                               *)
LEMMA NavigationStep ==
  ASSUME TypeOK, KindsMatch, NavigationMatches, NavigateNeedsBoth,
         Extends(asked, asked'),
         \A c \in Callers : navigations'[c] \in {navigations[c], "none", "started"},
         answeredNav \subseteq answeredNav', loadedNav \subseteq loadedNav',
         \A c \in Callers : reply'[c] = "ok" => reply[c] = "ok" \/ asked'[c] # "Navigate"
  PROVE  NavigationMatches' /\ NavigateNeedsBoth'
<1>1. NavigationMatches'
  BY DEF NavigationMatches
<1>2. ASSUME NEW c \in Callers, asked'[c] = "Navigate", reply'[c] = "ok"
      PROVE  c \in answeredNav' \intersect loadedNav'
  <2>1. asked[c] = "Navigate" /\ reply[c] = "ok"
    BY <1>2 DEF Extends, KindsMatch
  <2> QED
    BY <2>1 DEF NavigateNeedsBoth
<1> QED
  BY <1>1, <1>2 DEF NavigateNeedsBoth

(* The response comes last, or the end of the lifecycle does.              *)
LEMMA NavigationOk ==
  ASSUME TypeOK, KindsMatch, NavigationMatches, NavigateNeedsBoth,
         \/ \E i \in CallId : AnswerNavigate(i)
         \/ \E t \in Targets : NavigationLoaded(t)
  PROVE  NavigationMatches' /\ NavigateNeedsBoth'
<1>1. ASSUME NEW i \in CallId, AnswerNavigate(i)
      PROVE  NavigationMatches' /\ NavigateNeedsBoth'
  <2>1. pending[i].tx \in Callers
    BY <1>1, OwnerType DEF AnswerNavigate, Answers
  <2>2. /\ answeredNav' = answeredNav \union {pending[i].tx}
        /\ UNCHANGED <<loadedNav, asked>>
        /\ OnNavigationResponse(pending[i].tx)
    BY <1>1 DEF AnswerNavigate
  <2>3. NavigationMatches'
    BY <2>1, <2>2 DEF OnNavigationResponse, NavigationMatches, TypeOK
  <2>4. NavigateNeedsBoth'
    BY <2>1, <2>2
    DEF OnNavigationResponse, NavigationMatches, NavigateNeedsBoth, Resolved, TypeOK, P!TypeOK
  <2> QED
    BY <2>3, <2>4
<1>2. ASSUME NEW t \in Targets, NavigationLoaded(t)
      PROVE  NavigationMatches' /\ NavigateNeedsBoth'
  <2>1. tgt[t].active \in Callers
    BY <1>2, TgtType DEF NavigationLoaded, Target
  <2>2. /\ loadedNav' = loadedNav \union {tgt[t].active}
        /\ UNCHANGED <<answeredNav, asked>>
    BY <1>2 DEF NavigationLoaded
  <2>3. NavigationMatches'
    BY <1>2, <2>1, <2>2 DEF NavigationLoaded, NavigationMatches, TypeOK
  <2>4. NavigateNeedsBoth'
    BY <1>2, <2>1, <2>2
    DEF NavigationLoaded, NavigationMatches, NavigateNeedsBoth, Resolved, TypeOK, P!TypeOK
  <2> QED
    BY <2>3, <2>4
<1> QED
  BY <1>1, <1>2

(* No other step gives Ok to a navigation.                                 *)
LEMMA OtherOk ==
  ASSUME TypeOK, KindsMatch, Next,
         ~ \E i \in CallId : AnswerNavigate(i),
         ~ \E t \in Targets : NavigationLoaded(t)
  PROVE  /\ Extends(asked, asked')
         /\ \A c \in Callers : navigations'[c] \in {navigations[c], "none", "started"}
         /\ answeredNav' = answeredNav /\ loadedNav' = loadedNav
         /\ \A c \in Callers : reply'[c] = "ok" => reply[c] = "ok" \/ asked'[c] # "Navigate"
<1> DEFINE Quiet == /\ Extends(asked, asked')
                    /\ \A c \in Callers : navigations'[c] \in {navigations[c], "none", "started"}
                    /\ answeredNav' = answeredNav /\ loadedNav' = loadedNav
                    /\ \A c \in Callers :
                         reply'[c] = "ok" => reply[c] = "ok" \/ asked'[c] # "Navigate"
<1>1. ASSUME NEW c \in Callers,
             BrowserCommand(c) \/ FetchTargets(c) \/ CloseBrowser(c) \/ CreatePage(c)
      PROVE  Quiet
  BY <1>1, AskExtends
  DEF BrowserCommand, FetchTargets, CloseBrowser, CreatePage, histVars, Resolved, TypeOK, P!TypeOK
<1>2. ASSUME NEW t \in Targets, NEW c \in Callers,
             PageSends(c, t) \/ TakeCommand(t, c) \/ TakeNavigate(t, c) \/ TakeClosing(t, c)
      PROVE  Quiet
  <2>1. CASE PageSends(c, t)
    BY <2>1, AskExtends DEF PageSends, histVars
  <2>2. CASE TakeCommand(t, c) \/ TakeClosing(t, c)
    BY <2>2 DEF TakeCommand, TakeClosing, histVars, Extends, Resolved, TypeOK, P!TypeOK
  <2>3. CASE TakeNavigate(t, c)
    BY <2>3 DEF TakeNavigate, Extends, TypeOK, callerVars
  <2> QED
    BY <1>2, <2>1, <2>2, <2>3
<1>3. ASSUME NEW t \in Targets,
             PollAttach(t) \/ PollInit(t) \/ PollInitFailed(t) \/ PollInitiator(t)
      PROVE  Quiet
  <2>1. tgt[t].initiator # None => asked[tgt[t].initiator] = "CreatePage"
    BY DEF KindsMatch, TargetMatches
  <2> QED
    BY <1>3, <2>1
    DEF PollAttach, PollInit, PollInitFailed, PollInitiator, callerVars, histVars, Extends,
        Resolved, TypeOK, P!TypeOK
<1>4. ASSUME NEW t \in Targets, NavigationFailed(t) \/ \E c \in Callers : NavigationRequest(t, c)
      PROVE  Quiet
  <2>1. CASE NavigationFailed(t)
    <3>1. \A c \in Callers : reply'[c] \in {reply[c], "error"}
      BY <2>1 DEF NavigationFailed, Resolved, TypeOK, P!TypeOK
    <3>2. \A c \in Callers : navigations'[c] \in {navigations[c], "none"}
      BY <2>1 DEF NavigationFailed, TypeOK
    <3> QED
      BY <2>1, <3>1, <3>2 DEF NavigationFailed, histVars, Extends
  <2>2. ASSUME NEW c \in Callers, NavigationRequest(t, c)
        PROVE  Quiet
    BY <2>2 DEF NavigationRequest, callerVars, Extends
  <2> QED
    BY <1>4, <2>1, <2>2
<1>5. ASSUME NEW i \in CallId, OnResponse(i)
      PROVE  Quiet
  <2>1. /\ pending[i].req = "GetTargets" => asked[pending[i].tx] = "FetchTargets"
        /\ pending[i].req = "ExternalCommand" => asked[pending[i].tx] \in {"Command", "PageCommand"}
        /\ pending[i].req = "CloseBrowser" => asked[pending[i].tx] = "CloseBrowser"
    BY DEF KindsMatch, EntryMatches
  <2>2. CASE AnswerCreate(i) \/ AnswerAttach(i) \/ AnswerInit(i) \/ AnswerCloseTarget(i)
    <3>1. \A c \in Callers : reply'[c] \in {reply[c], "error", "not_found"}
      <4>1. CASE AnswerCreate(i)
        BY <4>1 DEF AnswerCreate, Resolved, TypeOK, P!TypeOK
      <4>2. CASE AnswerAttach(i) \/ AnswerInit(i) \/ AnswerCloseTarget(i)
        BY <4>2 DEF AnswerAttach, AnswerInit, AnswerCloseTarget, callerVars
      <4> QED
        BY <2>2, <4>1, <4>2
    <3>2. UNCHANGED <<asked, navigations, answeredNav, loadedNav>>
      BY <2>2 DEF AnswerCreate, AnswerAttach, AnswerInit, AnswerCloseTarget, callerVars, histVars
    <3> QED
      BY <3>1, <3>2 DEF Extends
  <2>3. CASE AnswerGetTargets(i) \/ AnswerCommand(i) \/ AnswerCloseBrowser(i)
    <3>1. asked[pending[i].tx] # "Navigate"
      BY <2>1, <2>3 DEF AnswerGetTargets, AnswerCommand, AnswerCloseBrowser, Answers
    <3>2. \A c \in Callers : reply'[c] = "ok" => reply[c] = "ok" \/ c = pending[i].tx
      BY <2>3
      DEF AnswerGetTargets, AnswerCommand, AnswerCloseBrowser, Resolved, TypeOK, P!TypeOK
    <3>3. UNCHANGED <<asked, navigations, answeredNav, loadedNav>>
      BY <2>3 DEF AnswerGetTargets, AnswerCommand, AnswerCloseBrowser, histVars
    <3> QED
      BY <3>1, <3>2, <3>3 DEF Extends
  <2> QED
    BY <1>5, <2>2, <2>3 DEF OnResponse
<1>6. ASSUME NEW t \in Targets,
             GetPage(t) \/ TargetCreated(t) \/ TargetDestroyed(t) \/ TargetCrashed(t)
      PROVE  Quiet
  BY <1>6
  DEF GetPage, TargetCreated, TargetDestroyed, TargetCrashed, callerVars, histVars, Extends,
      Resolved, TypeOK, P!TypeOK
<1>7. ASSUME NEW s \in Sessions,
             DetachedFromTarget(s) \/ \E t \in Targets : AttachedToTarget(s, t)
      PROVE  Quiet
  BY <1>7 DEF DetachedFromTarget, AttachedToTarget, callerVars, histVars, Extends
<1>8. CASE DisposeContext \/ (\E I \in SUBSET CallId : Evict(I)) \/ Stop
  BY <1>8
  DEF DisposeContext, Evict, Stop, callerVars, histVars, Extends, Resolved, TypeOK, P!TypeOK
<1> QED
  BY <1>1, <1>2, <1>3, <1>4, <1>5, <1>6, <1>7, <1>8 DEF Next, Shutdown, ConnectionLost

LEMMA NavigationNext ==
  TypeOK /\ KindsMatch /\ NavigationMatches /\ NavigateNeedsBoth /\ [Next]_vars
    => NavigationMatches' /\ NavigateNeedsBoth'
<1> SUFFICES ASSUME TypeOK, KindsMatch, NavigationMatches, NavigateNeedsBoth, [Next]_vars
             PROVE  NavigationMatches' /\ NavigateNeedsBoth'
  OBVIOUS
<1>1. CASE \/ \E i \in CallId : AnswerNavigate(i)
           \/ \E t \in Targets : NavigationLoaded(t)
  BY <1>1, NavigationOk
<1>2. CASE Next /\ ~ (\E i \in CallId : AnswerNavigate(i))
                /\ ~ (\E t \in Targets : NavigationLoaded(t))
  BY <1>2, OtherOk, NavigationStep
<1>3. CASE UNCHANGED vars
  BY <1>3 DEF NavigationMatches, NavigateNeedsBoth, vars, callerVars, histVars
<1> QED
  BY <1>1, <1>2, <1>3

LEMMA NavigationInit == Init => KindsMatch /\ NavigationMatches /\ NavigateNeedsBoth
BY NothingMatches DEF Init, P!Init, KindsMatch, NavigationMatches, NavigateNeedsBoth

(* Page.navigate is answered with Ok only after both its response and the  *)
(* end of its lifecycle: neither on_navigation_response nor                *)
(* on_navigation_lifecycle_completed uses the sender of a navigation that  *)
(* waits for the other, whatever is evicted, replaced or lost between.     *)
THEOREM NavigateAnsweredLast == Spec => []NavigateNeedsBoth
<1>1. Init => TypeOK /\ KindsMatch /\ NavigationMatches /\ NavigateNeedsBoth
  BY InitType, NavigationInit
<1>2. TypeOK /\ KindsMatch /\ NavigationMatches /\ NavigateNeedsBoth /\ [Next]_vars
        => (TypeOK /\ KindsMatch /\ NavigationMatches /\ NavigateNeedsBoth)'
  BY StepType, KindsNext, NavigationNext
<1> QED
  BY <1>1, <1>2, PTL DEF Spec

-----------------------------------------------------------------------------
(* Ids are given out in order.                                             *)

(* Ids not given out yet have no entry.                                    *)
FreshIds == \A i \in CallId : i >= nextId => pending[i] = NoPending

LEMMA SubmitIsFresh ==
  ASSUME TypeOK, FreshIds, NEW p, Submit(p)
  PROVE  /\ nextId \in CallId
         /\ \A c : ~Holds(nextId, c)
         /\ \A i \in CallId : pending'[i] = IF i = nextId THEN p ELSE pending[i]
<1>1. nextId \in CallId
  BY MaxCallsAssumption DEF TypeOK, Submit, CallId
<1>2. pending[nextId] = NoPending
  BY <1>1 DEF FreshIds, CallId
<1>3. \A c : ~Holds(nextId, c)
  BY <1>2 DEF Holds, NoPending, Pending, Owning
<1>4. \A i \in CallId : pending'[i] = IF i = nextId THEN p ELSE pending[i]
  BY <1>1 DEF Submit, TypeOK
<1> QED
  BY <1>1, <1>3, <1>4

LEMMA WireNext ==
  ASSUME TypeOK, Next
  PROVE  \/ UNCHANGED wireVars
         \/ \E p : Submit(p)
         \/ UNCHANGED nextId /\ \E I : pending' = Without(I)
<1>1. ASSUME NEW c \in Callers,
             BrowserCommand(c) \/ FetchTargets(c) \/ CloseBrowser(c) \/ CreatePage(c)
      PROVE  UNCHANGED wireVars \/ \E p : Submit(p)
  BY <1>1 DEF BrowserCommand, FetchTargets, CloseBrowser, CreatePage, Full
<1>2. ASSUME NEW t \in Targets, NEW c \in Callers,
             \/ PageSends(c, t) \/ TakeCommand(t, c) \/ TakeNavigate(t, c) \/ TakeClosing(t, c)
             \/ NavigationRequest(t, c)
      PROVE  UNCHANGED wireVars \/ \E p : Submit(p)
  BY <1>2
  DEF PageSends, TakeCommand, TakeNavigate, TakeClosing, NavigationRequest, Full
<1>3. ASSUME NEW t \in Targets,
             \/ GetPage(t) \/ PollAttach(t) \/ PollInit(t) \/ PollInitFailed(t) \/ PollInitiator(t)
             \/ NavigationLoaded(t) \/ NavigationFailed(t)
             \/ TargetCreated(t) \/ TargetDestroyed(t)
      PROVE  UNCHANGED wireVars \/ \E p : Submit(p)
  BY <1>3
  DEF GetPage, PollAttach, PollInit, PollInitFailed, PollInitiator, NavigationLoaded,
      NavigationFailed, TargetCreated, TargetDestroyed, Full
<1>4. ASSUME NEW i \in CallId, OnResponse(i)
      PROVE  UNCHANGED nextId /\ \E I : pending' = Without(I)
  BY <1>4
  DEF OnResponse, AnswerCreate, AnswerGetTargets, AnswerNavigate, AnswerCommand, AnswerAttach,
      AnswerInit, AnswerCloseTarget, AnswerCloseBrowser, Answers
<1>5. ASSUME (\E I \in SUBSET CallId : Evict(I)) \/ (\E t \in Targets : TargetCrashed(t)) \/ Stop
      PROVE  UNCHANGED nextId /\ \E I : pending' = Without(I)
  BY <1>5 DEF Evict, TargetCrashed, Stop
<1>6. ASSUME \/ DisposeContext
             \/ \E s \in Sessions : \/ \E t \in Targets : AttachedToTarget(s, t)
                                    \/ DetachedFromTarget(s)
      PROVE  UNCHANGED wireVars
  BY <1>6 DEF DisposeContext, AttachedToTarget, DetachedFromTarget
<1> QED
  BY <1>1, <1>2, <1>3, <1>4, <1>5, <1>6 DEF Next, Shutdown, ConnectionLost

LEMMA FreshNext == TypeOK /\ FreshIds /\ [Next]_vars => FreshIds'
<1> SUFFICES ASSUME TypeOK, FreshIds, [Next]_vars
             PROVE  FreshIds'
  OBVIOUS
<1>1. CASE UNCHANGED wireVars
  BY <1>1 DEF FreshIds, wireVars
<1>2. ASSUME NEW p, Submit(p)
      PROVE  FreshIds'
  <2>1. \A i \in CallId : i >= nextId + 1 => i >= nextId /\ i # nextId
    BY MaxCallsAssumption DEF CallId, TypeOK
  <2>2. nextId' = nextId + 1
    BY <1>2 DEF Submit
  <2> QED
    BY <1>2, <2>1, <2>2, SubmitIsFresh DEF FreshIds
<1>3. ASSUME UNCHANGED nextId, NEW I, pending' = Without(I)
      PROVE  FreshIds'
  BY <1>3 DEF FreshIds, Without
<1> QED
  BY <1>1, <1>2, <1>3, WireNext DEF vars

-----------------------------------------------------------------------------
(* The sessions of the tables are alive.                                   *)

(* The attach command that made a session and is still to be answered:     *)
(* unless its target is gone, the session is registered under it.          *)
Numbered ==
  \A s \in Sessions : link[s].by # None =>
    /\ link[s].by < nextId
    /\ pending[link[s].by].req = "Attach" =>
         /\ pending[link[s].by].target = link[s].at /\ link[s].st = "open"
         /\ world[link[s].at] # "gone" => sessions[s] = link[s].at

(* The session of a target is registered under it once it was announced.   *)
Registered ==
  \A t \in Targets :
    tgt[t].session # None /\ link[tgt[t].session].st = "open" => sessions[tgt[t].session] = t

(* A target the handler does not know has no session.                      *)
Vacant == \A t \in Targets : Known(t) \/ tgt[t].session = None

SessionsInv == Numbered /\ Registered /\ Vacant /\ NoGhostSession

(* What becomes of a target q keeps its session, or has none.              *)
Continues(q, r) ==
  \/ r.session = None
  \/ r.session = q.session /\ (q.init # "absent" => r.init # "absent")

LEMMA SessionTypes ==
  ASSUME TypeOK
  PROVE  /\ link \in [Sessions -> Link] /\ sessions \in [Sessions -> Targets \union {None}]
         /\ \A s \in Sessions : /\ link[s].at \in Targets \union {None}
                                /\ link[s].by \in CallId \union {None}
         /\ \A t \in Targets : tgt[t].session \in Sessions \union {None}
         /\ nextId \in Nat
BY DEF TypeOK, Link, Target

(* A command that is filed under an id given out before was filed there    *)
(* before.                                                                 *)
LEMMA EntriesKept ==
  ASSUME TypeOK, Next
  PROVE  /\ nextId <= nextId'
         /\ \A i \in CallId : i < nextId => pending'[i] \in {pending[i], NoPending}
<1>0. nextId \in Nat /\ pending \in [CallId -> PendingRequest]
  BY DEF TypeOK
<1>1. CASE UNCHANGED wireVars
  BY <1>0, <1>1 DEF wireVars
<1>2. ASSUME NEW p, Submit(p)
      PROVE  /\ nextId <= nextId'
             /\ \A i \in CallId : i < nextId => pending'[i] \in {pending[i], NoPending}
  <2>1. nextId' = nextId + 1 /\ pending' = [pending EXCEPT ![nextId] = p]
    BY <1>2 DEF Submit
  <2>2. \A i \in CallId : i < nextId => i # nextId
    BY <1>0, MaxCallsAssumption DEF CallId
  <2> QED BY <1>0, <2>1, <2>2
<1>3. ASSUME UNCHANGED nextId, NEW I, pending' = Without(I)
      PROVE  /\ nextId <= nextId'
             /\ \A i \in CallId : i < nextId => pending'[i] \in {pending[i], NoPending}
  BY <1>0, <1>3 DEF Without
<1> QED
  BY <1>1, <1>2, <1>3, WireNext

LEMMA SessionsQuiet ==
  ASSUME TypeOK, SessionsInv, UNCHANGED <<sessions, link>>, nextId <= nextId', nextId' \in Nat,
         \A i \in CallId : i < nextId => pending'[i] \in {pending[i], NoPending},
         \A t \in Targets : Continues(tgt[t], tgt'[t]),
         \A t \in Targets : world[t] = "gone" => world'[t] = "gone"
  PROVE  SessionsInv'
<1>0. NoPending.req = "none"
  BY DEF NoPending, Pending
<1>1. ASSUME NEW s \in Sessions, link[s].by # None
      PROVE  /\ link[s].by < nextId'
             /\ pending'[link[s].by].req = "Attach" =>
                  /\ pending'[link[s].by].target = link[s].at /\ link[s].st = "open"
                  /\ world'[link[s].at] # "gone" => sessions[s] = link[s].at
  <2>1. link[s].by \in CallId /\ link[s].by < nextId /\ nextId \in Nat /\ link[s].by \in Nat
    BY <1>1, SessionTypes DEF SessionsInv, Numbered, TypeOK, CallId
  <2>2. pending'[link[s].by].req = "Attach" => pending'[link[s].by] = pending[link[s].by]
    BY <1>0, <2>1
  <2>3. link[s].by < nextId'
    BY <2>1
  <2>4. pending[link[s].by].req = "Attach" => link[s].at \in Targets
    <3>1. pending[link[s].by].req = "Attach" => pending[link[s].by].target \in Targets
      BY <2>1, OwnerType DEF Internal
    <3> QED BY <1>1, <3>1 DEF SessionsInv, Numbered
  <2> QED BY <1>1, <2>2, <2>3, <2>4 DEF SessionsInv, Numbered
<1>2. Numbered'
  BY <1>1 DEF Numbered
<1>3. Registered'
  BY DEF SessionsInv, Registered, Continues
<1>4. NoGhostSession'
  BY DEF SessionsInv, NoGhostSession, Continues
<1>5. Vacant'
  BY DEF SessionsInv, Vacant, Continues, Known
<1> QED BY <1>2, <1>3, <1>4, <1>5 DEF SessionsInv

(* The steps that change neither the sessions nor what a target keeps of   *)
(* them, except with a new Target.                                         *)
LEMMA QuietSteps ==
  ASSUME TypeOK, Next,
         ~ \E i \in CallId : AnswerAttach(i),
         ~ \E s \in Sessions : DetachedFromTarget(s) \/ \E t \in Targets : AttachedToTarget(s, t),
         ~ \E t \in Targets : TargetDestroyed(t) \/ TargetCrashed(t),
         ~ Stop
  PROVE  /\ UNCHANGED <<sessions, link>>
         /\ \A t \in Targets : Continues(tgt[t], tgt'[t])
         /\ \A t \in Targets : world[t] = "gone" => world'[t] = "gone"
<1> DEFINE Kept == /\ UNCHANGED <<sessions, link>>
                   /\ \A t \in Targets : Continues(tgt[t], tgt'[t])
                   /\ \A t \in Targets : world[t] = "gone" => world'[t] = "gone"
<1>0. tgt \in [Targets -> Target] /\ world \in [Targets -> {"unborn", "hidden", "live", "gone"}]
  BY DEF TypeOK
<1>1. ASSUME NEW u \in Targets, NEW r, tgt' = [tgt EXCEPT ![u] = r],
             Continues(tgt[u], r)
      PROVE  \A t \in Targets : Continues(tgt[t], tgt'[t])
  BY <1>0, <1>1 DEF Continues
<1>2. ASSUME NEW u \in Targets, NEW c \in Callers,
             PageSends(c, u) \/ TakeCommand(u, c) \/ TakeClosing(u, c)
      PROVE  Kept
  <2>1. PICK I \in SUBSET Callers : tgt' = [tgt EXCEPT ![u] = [tgt[u] EXCEPT !.inbox = I]]
    BY <1>0, <1>2 DEF PageSends, TakeCommand, TakeClosing, Target
  <2>2. Continues(tgt[u], [tgt[u] EXCEPT !.inbox = I])
    BY <1>0 DEF Target, Continues
  <2>3. \A t \in Targets : Continues(tgt[t], tgt'[t])
    BY <1>1, <2>1, <2>2
  <2>4. UNCHANGED <<sessions, link, world>>
    BY <1>2 DEF PageSends, TakeCommand, TakeClosing, browserVars
  <2> QED BY <2>3, <2>4
<1>3. ASSUME NEW u \in Targets, NEW c \in Callers, TakeNavigate(u, c) \/ NavigationRequest(u, c)
      PROVE  Kept
  <2>1. \E r : tgt' = [tgt EXCEPT ![u] = r] /\ Continues(tgt[u], r)
    <3>1. CASE TakeNavigate(u, c)
      <4>1. tgt' = [tgt EXCEPT ![u] = [tgt[u] EXCEPT !.inbox = @ \ {c},
                       !.queued = IF tgt[u].frame THEN @ \union {c} ELSE @]]
        BY <1>0, <3>1 DEF TakeNavigate
      <4>2. Continues(tgt[u], [tgt[u] EXCEPT !.inbox = @ \ {c},
                       !.queued = IF tgt[u].frame THEN @ \union {c} ELSE @])
        BY <1>0 DEF Target, Continues
      <4> QED BY <4>1, <4>2
    <3>2. CASE NavigationRequest(u, c)
      <4>1. tgt' = [tgt EXCEPT ![u] = [tgt[u] EXCEPT !.queued = @ \ {c}, !.active = c]]
        BY <1>0, <3>2 DEF NavigationRequest
      <4>2. Continues(tgt[u], [tgt[u] EXCEPT !.queued = @ \ {c}, !.active = c])
        BY <1>0 DEF Target, Continues
      <4> QED BY <4>1, <4>2
    <3> QED BY <1>3, <3>1, <3>2
  <2>2. \A t \in Targets : Continues(tgt[t], tgt'[t])
    BY <1>1, <2>1
  <2>3. UNCHANGED <<sessions, link, world>>
    BY <1>3 DEF TakeNavigate, NavigationRequest, browserVars
  <2> QED BY <2>2, <2>3
<1>4. ASSUME NEW u \in Targets, NavigationLoaded(u) \/ NavigationFailed(u)
      PROVE  Kept
  BY <1>0, <1>4 DEF NavigationLoaded, NavigationFailed, Target, Continues, browserVars
<1>5. ASSUME NEW u \in Targets, PollAttach(u) \/ PollInit(u) \/ GetPage(u)
      PROVE  Kept
  BY <1>0, <1>5 DEF PollAttach, PollInit, GetPage, Target, Continues, browserVars
<1>6. ASSUME NEW u \in Targets, PollInitFailed(u) \/ PollInitiator(u)
      PROVE  Kept
  BY <1>0, <1>6 DEF PollInitFailed, PollInitiator, Target, Continues, browserVars
<1>7. ASSUME NEW i \in CallId, OnResponse(i)
      PROVE  Kept
  <2>1. CASE AnswerCreate(i)
    <3>1. UNCHANGED <<sessions, link>>
          /\ \A t \in Targets : world[t] = "gone" => world'[t] = "gone"
      BY <1>0, <2>1 DEF AnswerCreate
    <3>2. \A t \in Targets : Continues(tgt[t], tgt'[t])
      BY <1>0, <2>1 DEF AnswerCreate, Target, Continues
    <3> QED BY <3>1, <3>2
  <2>2. CASE AnswerGetTargets(i)
    BY <2>2 DEF AnswerGetTargets, Create, NewTarget, Continues, browserVars
  <2>3. CASE AnswerInit(i)
    <3>1. pending[i].target \in Targets
      BY <2>3, OwnerType DEF AnswerInit, Answers, Internal
    <3>2. \A f \in BOOLEAN, u \in Targets :
            Continues(tgt[u], [tgt[u] EXCEPT !.init = "Initialized", !.frame = f])
      BY <1>0 DEF Target, Continues
    <3>3. \/ UNCHANGED tgt
          \/ \E f \in BOOLEAN : tgt' = [tgt EXCEPT ![pending[i].target] =
                                  [tgt[pending[i].target] EXCEPT !.init = "Initialized", !.frame = f]]
      BY <1>0, <2>3, <3>1 DEF AnswerInit
    <3>4. \A t \in Targets : Continues(tgt[t], tgt'[t])
      BY <1>1, <3>1, <3>2, <3>3 DEF Continues
    <3> QED BY <2>3, <3>4 DEF AnswerInit, browserVars
  <2>4. CASE AnswerNavigate(i) \/ AnswerCommand(i) \/ AnswerCloseTarget(i) \/ AnswerCloseBrowser(i)
    BY <2>4
    DEF AnswerNavigate, AnswerCommand, AnswerCloseTarget, AnswerCloseBrowser, Continues, browserVars
  <2> QED
    BY <1>7, <2>1, <2>2, <2>3, <2>4 DEF OnResponse
<1>8. ASSUME NEW u \in Targets, TargetCreated(u)
      PROVE  Kept
  BY <1>0, <1>8 DEF TargetCreated, Create, NewTarget, Continues
<1>9. ASSUME \/ DisposeContext \/ (\E I \in SUBSET CallId : Evict(I))
             \/ \E c \in Callers : \/ BrowserCommand(c) \/ FetchTargets(c)
                                   \/ CloseBrowser(c) \/ CreatePage(c)
       PROVE  Kept
  BY <1>9
  DEF DisposeContext, Evict, BrowserCommand, FetchTargets, CloseBrowser, CreatePage, Continues,
      browserVars
<1> QED
  BY <1>2, <1>3, <1>4, <1>5, <1>6, <1>7, <1>8, <1>9 DEF Next, Shutdown, ConnectionLost

(* The event of an attached session, or the answer that names it.          *)
LEMMA AttachedSessions ==
  ASSUME TypeOK, FreshIds, SessionsInv, NEW s \in Sessions, NEW t \in Targets,
         AttachedToTarget(s, t)
  PROVE  SessionsInv'
<1>0. /\ link \in [Sessions -> Link] /\ sessions \in [Sessions -> Targets \union {None}]
      /\ tgt \in [Targets -> Target]
  BY DEF TypeOK
<1>1. /\ UNCHANGED <<nextId, pending, world>> /\ sessions' = [sessions EXCEPT ![s] = t]
      /\ world[t] # "gone"
  BY DEF AttachedToTarget, wireVars
<1>2. /\ \A u \in Targets \ {t} : tgt'[u].session = tgt[u].session
      /\ tgt'[t].session \in {tgt[t].session, s}
  BY <1>0 DEF AttachedToTarget, Target
<1>3. \/ link[s].st = "quiet" /\ link[s].at = t /\ link' = [link EXCEPT ![s].st = "open"]
      \/ /\ link[s].st = "free"
         /\ \E i \in AttachCalls(t) \union {None} :
              link' = [link EXCEPT ![s] = [at |-> t, by |-> i, st |-> "open"]]
  BY DEF AttachedToTarget
<1>4. /\ \A r \in Sessions \ {s} : link'[r] = link[r] /\ sessions'[r] = sessions[r]
      /\ link'[s].at = t /\ link'[s].st = "open" /\ sessions'[s] = t
  BY <1>0, <1>1, <1>3 DEF Link
<1>5. /\ link[s].st = "quiet" => link'[s].by = link[s].by
      /\ link[s].st # "quiet" => link'[s].by \in AttachCalls(t) \union {None}
  BY <1>0, <1>3 DEF Link
<1>6. \A u \in Targets \ {t} : tgt[u].session # None => tgt[u].session # s
  BY <1>3 DEF SessionsInv, NoGhostSession
<1>7. Numbered'
  <2>1. ASSUME NEW r \in Sessions, link'[r].by # None
        PROVE  /\ link'[r].by < nextId
               /\ pending[link'[r].by].req = "Attach" =>
                    /\ pending[link'[r].by].target = link'[r].at /\ link'[r].st = "open"
                    /\ world[link'[r].at] # "gone" => sessions'[r] = link'[r].at
    <3>1. CASE r # s
      BY <1>4, <2>1, <3>1 DEF SessionsInv, Numbered
    <3>2. CASE r = s /\ link[s].st = "quiet"
      BY <1>4, <1>5, <2>1, <3>2 DEF SessionsInv, Numbered
    <3>3. CASE r = s /\ link[s].st # "quiet"
      <4>1. /\ link'[s].by \in CallId /\ pending[link'[s].by].req = "Attach"
            /\ pending[link'[s].by].target = t
        BY <1>5, <2>1, <3>3 DEF AttachCalls
      <4>2. ~ link'[s].by >= nextId
        BY <4>1 DEF FreshIds, NoPending, Pending
      <4>3. link'[s].by < nextId
        BY <4>1, <4>2, SessionTypes DEF CallId
      <4> QED BY <1>4, <3>3, <4>1, <4>3
    <3> QED BY <3>1, <3>2, <3>3
  <2> QED BY <1>1, <2>1 DEF Numbered
<1>8. Registered'
  <2>1. ASSUME NEW u \in Targets, tgt'[u].session # None, link'[tgt'[u].session].st = "open"
        PROVE  sessions'[tgt'[u].session] = u
    <3>1. CASE tgt'[u].session = s
      <4>1. u = t
        BY <1>2, <1>6, <2>1, <3>1
      <4> QED BY <1>4, <3>1, <4>1
    <3>2. CASE tgt'[u].session # s
      <4>1. tgt'[u].session = tgt[u].session
        BY <1>2, <3>2
      <4>2. tgt[u].session \in Sessions
        BY <2>1, <4>1, SessionTypes
      <4> QED BY <1>4, <2>1, <3>2, <4>1, <4>2 DEF SessionsInv, Registered
    <3> QED BY <3>1, <3>2
  <2> QED BY <2>1 DEF Registered
<1>9. NoGhostSession'
  <2>1. \A r \in Sessions :
          sessions'[r] # None => link'[r].at = sessions'[r] /\ link'[r].st = "open"
    BY <1>4 DEF SessionsInv, NoGhostSession
  <2>2. ASSUME NEW u \in Targets, tgt'[u].session # None
        PROVE  link'[tgt'[u].session].at = u /\ link'[tgt'[u].session].st \in {"quiet", "open"}
    <3>1. CASE tgt'[u].session = s
      <4>1. u = t
        BY <1>2, <1>6, <2>2, <3>1
      <4> QED BY <1>4, <3>1, <4>1
    <3>2. CASE tgt'[u].session # s
      <4>1. tgt'[u].session = tgt[u].session
        BY <1>2, <3>2
      <4>2. tgt[u].session \in Sessions
        BY <2>2, <4>1, SessionTypes
      <4> QED BY <1>4, <2>2, <3>2, <4>1, <4>2 DEF SessionsInv, NoGhostSession
    <3> QED BY <3>1, <3>2
  <2> QED BY <2>1, <2>2 DEF NoGhostSession
<1>10. Vacant'
  BY <1>0 DEF AttachedToTarget, SessionsInv, Vacant, Known, Target
<1> QED BY <1>7, <1>8, <1>9, <1>10 DEF SessionsInv

LEMMA AnsweredSessions ==
  ASSUME TypeOK, FreshIds, SessionsInv, NEW i \in CallId, AnswerAttach(i)
  PROVE  SessionsInv'
<1>0. /\ link \in [Sessions -> Link] /\ sessions \in [Sessions -> Targets \union {None}]
      /\ tgt \in [Targets -> Target] /\ pending \in [CallId -> PendingRequest]
  BY DEF TypeOK
<1>1. PICK t \in Targets : t = pending[i].target
  BY OwnerType DEF AnswerAttach, Answers, Internal
<1>2. /\ UNCHANGED <<nextId, world, sessions>> /\ pending[i].req = "Attach"
      /\ pending' = Without({i})
  BY DEF AnswerAttach, Answers
<1>3. /\ pending'[i].req = "none"
      /\ \A j \in CallId \ {i} : pending'[j] = pending[j]
  BY <1>2 DEF Without, NoPending, Pending
<1>4. CASE UNCHANGED <<tgt, link>>
  <2>1. \A j \in CallId : j < nextId => pending'[j] \in {pending[j], NoPending}
    BY <1>2 DEF Without
  <2>2. nextId <= nextId' /\ nextId' \in Nat
    BY <1>2, SessionTypes
  <2> QED BY <1>2, <1>4, <2>1, <2>2, SessionsQuiet DEF Continues
<1>5. ASSUME NEW s \in Sessions,
             link[s].by = i \/ link[s].st = "free",
             world[t] # "gone",
             link' = [link EXCEPT ![s] = [at |-> t, by |-> None,
                                          st |-> IF link[s].by = i THEN link[s].st ELSE "quiet"]],
             tgt' = IF Known(t) THEN [tgt EXCEPT ![t].session = s] ELSE tgt
      PROVE  SessionsInv'
  <2>1. /\ \A u \in Targets \ {t} : tgt'[u].session = tgt[u].session
        /\ tgt'[t].session \in {tgt[t].session, s}
    BY <1>0, <1>5 DEF Target
  <2>2. /\ \A r \in Sessions \ {s} : link'[r] = link[r]
        /\ link'[s].at = t /\ link'[s].by = None
        /\ link'[s].st = IF link[s].by = i THEN link[s].st ELSE "quiet"
    BY <1>0, <1>5
  <2>3. link[s].by = i => link[s].at = t /\ link[s].st = "open" /\ sessions[s] = t
    <3>1. SUFFICES ASSUME link[s].by = i PROVE link[s].at = t /\ link[s].st = "open" /\ sessions[s] = t
      OBVIOUS
    <3>2. CASE i = None
      BY <3>2, NoneAssumption DEF CallId
    <3>3. CASE i # None
      BY <1>1, <1>2, <1>5, <3>1, <3>3 DEF SessionsInv, Numbered
    <3> QED BY <3>2, <3>3
  <2>4. link[s].by # i => link[s].st = "free" /\ sessions[s] = None
    BY <1>5 DEF SessionsInv, NoGhostSession
  <2>5. \A u \in Targets \ {t} : tgt[u].session # None => tgt[u].session # s
    BY <2>3, <2>4 DEF SessionsInv, NoGhostSession
  <2>6. Numbered'
    <3>1. ASSUME NEW r \in Sessions, link'[r].by # None
          PROVE  /\ link'[r].by < nextId
                 /\ pending'[link'[r].by].req = "Attach" =>
                      /\ pending'[link'[r].by].target = link'[r].at /\ link'[r].st = "open"
                      /\ world[link'[r].at] # "gone" => sessions[r] = link'[r].at
      <4>1. r # s /\ link'[r] = link[r] /\ link[r].by \in CallId
        BY <2>2, <3>1, SessionTypes
      <4> QED BY <1>3, <3>1, <4>1 DEF SessionsInv, Numbered
    <3> QED BY <1>2, <3>1 DEF Numbered
  <2>7. Registered'
    <3>1. ASSUME NEW u \in Targets, tgt'[u].session # None, link'[tgt'[u].session].st = "open"
          PROVE  sessions[tgt'[u].session] = u
      <4>1. CASE tgt'[u].session = s
        <5>1. u = t
          BY <2>1, <2>5, <3>1, <4>1
        <5> QED BY <2>2, <2>3, <3>1, <4>1, <5>1
      <4>2. CASE tgt'[u].session # s
        <5>1. tgt'[u].session = tgt[u].session
          BY <2>1, <4>2
        <5>2. tgt[u].session \in Sessions
          BY <3>1, <5>1, SessionTypes
        <5> QED BY <2>2, <3>1, <4>2, <5>1, <5>2 DEF SessionsInv, Registered
      <4> QED BY <4>1, <4>2
    <3> QED BY <1>2, <3>1 DEF Registered
  <2>8. NoGhostSession'
    <3>1. \A r \in Sessions :
            sessions[r] # None => link'[r].at = sessions[r] /\ link'[r].st = "open"
      BY <2>2, <2>3, <2>4 DEF SessionsInv, NoGhostSession
    <3>2. ASSUME NEW u \in Targets, tgt'[u].session # None
          PROVE  link'[tgt'[u].session].at = u /\ link'[tgt'[u].session].st \in {"quiet", "open"}
      <4>1. CASE tgt'[u].session = s
        <5>1. u = t
          BY <2>1, <2>5, <3>2, <4>1
        <5> QED BY <2>2, <2>3, <4>1, <5>1
      <4>2. CASE tgt'[u].session # s
        <5>1. tgt'[u].session = tgt[u].session
          BY <2>1, <4>2
        <5>2. tgt[u].session \in Sessions
          BY <3>2, <5>1, SessionTypes
        <5> QED BY <2>2, <3>2, <4>2, <5>1, <5>2 DEF SessionsInv, NoGhostSession
      <4> QED BY <4>1, <4>2
    <3> QED BY <1>2, <3>1, <3>2 DEF NoGhostSession
  <2>9. Vacant'
    BY <1>0, <1>5 DEF SessionsInv, Vacant, Known, Target
  <2> QED BY <2>6, <2>7, <2>8, <2>9 DEF SessionsInv
<1>6. \/ UNCHANGED <<tgt, link>>
      \/ \E s \in Sessions :
           /\ link[s].by = i \/ link[s].st = "free"
           /\ world[t] # "gone"
           /\ link' = [link EXCEPT ![s] = [at |-> t, by |-> None,
                         st |-> IF link[s].by = i THEN link[s].st ELSE "quiet"]]
           /\ tgt' = IF Known(t) THEN [tgt EXCEPT ![t].session = s] ELSE tgt
  <2>1. CASE UNCHANGED <<tgt, link>>
    BY <2>1
  <2>2. ASSUME NEW s \in Sessions, link[s].by = i \/ link[s].st = "free",
               world[t] \in {"hidden", "live"},
               link' = [link EXCEPT ![s] = [at |-> t, by |-> None,
                          st |-> IF s \in {r \in Sessions : link[r].by = i} THEN @.st ELSE "quiet"]],
               tgt' = IF Known(t) THEN [tgt EXCEPT ![t].session = s] ELSE tgt
        PROVE  \E r \in Sessions :
           /\ link[r].by = i \/ link[r].st = "free"
           /\ world[t] # "gone"
           /\ link' = [link EXCEPT ![r] = [at |-> t, by |-> None,
                         st |-> IF link[r].by = i THEN link[r].st ELSE "quiet"]]
           /\ tgt' = IF Known(t) THEN [tgt EXCEPT ![t].session = r] ELSE tgt
    BY <1>0, <2>2
  <2> QED BY <1>1, <2>1, <2>2 DEF AnswerAttach
<1> QED BY <1>4, <1>5, <1>6

LEMMA DetachedSessions ==
  ASSUME TypeOK, SessionsInv, NEW s \in Sessions, DetachedFromTarget(s)
  PROVE  SessionsInv'
<1>0. /\ link \in [Sessions -> Link] /\ sessions \in [Sessions -> Targets \union {None}]
      /\ tgt \in [Targets -> Target]
  BY DEF TypeOK
<1>1. /\ UNCHANGED <<nextId, pending, world>> /\ link[s].st = "open"
      /\ sessions' = [sessions EXCEPT ![s] = None]
  BY DEF DetachedFromTarget, wireVars
<1>2. /\ \A r \in Sessions \ {s} : link'[r] = link[r] /\ sessions'[r] = sessions[r]
      /\ link'[s].by = None /\ sessions'[s] = None
  BY <1>0 DEF DetachedFromTarget
<1>3. ASSUME NEW u \in Targets
      PROVE  /\ tgt'[u].session \in {tgt[u].session, None}
             /\ tgt'[u].session # None => tgt'[u].session # s
  <2>1. tgt'[u].session \in {tgt[u].session, None}
    BY <1>0 DEF DetachedFromTarget, Target
  <2>2. ASSUME tgt[u].session = s PROVE tgt'[u].session = None
    <3>1. sessions[s] = u
      BY <1>1, <2>2, NoneAssumption DEF SessionsInv, Registered
    <3>2. Known(u)
      BY <2>2, NoneAssumption DEF SessionsInv, Vacant
    <3> QED BY <1>0, <3>1, <3>2, NoneAssumption DEF DetachedFromTarget, Target
  <2> QED BY <2>1, <2>2
<1>4. Numbered'
  BY <1>1, <1>2 DEF SessionsInv, Numbered
<1>5. ASSUME NEW u \in Targets, tgt'[u].session # None
      PROVE  /\ tgt'[u].session = tgt[u].session /\ tgt[u].session \in Sessions \ {s}
  BY <1>3, <1>5, SessionTypes
<1>6. Registered'
  BY <1>2, <1>5 DEF SessionsInv, Registered
<1>7. NoGhostSession'
  BY <1>2, <1>5 DEF SessionsInv, NoGhostSession
<1>8. Vacant'
  BY <1>0 DEF DetachedFromTarget, SessionsInv, Vacant, Known, Target
<1> QED BY <1>4, <1>6, <1>7, <1>8 DEF SessionsInv

(* A target that leaves takes its session along: the one another target    *)
(* keeps is not its, and no attach command to be answered needs it.        *)
LEMMA ForgottenSessions ==
  ASSUME TypeOK, SessionsInv, NEW t \in Targets, TargetDestroyed(t) \/ TargetCrashed(t)
  PROVE  SessionsInv'
<1>0. /\ link \in [Sessions -> Link] /\ sessions \in [Sessions -> Targets \union {None}]
      /\ tgt \in [Targets -> Target] /\ pending \in [CallId -> PendingRequest]
      /\ world \in [Targets -> {"unborn", "hidden", "live", "gone"}]
  BY DEF TypeOK
<1>1. UNCHANGED <<nextId, link>> /\ Forget(t)
  BY DEF TargetDestroyed, TargetCrashed, wireVars, browserVars
<1>2. /\ \A u \in Targets \ {t} : tgt'[u] = tgt[u]
      /\ tgt'[t].session = None
      /\ \A s \in Sessions : sessions'[s] = IF s = tgt[t].session THEN None ELSE sessions[s]
  BY <1>0, <1>1 DEF Forget, Absent, NewTarget
<1>3. \A u \in Targets \ {t} : tgt[u].session # None => tgt[u].session # tgt[t].session
  BY DEF SessionsInv, NoGhostSession
<1>4. ASSUME NEW u \in Targets, tgt'[u].session # None
      PROVE  /\ tgt'[u].session = tgt[u].session /\ tgt[u].session \in Sessions
             /\ sessions'[tgt[u].session] = sessions[tgt[u].session]
  BY <1>2, <1>3, <1>4, SessionTypes
<1>5. Registered'
  BY <1>1, <1>4 DEF SessionsInv, Registered
<1>6. NoGhostSession'
  BY <1>1, <1>2, <1>4 DEF SessionsInv, NoGhostSession
<1>7. ASSUME NEW s \in Sessions, link[s].by # None
      PROVE  /\ link[s].by < nextId
             /\ pending'[link[s].by].req = "Attach" =>
                  /\ pending'[link[s].by].target = link[s].at /\ link[s].st = "open"
                  /\ world'[link[s].at] # "gone" => sessions'[s] = link[s].at
  <2>1. link[s].by \in CallId /\ link[s].by < nextId
    BY <1>7, SessionTypes DEF SessionsInv, Numbered
  <2>2. pending'[link[s].by].req = "Attach" => pending'[link[s].by] = pending[link[s].by]
    BY <2>1 DEF TargetDestroyed, TargetCrashed, wireVars, Without, NoPending, Pending
  <2>3. SUFFICES ASSUME pending'[link[s].by].req = "Attach"
                 PROVE  /\ pending'[link[s].by].target = link[s].at /\ link[s].st = "open"
                        /\ world'[link[s].at] # "gone" => sessions'[s] = link[s].at
    BY <2>1
  <2>4. /\ pending[link[s].by].target = link[s].at /\ link[s].st = "open"
        /\ pending[link[s].by].req = "Attach"
        /\ world[link[s].at] # "gone" => sessions[s] = link[s].at
    BY <1>7, <2>2, <2>3 DEF SessionsInv, Numbered
  <2>5. link[s].at \in Targets
    BY <2>1, <2>4, OwnerType DEF Internal
  <2>6. CASE link[s].at = t
    <3>1. CASE TargetDestroyed(t)
      BY <1>0, <2>2, <2>3, <2>4, <2>6, <3>1 DEF TargetDestroyed
    <3>2. CASE TargetCrashed(t)
      <4>1. link[s].by \in BoundTo(t)
        BY <2>1, <2>4, <2>6 DEF BoundTo, Internal
      <4> QED BY <2>1, <2>3, <3>2, <4>1 DEF TargetCrashed, Without, NoPending, Pending
    <3> QED BY <3>1, <3>2
  <2>7. CASE link[s].at # t
    <3>1. world'[link[s].at] = world[link[s].at]
      BY <1>0, <2>5, <2>7 DEF TargetDestroyed, TargetCrashed, browserVars
    <3>2. s # tgt[t].session
      BY <2>7, NoneAssumption DEF SessionsInv, NoGhostSession
    <3> QED BY <1>2, <2>2, <2>3, <2>4, <3>1, <3>2
  <2> QED BY <2>6, <2>7
<1>8. Numbered'
  BY <1>1, <1>7 DEF Numbered
<1>9. Vacant'
  BY <1>2 DEF SessionsInv, Vacant, Known
<1> QED BY <1>5, <1>6, <1>8, <1>9 DEF SessionsInv

LEMMA SessionsInit == Init => SessionsInv
<1> SUFFICES ASSUME Init PROVE SessionsInv
  OBVIOUS
<1>1. /\ \A s \in Sessions : link[s].by = None /\ sessions[s] = None
      /\ \A t \in Targets : tgt[t].session = None
  BY DEF Init, Absent, NewTarget
<1> QED BY <1>1 DEF SessionsInv, Numbered, Registered, Vacant, Known, NoGhostSession

LEMMA SessionsNext == TypeOK /\ FreshIds /\ SessionsInv /\ [Next]_vars => SessionsInv'
<1> SUFFICES ASSUME TypeOK, FreshIds, SessionsInv, [Next]_vars PROVE SessionsInv'
  OBVIOUS
<1>1. CASE UNCHANGED vars
  BY <1>1
  DEF vars, wireVars, browserVars, SessionsInv, Numbered, Registered, Vacant, Known, NoGhostSession
<1>2. CASE Stop
  <2>1. /\ \A i \in CallId : pending'[i].req = "none"
        /\ \A s \in Sessions : sessions'[s] = None
        /\ \A t \in Targets : tgt'[t].session = None
        /\ UNCHANGED <<nextId, link>>
    BY <1>2 DEF Stop, Without, NoPending, Pending, Absent, NewTarget, browserVars
  <2>2. \A s \in Sessions : link[s].by \in CallId \union {None}
    BY SessionTypes
  <2> QED BY <2>1, <2>2 DEF SessionsInv, Numbered, Registered, Vacant, Known, NoGhostSession
<1>3. CASE \/ \E i \in CallId : AnswerAttach(i)
           \/ \E s \in Sessions : DetachedFromTarget(s) \/ \E t \in Targets : AttachedToTarget(s, t)
           \/ \E t \in Targets : TargetDestroyed(t) \/ TargetCrashed(t)
  BY <1>3, AnsweredSessions, DetachedSessions, AttachedSessions, ForgottenSessions
<1>4. CASE /\ Next /\ ~ Stop
           /\ ~ \E i \in CallId : AnswerAttach(i)
           /\ ~ \E s \in Sessions : DetachedFromTarget(s) \/ \E t \in Targets : AttachedToTarget(s, t)
           /\ ~ \E t \in Targets : TargetDestroyed(t) \/ TargetCrashed(t)
  <2>1. /\ UNCHANGED <<sessions, link>>
        /\ \A t \in Targets : Continues(tgt[t], tgt'[t])
        /\ \A t \in Targets : world[t] = "gone" => world'[t] = "gone"
    BY <1>4, QuietSteps
  <2>2. /\ nextId <= nextId'
        /\ \A i \in CallId : i < nextId => pending'[i] \in {pending[i], NoPending}
    BY <1>4, EntriesKept
  <2>3. nextId' \in Nat
    <3>1. TypeOK'
      BY StepType
    <3> QED BY <3>1 DEF TypeOK
  <2> QED BY <2>1, <2>2, <2>3, SessionsQuiet
<1> QED BY <1>1, <1>2, <1>3, <1>4

(* Whatever the order of the answers to attach commands, the events that   *)
(* announce and end sessions, and the loss of targets, the session table   *)
(* and the targets keep no session the browser has ended, and none of      *)
(* another target.                                                         *)
THEOREM NoGhosts == Spec => []NoGhostSession
<1>1. Init => TypeOK /\ FreshIds /\ SessionsInv
  BY InitType, SessionsInit DEF Init, FreshIds
<1>2. TypeOK /\ FreshIds /\ SessionsInv /\ [Next]_vars => (TypeOK /\ FreshIds /\ SessionsInv)'
  BY StepType, FreshNext, SessionsNext
<1>3. SessionsInv => NoGhostSession
  BY DEF SessionsInv
<1> QED
  BY <1>1, <1>2, <1>3, PTL DEF Spec

-----------------------------------------------------------------------------
(* Senders that are dropped.                                               *)

(* The sender of c may be dropped by this step.                            *)
MayDrop(c) ==
  \/ stopped'
  \/ Refused(c)
  \/ \E t \in Targets : c \in DroppedWith(t) /\ tgt'[t] \in {Absent, NewTarget}

LEMMA DropsNext ==
  ASSUME TypeOK, Next, NEW c \in Callers, reply[c] # "canceled", reply'[c] = "canceled"
  PROVE  MayDrop(c)
<1>0. /\ reply' # reply /\ tgt \in [Targets -> Target]
      /\ \A C, r : Resolved(C, r)[c] = "canceled" => c \in C /\ r = "canceled"
  BY TgtType DEF Resolved
<1>1. ASSUME NEW d \in Callers,
             BrowserCommand(d) \/ FetchTargets(d) \/ CloseBrowser(d) \/ CreatePage(d)
      PROVE  MayDrop(c)
  <2>1. Full /\ c = d /\ asked[d] = "idle"
    BY <1>0, <1>1 DEF BrowserCommand, FetchTargets, CloseBrowser, CreatePage, Ask
  <2> QED BY <2>1 DEF Full, Refused, MayDrop
<1>2. ASSUME NEW t \in Targets, NEW d \in Callers,
             PageSends(d, t) \/ TakeCommand(t, d) \/ TakeNavigate(t, d) \/ TakeClosing(t, d)
             \/ NavigationRequest(t, d)
      PROVE  MayDrop(c)
  <2>1. /\ mode = "run" /\ UNCHANGED wireVars /\ c = d
        /\ d \in tgt[t].inbox /\ d \notin tgt'[t].inbox
        /\ \/ tgt[t].init = "Closing"
           \/ tgt[t].init = "Initialized" /\ asked[d] = "PageCommand"
    <3>1. CASE TakeCommand(t, d)
      BY <1>0, <3>1 DEF TakeCommand, Takes, Full
    <3>2. CASE TakeClosing(t, d)
      <4>1. /\ mode = "run" /\ UNCHANGED wireVars /\ c = d /\ tgt[t].init = "Closing"
            /\ d \in tgt[t].inbox /\ tgt' = [tgt EXCEPT ![t].inbox = @ \ {d}]
        BY <1>0, <3>2 DEF TakeClosing
      <4> QED BY <1>0, <4>1 DEF Target
    <3>3. CASE PageSends(d, t) \/ TakeNavigate(t, d) \/ NavigationRequest(t, d)
      BY <1>0, <3>3 DEF PageSends, TakeNavigate, NavigationRequest, callerVars
    <3> QED BY <1>2, <3>1, <3>2, <3>3
  <2> QED BY <2>1 DEF Refused, MayDrop
<1>3. ASSUME NEW t \in Targets,
             \/ GetPage(t) \/ PollAttach(t) \/ PollInit(t) \/ PollInitFailed(t) \/ PollInitiator(t)
             \/ NavigationLoaded(t) \/ NavigationFailed(t)
      PROVE  MayDrop(c)
  BY <1>0, <1>3
  DEF GetPage, PollAttach, PollInit, PollInitFailed, PollInitiator, NavigationLoaded,
      NavigationFailed, callerVars
<1>4. ASSUME NEW i \in CallId, OnResponse(i)
      PROVE  MayDrop(c)
  <2>1. CASE AnswerGetTargets(i)
    <3>1. PICK T \in SUBSET Targets : /\ Create(T)
                                      /\ c \in DroppedBy(T)
      BY <1>0, <2>1 DEF AnswerGetTargets
    <3>2. PICK t \in T : c \in DroppedWith(t)
      BY <3>1 DEF DroppedBy
    <3> QED BY <3>1, <3>2 DEF Create, MayDrop
  <2>2. CASE AnswerCreate(i)
    BY <2>2 DEF AnswerCreate, Resolved
  <2>3. CASE AnswerNavigate(i) \/ AnswerCommand(i) \/ AnswerCloseBrowser(i)
    BY <2>3 DEF AnswerNavigate, OnNavigationResponse, AnswerCommand, AnswerCloseBrowser, Resolved
  <2>4. CASE AnswerAttach(i) \/ AnswerInit(i) \/ AnswerCloseTarget(i)
    BY <2>4 DEF AnswerAttach, AnswerInit, AnswerCloseTarget, callerVars
  <2> QED BY <1>4, <2>1, <2>2, <2>3, <2>4 DEF OnResponse
<1>5. ASSUME NEW t \in Targets, TargetCreated(t) \/ TargetDestroyed(t) \/ TargetCrashed(t)
      PROVE  MayDrop(c)
  <2>1. c \in DroppedWith(t)
    BY <1>0, <1>5 DEF TargetCreated, TargetDestroyed, TargetCrashed
  <2>2. tgt'[t] \in {Absent, NewTarget}
    BY <1>0, <1>5 DEF TargetCreated, TargetDestroyed, TargetCrashed, Create, Forget
  <2> QED BY <2>1, <2>2 DEF MayDrop
<1>6. CASE Stop
  BY <1>6 DEF Stop, MayDrop
<1>7. CASE \/ DisposeContext \/ (\E I \in SUBSET CallId : Evict(I))
           \/ \E s \in Sessions : DetachedFromTarget(s) \/ \E t \in Targets : AttachedToTarget(s, t)
  BY <1>7 DEF DisposeContext, Evict, DetachedFromTarget, AttachedToTarget, callerVars, Resolved
<1> QED
  BY <1>1, <1>2, <1>3, <1>4, <1>5, <1>6, <1>7 DEF Next, Shutdown, ConnectionLost

(* A sender is dropped unanswered only when the handler ends, with the     *)
(* target that held it, or, in run(), when the new message of the Browser  *)
(* or the page command just taken does not fit the channel to the writer,  *)
(* or the target it was taken from is closing.  What is pending and what   *)
(* navigates is not dropped.                                               *)
THEOREM DropsAreDue == Spec => NoSilentDrop
<1>1. TypeOK /\ [Next]_vars =>
        [\A c \in Callers :
           reply[c] # "canceled" /\ reply'[c] = "canceled" =>
             \/ stopped'
             \/ Refused(c)
             \/ \E t \in Targets : c \in DroppedWith(t) /\ tgt'[t] \in {Absent, NewTarget}]_vars
  BY DropsNext DEF MayDrop
<1> QED
  BY <1>1, InitType, StepType, PTL DEF Spec, NoSilentDrop

=============================================================================
