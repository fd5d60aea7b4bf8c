--------------------------- MODULE HandlerProofs ---------------------------
(***************************************************************************)
(* Theorems about Handler.tla for every set of callers, targets and        *)
(* sessions and every bound on the calls.                                  *)
(***************************************************************************)
EXTENDS Handler, TLAPS

-----------------------------------------------------------------------------
(* Facts about the helpers.                                                *)

(* Commands are numbered within the bound and filed under their number.    *)
LEMMA SubmitType ==
  ASSUME TypeOK, NEW p \in PendingRequest, Submit(p)
  PROVE  nextId' \in 0 .. MaxCalls /\ pending' \in [CallId -> PendingRequest]
BY MaxCallsAssumption DEF TypeOK, Submit, CallId

(* What a full channel leaves behind is what was there.                    *)
LEMMA WireType ==
  ASSUME TypeOK, UNCHANGED wireVars
  PROVE  nextId' \in 0 .. MaxCalls /\ pending' \in [CallId -> PendingRequest]
BY DEF TypeOK, wireVars

LEMMA NoPendingType == NoPending \in PendingRequest
BY DEF NoPending, Pending, PendingRequest, PendingKinds, Owning, Internal

(* Taking entries out of pending_commands.                                 *)
LEMMA WithoutType ==
  ASSUME TypeOK, NEW I
  PROVE  Without(I) \in [CallId -> PendingRequest]
BY NoPendingType DEF TypeOK, Without

(* Resolving one-shots with one of the replies.                            *)
LEMMA ResolvedType ==
  ASSUME TypeOK, NEW C, NEW r \in P!Replies
  PROVE  Resolved(C, r) \in [Callers -> P!Replies \union {"none"}]
BY DEF TypeOK, Resolved, P!TypeOK

(* Every new or forgotten Target is one.                                   *)
LEMMA NewTargetType == NewTarget \in Target /\ Absent \in Target
BY DEF NewTarget, Absent, Target, InitStates

LEMMA TgtType == TypeOK => tgt \in [Targets -> Target]
BY DEF TypeOK

LEMMA SentType ==
  ASSUME TypeOK, NEW c \in Callers
  PROVE  [sentNav EXCEPT ![c] = @ + 1] \in [Callers -> Nat]
<1>1. sentNav \in [Callers -> Nat]
  BY DEF TypeOK
<1> QED
  BY <1>1

LEMMA InitType == Init => TypeOK
<1> SUFFICES ASSUME Init PROVE TypeOK
  OBVIOUS
<1>2. pending \in [CallId -> PendingRequest] /\ nextId \in 0 .. MaxCalls
  BY NoPendingType, MaxCallsAssumption DEF Init
<1>3. tgt \in [Targets -> Target]
  BY NewTargetType DEF Init
<1>4. P!TypeOK
  BY DEF Init, P!Init, P!TypeOK, P!Requests, P!Replies
<1>5. link \in [Sessions -> Link]
  BY DEF Init, Link
<1>6. sentNav \in [Callers -> Nat] /\ navigations \in [Callers -> NavStates]
  BY DEF Init, NavStates
<1>7. /\ mode \in {"stream", "run"} /\ closing \in {"no", "close", "dispose"}
      /\ stopped \in BOOLEAN
  BY DEF Init
<1>8. /\ sessions \in [Sessions -> Targets \union {None}]
      /\ world \in [Targets -> {"unborn", "hidden", "live", "gone"}]
  BY DEF Init
<1>9. /\ claimed \in SUBSET Targets /\ answeredNav \in SUBSET Callers
      /\ loadedNav \in SUBSET Callers /\ homeless \in SUBSET Callers
  BY DEF Init
<1> QED
  BY <1>2, <1>3, <1>4, <1>5, <1>6, <1>7, <1>8, <1>9 DEF TypeOK

(* A request changes what was asked to a request, and nothing else.        *)
LEMMA AskType ==
  ASSUME TypeOK, NEW c, NEW k \in P!Requests, Ask(c, k)
  PROVE  asked' \in [Callers -> P!Requests \union {"idle"}]
BY DEF TypeOK, Ask, P!TypeOK

(* The entries the handler files: with the sender of a caller, with a      *)
(* navigation, or with the target of an internal command.                  *)
LEMMA PendingType ==
  /\ \A req \in Owning, c \in Callers, t \in Targets \union {None} :
       Pending(req, c, t) \in PendingRequest
  /\ \A c \in Callers : Pending("Navigate", c, None) \in PendingRequest
  /\ \A req \in Internal, t \in Targets : Pending(req, None, t) \in PendingRequest
BY NoneAssumption DEF Pending, PendingRequest, PendingKinds, Owning, Internal

LEMMA RequestsType ==
  ASSUME TypeOK, NEW c \in Callers,
         BrowserCommand(c) \/ FetchTargets(c) \/ CloseBrowser(c) \/ CreatePage(c)
  PROVE  TypeOK'
<1>1. CASE BrowserCommand(c)
  <2>1. asked' \in [Callers -> P!Requests \union {"idle"}]
    BY <1>1, AskType DEF BrowserCommand, P!Requests, P!Commands
  <2>2. /\ nextId' \in 0 .. MaxCalls /\ pending' \in [CallId -> PendingRequest]
        /\ reply' \in [Callers -> P!Replies \union {"none"}]
    <3>1. ASSUME NEW t \in {None} \union {sessions[s] : s \in Sessions}
          PROVE  Pending("ExternalCommand", c, t) \in PendingRequest
      BY PendingType DEF TypeOK, Owning
    <3> QED
      BY <1>1, <3>1, SubmitType, WireType, ResolvedType
      DEF BrowserCommand, Full, TypeOK, P!TypeOK, P!Replies
  <2> QED
    BY <1>1, <2>1, <2>2
    DEF BrowserCommand, TypeOK, P!TypeOK, loopVars, browserVars, histVars
<1>2. CASE FetchTargets(c)
  <2>1. Pending("GetTargets", c, None) \in PendingRequest
    BY PendingType DEF Owning
  <2> QED
    BY <1>2, <2>1, AskType, SubmitType, WireType, ResolvedType
    DEF FetchTargets, Full, TypeOK, P!TypeOK, P!Requests, P!Replies,
        loopVars, browserVars, histVars
<1>3. CASE CloseBrowser(c)
  <2>1. Pending("CloseBrowser", c, None) \in PendingRequest
    BY PendingType DEF Owning
  <2> QED
    BY <1>3, <2>1, AskType, SubmitType, WireType, ResolvedType
    DEF CloseBrowser, Full, TypeOK, P!TypeOK, P!Requests, P!Replies,
        loopVars, browserVars, histVars
<1>4. CASE CreatePage(c)
  <2>1. Pending("CreateTarget", c, None) \in PendingRequest
    BY PendingType DEF Owning
  <2> QED
    BY <1>4, <2>1, AskType, SubmitType, WireType, ResolvedType
    DEF CreatePage, Full, TypeOK, P!TypeOK, P!Requests, P!Replies,
        loopVars, browserVars, histVars
<1> QED
  BY <1>1, <1>2, <1>3, <1>4

LEMMA GetPageType ==
  ASSUME TypeOK, NEW t \in Targets, GetPage(t)
  PROVE  TypeOK'
<1>1. tgt' \in [Targets -> Target]
  BY DEF GetPage, TypeOK, Target
<1> QED
  BY <1>1 DEF GetPage, TypeOK, P!TypeOK, loopVars, wireVars, callerVars, browserVars, histVars

LEMMA DisposeContextType ==
  ASSUME TypeOK, DisposeContext
  PROVE  TypeOK'
BY DEF DisposeContext, TypeOK, P!TypeOK, wireVars, callerVars, browserVars, histVars

(* The page channel of a target, from its sender to the queue of the       *)
(* FrameManager.                                                           *)
LEMMA ChannelType ==
  ASSUME TypeOK, NEW t \in Targets, NEW c \in Callers,
         PageSends(c, t) \/ TakeCommand(t, c) \/ TakeNavigate(t, c) \/ TakeClosing(t, c)
  PROVE  TypeOK'
<1>1. CASE PageSends(c, t)
  <2>1. tgt' \in [Targets -> Target]
    BY <1>1 DEF PageSends, TypeOK, Target
  <2> QED
    BY <1>1, <2>1, AskType
    DEF PageSends, TypeOK, P!TypeOK, P!Requests, P!Commands, loopVars, wireVars, browserVars,
        histVars
<1>2. CASE TakeCommand(t, c)
  <2>1. [tgt[t] EXCEPT !.inbox = @ \ {c}] \in Target
    BY TgtType DEF Target
  <2>2. tgt' \in [Targets -> Target]
    BY <1>2, <2>1, TgtType DEF TakeCommand
  <2>3. Pending("ExternalCommand", c, IF mode = "run" THEN t ELSE sessions[tgt[t].page])
          \in PendingRequest
    BY <1>2, PendingType DEF TakeCommand, Takes, TypeOK, Owning, Target
  <2> QED
    BY <1>2, <2>2, <2>3, SubmitType, WireType, ResolvedType
    DEF TakeCommand, Full, TypeOK, P!TypeOK, P!Replies, loopVars, browserVars, histVars
<1>3. CASE TakeNavigate(t, c)
  <2>1. [tgt[t] EXCEPT !.inbox = @ \ {c},
                       !.queued = IF tgt[t].frame THEN @ \union {c} ELSE @] \in Target
    BY TgtType DEF Target
  <2>2. tgt' \in [Targets -> Target]
    BY <1>3, <2>1, TgtType DEF TakeNavigate
  <2>3. /\ navigations' \in [Callers -> NavStates]
        /\ homeless' \in SUBSET Callers
        /\ sentNav' \in [Callers -> Nat]
    BY <1>3 DEF TakeNavigate, TypeOK, NavStates, Full
  <2>4. Pending("Navigate", c, None) \in PendingRequest
    BY PendingType
  <2>5. nextId' \in 0 .. MaxCalls /\ pending' \in [CallId -> PendingRequest]
    BY <1>3, <2>4, SubmitType, WireType DEF TakeNavigate
  <2> QED
    BY <1>3, <2>2, <2>3, <2>5
    DEF TakeNavigate, TypeOK, P!TypeOK, loopVars, callerVars, browserVars
<1>4. CASE TakeClosing(t, c)
  <2>1. [tgt[t] EXCEPT !.inbox = @ \ {c}] \in Target
    BY TgtType DEF Target
  <2>2. tgt' \in [Targets -> Target]
    BY <1>4, <2>1, TgtType DEF TakeClosing
  <2> QED
    BY <1>4, <2>2, ResolvedType
    DEF TakeClosing, TypeOK, P!TypeOK, P!Replies, loopVars, wireVars, browserVars, histVars
<1> QED
  BY <1>1, <1>2, <1>3, <1>4

(* The initialization of a target.                                         *)
LEMMA PollType ==
  ASSUME TypeOK, NEW t \in Targets,
         PollAttach(t) \/ PollInit(t) \/ PollInitFailed(t) \/ PollInitiator(t)
  PROVE  TypeOK'
<1>0. \A req \in Internal : Pending(req, None, t) \in PendingRequest
  BY PendingType
<1>1. CASE PollAttach(t)
  <2>1. [tgt[t] EXCEPT !.init = "InitializingFrame"] \in Target
    BY TgtType DEF Target, InitStates
  <2>2. tgt' \in [Targets -> Target]
    BY <1>1, <2>1, TgtType DEF PollAttach
  <2> QED
    BY <1>0, <1>1, <2>2, SubmitType, WireType
    DEF PollAttach, Internal, Full, TypeOK, P!TypeOK, loopVars, callerVars, browserVars, histVars
<1>2. CASE PollInit(t)
  <2>1. [tgt[t] EXCEPT !.init = "Initializing"] \in Target
    BY TgtType DEF Target, InitStates
  <2>2. tgt' \in [Targets -> Target]
    BY <1>2, <2>1, TgtType DEF PollInit
  <2> QED
    BY <1>0, <1>2, <2>2, SubmitType, WireType
    DEF PollInit, Internal, Full, TypeOK, P!TypeOK, loopVars, callerVars, browserVars, histVars
<1>3. CASE PollInitFailed(t)
  <2>1. [tgt[t] EXCEPT !.init = "Closing", !.initiator = None] \in Target
    BY TgtType DEF Target, InitStates
  <2>2. tgt' \in [Targets -> Target]
    BY <1>3, <2>1, TgtType DEF PollInitFailed
  <2> QED
    BY <1>0, <1>3, <2>2, SubmitType, WireType, ResolvedType
    DEF PollInitFailed, Internal, Full, TypeOK, P!TypeOK, P!Replies, loopVars, browserVars,
        histVars
<1>4. CASE PollInitiator(t)
  <2>1. [tgt[t] EXCEPT !.initiator = None,
                       !.page = IF @ = None THEN tgt[t].session ELSE @] \in Target
    BY <1>4, TgtType DEF PollInitiator, Target
  <2>2. tgt' \in [Targets -> Target]
    BY <1>4, <2>1, TgtType DEF PollInitiator
  <2> QED
    BY <1>4, <2>2, ResolvedType
    DEF PollInitiator, TypeOK, P!TypeOK, P!Replies, loopVars, wireVars, browserVars, histVars
<1> QED
  BY <1>1, <1>2, <1>3, <1>4

(* The navigations of a FrameManager.                                      *)
LEMMA NavigationType ==
  ASSUME TypeOK, NEW t \in Targets,
         \/ \E c \in Callers : NavigationRequest(t, c)
         \/ NavigationLoaded(t)
         \/ NavigationFailed(t)
  PROVE  TypeOK'
<1>1. ASSUME NEW c \in Callers, NavigationRequest(t, c)
      PROVE  TypeOK'
  <2>1. [tgt[t] EXCEPT !.queued = @ \ {c}, !.active = c] \in Target
    BY TgtType DEF Target
  <2>2. tgt' \in [Targets -> Target]
    BY <1>1, <2>1, TgtType DEF NavigationRequest
  <2>3. Pending("Navigate", c, None) \in PendingRequest
    BY PendingType
  <2>4. nextId' \in 0 .. MaxCalls /\ pending' \in [CallId -> PendingRequest]
    BY <1>1, <2>3, SubmitType, WireType DEF NavigationRequest, Full
  <2>5. sentNav' \in [Callers -> Nat]
    <3>1. CASE sentNav' = [sentNav EXCEPT ![c] = @ + 1]
      BY <3>1, SentType
    <3>2. CASE UNCHANGED sentNav
      BY <3>2 DEF TypeOK
    <3> QED
      BY <1>1, <3>1, <3>2 DEF NavigationRequest
  <2>6. P!TypeOK'
    BY <1>1 DEF NavigationRequest, TypeOK, P!TypeOK, callerVars
  <2>7. UNCHANGED <<loopVars, sessions, navigations, browserVars, answeredNav, loadedNav, homeless>>
    BY <1>1 DEF NavigationRequest
  <2> QED
    BY <2>2, <2>4, <2>5, <2>6, <2>7 DEF TypeOK, loopVars, browserVars
<1>2. [tgt[t] EXCEPT !.active = None] \in Target /\ tgt[t].active \in Callers \union {None}
  BY DEF TypeOK, Target
<1>3. CASE NavigationLoaded(t)
  <2>1. tgt' \in [Targets -> Target]
    BY <1>2, <1>3, TgtType DEF NavigationLoaded
  <2>2. navigations' \in [Callers -> NavStates]
    BY <1>3 DEF NavigationLoaded, TypeOK, NavStates
  <2> QED
    BY <1>2, <1>3, <2>1, <2>2, ResolvedType
    DEF NavigationLoaded, TypeOK, P!TypeOK, P!Replies, loopVars, wireVars, browserVars
<1>4. CASE NavigationFailed(t)
  <2>1. tgt' \in [Targets -> Target]
    BY <1>2, <1>4, TgtType DEF NavigationFailed
  <2>2. navigations' \in [Callers -> NavStates]
    BY <1>4 DEF NavigationFailed, TypeOK, NavStates
  <2> QED
    BY <1>4, <2>1, <2>2, ResolvedType
    DEF NavigationFailed, TypeOK, P!TypeOK, P!Replies, loopVars, wireVars, browserVars, histVars
<1> QED
  BY <1>1, <1>3, <1>4

(* The answers of the browser.                                             *)
LEMMA AnswersType ==
  ASSUME TypeOK, NEW i \in CallId, NEW req, Answers(i, req)
  PROVE  /\ nextId' \in 0 .. MaxCalls /\ pending' \in [CallId -> PendingRequest]
         /\ mode' \in {"stream", "run"} /\ stopped' \in BOOLEAN
         /\ closing' \in {"no", "close", "dispose"}
<1>1. nextId' \in 0 .. MaxCalls /\ pending' \in [CallId -> PendingRequest]
  BY WithoutType DEF Answers, TypeOK
<1>2. mode' \in {"stream", "run"} /\ stopped' \in BOOLEAN
  BY DEF Answers, TypeOK
<1>3. closing' \in {"no", "close", "dispose"}
  BY DEF Answers, TypeOK
<1> QED
  BY <1>1, <1>2, <1>3

(* Whom an entry is about.                                                 *)
LEMMA OwnerType ==
  ASSUME TypeOK, NEW i \in CallId
  PROVE  /\ pending[i].tx \in Callers \union {None}
         /\ pending[i].target \in Targets \union {None}
         /\ pending[i].req \in Owning \union {"Navigate"} => pending[i].tx \in Callers
         /\ pending[i].req \in Internal => pending[i].target \in Targets
BY DEF TypeOK, PendingRequest

LEMMA AnswerCreateType ==
  ASSUME TypeOK, NEW i \in CallId, AnswerCreate(i)
  PROVE  TypeOK'
<1>1. tgt' \in [Targets -> Target]
  <2>1. ASSUME NEW t \in Targets
        PROVE  [tgt[t] EXCEPT !.initiator = pending[i].tx] \in Target
    BY TgtType, OwnerType DEF Target
  <2> QED
    BY <2>1, TgtType DEF AnswerCreate
<1>2. world' \in [Targets -> {"unborn", "hidden", "live", "gone"}] /\ claimed' \in SUBSET Targets
  BY DEF AnswerCreate, TypeOK
<1>3. P!TypeOK'
  BY ResolvedType DEF AnswerCreate, TypeOK, P!TypeOK, P!Replies
<1>4. /\ nextId' \in 0 .. MaxCalls /\ pending' \in [CallId -> PendingRequest]
      /\ mode' \in {"stream", "run"} /\ stopped' \in BOOLEAN
      /\ closing' \in {"no", "close", "dispose"}
  BY AnswersType DEF AnswerCreate
<1>5. UNCHANGED <<sessions, navigations, link, histVars>>
  BY DEF AnswerCreate
<1> QED
  BY <1>1, <1>2, <1>3, <1>4, <1>5 DEF TypeOK, histVars

LEMMA CreateType ==
  ASSUME TypeOK, NEW T, Create(T)
  PROVE  tgt' \in [Targets -> Target]
BY TgtType, NewTargetType DEF Create

LEMMA TrackedType ==
  ASSUME TypeOK, NEW t \in Targets
  PROVE  Tracked(t) \in SUBSET Callers
BY TgtType DEF Tracked, Target

LEMMA AnswerGetTargetsType ==
  ASSUME TypeOK, NEW i \in CallId, AnswerGetTargets(i)
  PROVE  TypeOK'
<1>1. tgt' \in [Targets -> Target]
  BY TgtType, CreateType DEF AnswerGetTargets
<1>2. homeless' \in SUBSET Callers
  BY TrackedType DEF AnswerGetTargets, UntrackedBy, TypeOK
<1>3. P!TypeOK'
  BY ResolvedType DEF AnswerGetTargets, TypeOK, P!TypeOK, P!Replies
<1>4. /\ nextId' \in 0 .. MaxCalls /\ pending' \in [CallId -> PendingRequest]
      /\ mode' \in {"stream", "run"} /\ stopped' \in BOOLEAN
      /\ closing' \in {"no", "close", "dispose"}
  BY AnswersType DEF AnswerGetTargets
<1>5. UNCHANGED <<sessions, navigations, browserVars, sentNav, answeredNav, loadedNav>>
  BY DEF AnswerGetTargets
<1> QED
  BY <1>1, <1>2, <1>3, <1>4, <1>5 DEF TypeOK, browserVars

LEMMA AnswerAttachType ==
  ASSUME TypeOK, NEW i \in CallId, AnswerAttach(i)
  PROVE  TypeOK'
<1>1. tgt' \in [Targets -> Target]
  <2>1. ASSUME NEW s \in Sessions, NEW t \in Targets
        PROVE  [tgt[t] EXCEPT !.session = s] \in Target
    BY TgtType DEF Target
  <2>2. ASSUME NEW s \in Sessions
        PROVE  [tgt EXCEPT ![pending[i].target].session = s] \in [Targets -> Target]
    BY <2>1, TgtType, OwnerType
  <2>3. \/ UNCHANGED tgt
        \/ \E s \in Sessions : tgt' = [tgt EXCEPT ![pending[i].target].session = s]
    BY DEF AnswerAttach
  <2> QED
    BY <2>2, <2>3, TgtType
<1>2. link' \in [Sessions -> Link]
  <2>1. link \in [Sessions -> Link]
    BY DEF TypeOK
  <2>2. \A s \in Sessions, u \in {"free", "quiet", "open", "closed"} :
          [at |-> pending[i].target, by |-> None, st |-> u] \in Link
    BY OwnerType DEF Link
  <2>3. \A s \in Sessions : link[s].st \in {"free", "quiet", "open", "closed"}
    BY <2>1 DEF Link
  <2>4. ASSUME NEW s \in Sessions, NEW made,
               link' = [link EXCEPT ![s] = [at |-> pending[i].target, by |-> None,
                                            st |-> IF s \in made THEN @.st ELSE "quiet"]]
        PROVE  link' \in [Sessions -> Link]
    BY <2>1, <2>2, <2>3, <2>4
  <2>5. CASE UNCHANGED link
    BY <2>1, <2>5
  <2> QED
    BY <2>4, <2>5 DEF AnswerAttach
<1>3. /\ nextId' \in 0 .. MaxCalls /\ pending' \in [CallId -> PendingRequest]
      /\ mode' \in {"stream", "run"} /\ stopped' \in BOOLEAN
      /\ closing' \in {"no", "close", "dispose"}
  BY AnswersType DEF AnswerAttach
<1>4. UNCHANGED <<sessions, navigations, callerVars, world, claimed, histVars>>
  BY DEF AnswerAttach
<1> QED
  BY <1>1, <1>2, <1>3, <1>4 DEF TypeOK, P!TypeOK, callerVars, histVars

LEMMA AnswerInitType ==
  ASSUME TypeOK, NEW i \in CallId, AnswerInit(i)
  PROVE  TypeOK'
<1>1. tgt' \in [Targets -> Target]
  <2>1. ASSUME NEW f \in BOOLEAN, NEW t \in Targets
        PROVE  [tgt[t] EXCEPT !.init = "Initialized", !.frame = f] \in Target
    BY TgtType DEF Target, InitStates
  <2>2. ASSUME NEW f \in BOOLEAN
        PROVE  [tgt EXCEPT ![pending[i].target] =
                  [@ EXCEPT !.init = "Initialized", !.frame = f]] \in [Targets -> Target]
    BY <2>1, TgtType, OwnerType
  <2> QED
    BY <2>2, TgtType DEF AnswerInit
<1>2. /\ nextId' \in 0 .. MaxCalls /\ pending' \in [CallId -> PendingRequest]
      /\ mode' \in {"stream", "run"} /\ stopped' \in BOOLEAN
      /\ closing' \in {"no", "close", "dispose"}
  BY AnswersType DEF AnswerInit
<1> QED
  BY <1>1, <1>2
  DEF AnswerInit, TypeOK, P!TypeOK, callerVars, browserVars, histVars

LEMMA AnswerNavigateType ==
  ASSUME TypeOK, NEW i \in CallId, AnswerNavigate(i)
  PROVE  TypeOK'
<1>1. pending[i].tx \in Callers
  BY OwnerType DEF AnswerNavigate, Answers
<1>2. navigations' \in [Callers -> NavStates] /\ P!TypeOK'
  <2>1. OnNavigationResponse(pending[i].tx) /\ UNCHANGED asked
    BY DEF AnswerNavigate
  <2> QED
    BY <1>1, <2>1, ResolvedType
    DEF OnNavigationResponse, TypeOK, NavStates, P!TypeOK, P!Replies
<1>3. answeredNav' \in SUBSET Callers
  BY <1>1 DEF AnswerNavigate, TypeOK
<1>4. /\ nextId' \in 0 .. MaxCalls /\ pending' \in [CallId -> PendingRequest]
      /\ mode' \in {"stream", "run"} /\ stopped' \in BOOLEAN
      /\ closing' \in {"no", "close", "dispose"}
  BY AnswersType DEF AnswerNavigate
<1>5. UNCHANGED <<tgt, sessions, browserVars, sentNav, loadedNav, homeless>>
  BY DEF AnswerNavigate
<1> QED
  BY <1>2, <1>3, <1>4, <1>5 DEF TypeOK, browserVars

LEMMA OnResponseType ==
  ASSUME TypeOK, NEW i \in CallId, OnResponse(i)
  PROVE  TypeOK'
<1>1. CASE AnswerCommand(i)
  BY <1>1, AnswersType, ResolvedType
  DEF AnswerCommand, TypeOK, P!TypeOK, P!Replies, browserVars, histVars
<1>2. CASE AnswerCloseTarget(i)
  BY <1>2, AnswersType
  DEF AnswerCloseTarget, TypeOK, P!TypeOK, callerVars, browserVars, histVars
<1>3. CASE AnswerCloseBrowser(i)
  BY <1>3, AnswersType, ResolvedType
  DEF AnswerCloseBrowser, TypeOK, P!TypeOK, P!Replies, browserVars, histVars
<1> QED
  BY <1>1, <1>2, <1>3, AnswerCreateType, AnswerGetTargetsType, AnswerNavigateType,
     AnswerAttachType, AnswerInitType
  DEF OnResponse

(* The events about targets.                                               *)
LEMMA ForgetType ==
  ASSUME TypeOK, NEW t \in Targets, Forget(t)
  PROVE  /\ tgt' \in [Targets -> Target]
         /\ sessions' \in [Sessions -> Targets \union {None}]
         /\ homeless' \in SUBSET Callers
<1>1. tgt' \in [Targets -> Target]
  BY TgtType, NewTargetType DEF Forget
<1>2. sessions' \in [Sessions -> Targets \union {None}]
  BY DEF Forget, TypeOK
<1>3. homeless' \in SUBSET Callers
  BY TrackedType DEF Forget, TypeOK
<1> QED
  BY <1>1, <1>2, <1>3

LEMMA TargetEventType ==
  ASSUME TypeOK, NEW t \in Targets, TargetCreated(t) \/ TargetDestroyed(t) \/ TargetCrashed(t)
  PROVE  TypeOK'
<1>1. CASE TargetCreated(t)
  <2>1. tgt' \in [Targets -> Target]
    BY <1>1, CreateType, TgtType DEF TargetCreated
  <2>2. world' \in [Targets -> {"unborn", "hidden", "live", "gone"}]
        /\ homeless' \in SUBSET Callers
    BY <1>1, TrackedType DEF TargetCreated, TypeOK
  <2>3. P!TypeOK'
    BY <1>1, ResolvedType DEF TargetCreated, TypeOK, P!TypeOK, P!Replies
  <2> QED
    BY <1>1, <2>1, <2>2, <2>3 DEF TargetCreated, TypeOK, loopVars, wireVars
<1>2. CASE TargetDestroyed(t)
  <2>1. world' \in [Targets -> {"unborn", "hidden", "live", "gone"}]
    BY <1>2 DEF TargetDestroyed, TypeOK
  <2>2. P!TypeOK'
    BY <1>2, ResolvedType DEF TargetDestroyed, TypeOK, P!TypeOK, P!Replies
  <2> QED
    BY <1>2, <2>1, <2>2, ForgetType DEF TargetDestroyed, TypeOK, loopVars, wireVars
<1>3. CASE TargetCrashed(t)
  <2>1. P!TypeOK'
    BY <1>3 DEF TargetCrashed, TypeOK, P!TypeOK, P!Replies
  <2>2. pending' \in [CallId -> PendingRequest]
    BY <1>3, WithoutType DEF TargetCrashed
  <2> QED
    BY <1>3, <2>1, <2>2, ForgetType DEF TargetCrashed, TypeOK, loopVars, browserVars
<1> QED
  BY <1>1, <1>2, <1>3

LEMMA SessionEventType ==
  ASSUME TypeOK, NEW s \in Sessions,
         (\E t \in Targets : AttachedToTarget(s, t)) \/ DetachedFromTarget(s)
  PROVE  TypeOK'
<1>1. ASSUME NEW t \in Targets, AttachedToTarget(s, t)
      PROVE  TypeOK'
  <2>1. [tgt[t] EXCEPT !.session = s] \in Target
    BY TgtType DEF Target
  <2>2. tgt' \in [Targets -> Target]
    BY <1>1, <2>1, TgtType DEF AttachedToTarget
  <2>3. link' \in [Sessions -> Link]
    <3>1. link \in [Sessions -> Link]
      BY DEF TypeOK
    <3>2. [link[s] EXCEPT !.st = "open"] \in Link
      BY <3>1 DEF Link
    <3>3. ASSUME NEW i \in AttachCalls(t) \union {None}
          PROVE  [at |-> t, by |-> i, st |-> "open"] \in Link
      BY DEF Link, AttachCalls
    <3> QED
      BY <1>1, <3>1, <3>2, <3>3 DEF AttachedToTarget
  <2>4. sessions' \in [Sessions -> Targets \union {None}]
    BY <1>1 DEF AttachedToTarget, TypeOK
  <2>5. UNCHANGED <<loopVars, wireVars, navigations, callerVars, world, claimed, histVars>>
    BY <1>1 DEF AttachedToTarget
  <2> QED
    BY <2>2, <2>3, <2>4, <2>5
    DEF TypeOK, P!TypeOK, loopVars, wireVars, callerVars, histVars
<1>2. CASE DetachedFromTarget(s)
  <2>1. ASSUME NEW t \in Targets
        PROVE  [tgt[t] EXCEPT !.session = None] \in Target
    BY TgtType DEF Target
  <2>2. tgt' \in [Targets -> Target]
    BY <1>2, <2>1, TgtType DEF DetachedFromTarget, TypeOK
  <2>3. link' \in [Sessions -> Link]
    <3>1. link \in [Sessions -> Link]
      BY DEF TypeOK
    <3>2. [at |-> None, by |-> None, st |-> "closed"] \in Link
      BY DEF Link
    <3> QED
      BY <1>2, <3>1, <3>2 DEF DetachedFromTarget
  <2>4. sessions' \in [Sessions -> Targets \union {None}]
    BY <1>2 DEF DetachedFromTarget, TypeOK
  <2>5. UNCHANGED <<loopVars, wireVars, navigations, callerVars, world, claimed, histVars>>
    BY <1>2 DEF DetachedFromTarget
  <2> QED
    BY <2>2, <2>3, <2>4, <2>5
    DEF TypeOK, P!TypeOK, loopVars, wireVars, callerVars, histVars
<1> QED
  BY <1>1, <1>2

(* The eviction and the end.                                               *)
LEMMA EvictType ==
  ASSUME TypeOK, NEW I \in SUBSET CallId, Evict(I)
  PROVE  TypeOK'
<1>1. pending' \in [CallId -> PendingRequest]
  BY WithoutType DEF Evict
<1>2. navigations' \in [Callers -> NavStates]
  BY DEF Evict, TypeOK, NavStates
<1>3. P!TypeOK'
  BY ResolvedType DEF Evict, TypeOK, P!TypeOK, P!Replies
<1> QED
  BY <1>1, <1>2, <1>3 DEF Evict, TypeOK, loopVars, browserVars, histVars

LEMMA StopType ==
  ASSUME TypeOK, Stop
  PROVE  TypeOK'
<1>1. P!TypeOK'
  BY ResolvedType DEF Stop, TypeOK, P!TypeOK, P!Replies
<1>2. pending' \in [CallId -> PendingRequest] /\ tgt' \in [Targets -> Target]
  BY WithoutType, NewTargetType DEF Stop
<1>3. /\ sessions' \in [Sessions -> Targets \union {None}]
      /\ navigations' \in [Callers -> NavStates]
  BY DEF Stop, NavStates
<1> QED
  BY <1>1, <1>2, <1>3 DEF Stop, TypeOK, browserVars, histVars

LEMMA StepType == TypeOK /\ [Next]_vars => TypeOK'
<1> SUFFICES ASSUME TypeOK, [Next]_vars
             PROVE  TypeOK'
  OBVIOUS
<1>1. CASE Next
  BY <1>1, RequestsType, GetPageType, DisposeContextType, ChannelType, PollType,
     NavigationType, OnResponseType, EvictType, TargetEventType, SessionEventType, StopType
  DEF Next, Shutdown, ConnectionLost
<1>2. CASE UNCHANGED vars
  BY <1>2
  DEF TypeOK, P!TypeOK, vars, loopVars, wireVars, callerVars, browserVars, histVars
<1> QED
  BY <1>1, <1>2

(* Every variable keeps its type: the ids stay within the bound, an entry  *)
(* of pending_commands names whom it resolves or which target it is for,   *)
(* and only a target with a page has messages in its page channel.         *)
THEOREM TypeCorrect == Spec => []TypeOK
BY InitType, StepType, PTL DEF Spec

=============================================================================
