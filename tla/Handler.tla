------------------------------ MODULE Handler ------------------------------
(***************************************************************************)
(* The event loop of src/handler/mod.rs: it numbers the commands it sends  *)
(* to the browser, keeps who waits for which answer, follows the browser's *)
(* targets and sessions, and resolves the one-shot channel of every        *)
(* request by an answer, by the periodic eviction, by the crash of a       *)
(* target or by its own end.                                               *)
(*                                                                         *)
(* The handler runs either as a Stream (poll_next) or as a task (run());   *)
(* both share the on_* methods and differ where `mode` is read.  Every     *)
(* step of the handler is one message or one target event, handled to the  *)
(* end; the order in which poll_next and run() take them is left open.     *)
(*                                                                         *)
(* Abstractions.  A caller stands for the one-shot sender of one request,  *)
(* and a NavigationId for the caller that navigates (next_navigation_id    *)
(* never repeats one).  Time is not counted: Evict takes any set of the    *)
(* pending commands (their time stamps need not follow their call ids, for *)
(* run() stamps them with the time its round began).  The chain of initialization   *)
(* commands of a target is one command; the FrameManager is its queue, its *)
(* active navigation and the results it may report at any time.  The       *)
(* browser context filter of on_target_created is a choice.                *)
(***************************************************************************)
EXTENDS Naturals, FiniteSets

CONSTANTS
  Callers,     \* one-shot senders: each is used for one request
  Targets,     \* target ids of the browser
  Sessions,    \* session ids of the browser, never reused
  MaxCalls,    \* bound: how many commands are sent to the browser
  None         \* no target, no session, no caller, no call

ASSUME NoneAssumption ==
  /\ None \notin Callers /\ None \notin Targets /\ None \notin Sessions
  /\ None \notin Nat

ASSUME MaxCallsAssumption == MaxCalls \in Nat

VARIABLES
  mode,        \* "stream" or "run": how the handler is driven
  nextId,      \* Connection::next_id / alloc_call_id
  pending,     \* pending_commands
  tgt,         \* targets: what the handler keeps for each, or Absent
  sessions,    \* sessions: the target of each session, or None
  navigations, \* navigations: state of each NavigationInProgress
  closing,     \* closing: "dispose" after DisposeContext, "close" for good
  stopped,     \* the handler has returned and is dropped
  asked,       \* what each caller requested
  reply,       \* how its one-shot was resolved
  world,       \* the browser's targets
  claimed,     \* targets already returned by a Target.createTarget answer
  link,        \* the browser's sessions
  sentNav,     \* history: Page.navigate commands sent per navigation
  answeredNav, \* history: navigations whose Page.navigate was answered
  loadedNav,   \* history: navigations the frame manager reported as loaded
  homeless     \* history: navigations no FrameManager tracks (any more)

callerVars  == <<asked, reply>>
browserVars == <<world, claimed, link>>
wireVars    == <<nextId, pending>>
histVars    == <<sentNav, answeredNav, loadedNav, homeless>>
loopVars    == <<mode, closing, stopped>>
vars == <<loopVars, wireVars, tgt, sessions, navigations, callerVars, browserVars, histVars>>

CallId == 0 .. MaxCalls - 1

(* PendingRequest.  An InternalCommand is listed by its method: the attach *)
(* command, the initialization command, or Target.closeTarget.             *)
Internal == {"Attach", "InitCommand", "CloseTarget"}
Owning == {"CreateTarget", "GetTargets", "ExternalCommand", "CloseBrowser"}
PendingKinds == Internal \union Owning \union {"Navigate", "none"}

Pending(req, tx, target) == [req |-> req, tx |-> tx, target |-> target]
NoPending == Pending("none", None, None)

PendingRequest ==
  {p \in [req : PendingKinds, tx : Callers \union {None}, target : Targets \union {None}] :
     /\ p.req \in Owning \union {"Navigate"} <=> p.tx # None
     /\ p.req \in Internal => p.target # None}

(* Target, with the parts of its FrameManager the handler depends on:      *)
(* inbox is the channel of its page, page the session the PageHandle was   *)
(* made with, frame whether it has a main frame.                           *)
InitStates ==
  {"absent", "AttachToTarget", "InitializingFrame", "Initializing", "Initialized", "Closing"}

Target ==
  {r \in [init : InitStates, session : Sessions \union {None}, page : Sessions \union {None},
          initiator : Callers \union {None}, inbox : SUBSET Callers, frame : BOOLEAN,
          queued : SUBSET Callers, active : Callers \union {None}] :
     r.inbox # {} => r.page # None}

NewTarget ==
  [init |-> "AttachToTarget", session |-> None, page |-> None, initiator |-> None,
   inbox |-> {}, frame |-> FALSE, queued |-> {}, active |-> None]

Absent == [NewTarget EXCEPT !.init = "absent"]

Known(t) == tgt[t].init # "absent"

NavStates == {"none", "started", "responded", "navigated"}

(* A session of the browser: its target, the attach command that made it   *)
(* while that is to be answered, and whether the attachedToTarget and      *)
(* detachedFromTarget events about it were read ("quiet": not yet).        *)
Link == [at : Targets \union {None}, by : CallId \union {None},
         st : {"free", "quiet", "open", "closed"}]

P == INSTANCE Promise

TypeOK ==
  /\ mode \in {"stream", "run"}
  /\ nextId \in 0 .. MaxCalls
  /\ pending \in [CallId -> PendingRequest]
  /\ tgt \in [Targets -> Target]
  /\ sessions \in [Sessions -> Targets \union {None}]
  /\ navigations \in [Callers -> NavStates]
  /\ closing \in {"no", "close", "dispose"}
  /\ stopped \in BOOLEAN
  /\ P!TypeOK
  /\ world \in [Targets -> {"unborn", "hidden", "live", "gone"}]
  /\ claimed \in SUBSET Targets
  /\ link \in [Sessions -> Link]
  /\ sentNav \in [Callers -> Nat]
  /\ answeredNav \in SUBSET Callers
  /\ loadedNav \in SUBSET Callers
  /\ homeless \in SUBSET Callers

Init ==
  /\ mode \in {"stream", "run"}
  /\ nextId = 0
  /\ pending = [i \in CallId |-> NoPending]
  /\ tgt = [t \in Targets |-> Absent]
  /\ sessions = [s \in Sessions |-> None]
  /\ navigations = [c \in Callers |-> "none"]
  /\ closing = "no"
  /\ stopped = FALSE
  /\ P!Init
  /\ world = [t \in Targets |-> "unborn"]
  /\ claimed = {}
  /\ link = [s \in Sessions |-> [at |-> None, by |-> None, st |-> "free"]]
  /\ sentNav = [c \in Callers |-> 0]
  /\ answeredNav = {}
  /\ loadedNav = {}
  /\ homeless = {}

-----------------------------------------------------------------------------
(* What the steps below are made of.                                       *)

(* A caller's channel is still open for an answer.                         *)
Waiting(c) == P!Waiting(c)

(* Resolve the one-shots of the callers in C with r; senders that were     *)
(* dropped are resolved as "canceled".                                     *)
Resolved(C, r) == [c \in Callers |-> IF c \in C THEN r ELSE reply[c]]

(* Messages are read while the handler is not closing.  run() leaves its   *)
(* select! at once; poll_next ends its round after a DisposeContext, unless *)
(* it reads a response, after which it returns.                            *)
Serving == ~stopped /\ (closing = "no" \/ (closing = "dispose" /\ mode = "stream"))

(* run() polls the targets once more before it breaks.                     *)
Polling == ~stopped /\ (closing # "close" \/ mode = "run")

Ask(c, k) == asked[c] = "idle" /\ asked' = [asked EXCEPT ![c] = k]

(* A faulty Submit: the call id is advanced by the caller as well.         *)
SubmitTwoIds(p) ==
  /\ nextId < MaxCalls
  /\ nextId' = nextId + 2
  /\ pending' = [pending EXCEPT ![nextId] = p]

(* submit_command: the command gets the next call id and is on its way.    *)
Submit(p) ==
  /\ nextId < MaxCalls
  /\ nextId' = nextId + 1
  /\ pending' = [pending EXCEPT ![nextId] = p]

(* Only run() can fail to hand a command over: try_send on a full channel. *)
Full == mode = "run" /\ UNCHANGED wireVars

(* The callers whose senders are dropped with the handler's Target.        *)
DroppedWith(t) == (tgt[t].inbox \union {tgt[t].initiator}) \ {None}

(* The navigations the FrameManager of t tracks.                           *)
Tracked(t) == (tgt[t].queued \union {tgt[t].active}) \ {None}

(* The callers released by an entry of pending that owns a sender.         *)
OwnersOf(I) == {pending[i].tx : i \in {j \in I : pending[j].req \in Owning}}

Without(I) == [i \in CallId |-> IF i \in I THEN NoPending ELSE pending[i]]

-----------------------------------------------------------------------------
(* Messages from the Browser handle (HandlerMessage).                      *)

(* A command sent through the browser: submit_external_command binds it to *)
(* the target its session belongs to, if the session is known by now.      *)
BrowserCommand(c) ==
  /\ Serving
  /\ Ask(c, "Command")
  /\ \/ /\ \E t \in {None} \union {sessions[s] : s \in Sessions} :
             Submit(Pending("ExternalCommand", c, t))
        /\ UNCHANGED reply
     \/ Full /\ reply' = Resolved({c}, "canceled")
  /\ UNCHANGED <<loopVars, tgt, sessions, navigations, browserVars, histVars>>

FetchTargets(c) ==
  /\ Serving
  /\ Ask(c, "FetchTargets")
  /\ \/ Submit(Pending("GetTargets", c, None)) /\ UNCHANGED reply
     \/ Full /\ reply' = Resolved({c}, "canceled")
  /\ UNCHANGED <<loopVars, tgt, sessions, navigations, browserVars, histVars>>

CloseBrowser(c) ==
  /\ Serving
  /\ Ask(c, "CloseBrowser")
  /\ \/ Submit(Pending("CloseBrowser", c, None)) /\ UNCHANGED reply
     \/ Full /\ reply' = Resolved({c}, "canceled")
  /\ UNCHANGED <<loopVars, tgt, sessions, navigations, browserVars, histVars>>

(* create_page and create_page_async: a url that is neither about:blank,   *)
(* http nor file is answered NotFound, a full channel with an error.       *)
CreatePage(c) ==
  /\ Serving
  /\ Ask(c, "CreatePage")
  /\ \/ Submit(Pending("CreateTarget", c, None)) /\ UNCHANGED reply
     \/ reply' = Resolved({c}, "not_found") /\ UNCHANGED wireVars
     \/ Full /\ reply' = Resolved({c}, "error")
  /\ UNCHANGED <<loopVars, tgt, sessions, navigations, browserVars, histVars>>

(* GetPage and GetPages make the page of a target that has a session.      *)
GetPage(t) ==
  /\ Serving
  /\ Known(t) /\ tgt[t].page = None /\ tgt[t].session # None
  /\ tgt' = [tgt EXCEPT ![t].page = tgt[t].session]
  /\ UNCHANGED <<loopVars, wireVars, sessions, navigations, callerVars, browserVars, histVars>>

DisposeContext ==
  /\ Serving /\ closing = "no"
  /\ closing' = "dispose"
  /\ UNCHANGED <<mode, stopped, wireVars, tgt, sessions, navigations, callerVars,
                 browserVars, histVars>>

-----------------------------------------------------------------------------
(* The page channel and the polling of the targets (TargetEvent).          *)

(* The page of t sends a command or a Page.navigate on its channel.        *)
PageSends(c, t) ==
  /\ ~stopped
  /\ Known(t) /\ tgt[t].page # None
  /\ \E k \in {"PageCommand", "Navigate"} : Ask(c, k)
  /\ tgt' = [tgt EXCEPT ![t].inbox = @ \union {c}]
  /\ UNCHANGED <<loopVars, wireVars, sessions, navigations, reply, browserVars, histVars>>

Takes(t, c) ==
  /\ Polling
  /\ tgt[t].init = "Initialized"
  /\ c \in tgt[t].inbox

(* TargetEvent::Command, not a navigation.  poll_next resolves the target  *)
(* through the session of the page, run() knows it.                        *)
TakeCommand(t, c) ==
  /\ Takes(t, c) /\ asked[c] = "PageCommand"
  /\ tgt' = [tgt EXCEPT ![t].inbox = @ \ {c}]
  /\ \/ /\ Submit(Pending("ExternalCommand", c,
                          IF mode = "run" THEN t ELSE sessions[tgt[t].page]))
        /\ UNCHANGED reply
     \/ Full /\ reply' = Resolved({c}, "canceled")
  /\ UNCHANGED <<loopVars, sessions, navigations, asked, browserVars, histVars>>

(* A faulty TakeNavigate: run() drops a navigation that it cannot submit.   *)
TakeNavigateDropping(t, c) ==
  /\ Takes(t, c) /\ asked[c] = "Navigate"
  /\ tgt' = [tgt EXCEPT ![t].inbox = @ \ {c},
                        ![t].queued = IF tgt[t].frame THEN @ \union {c} ELSE @]
  /\ homeless' = IF tgt[t].frame THEN homeless ELSE homeless \union {c}
  /\ \/ /\ Full
        /\ reply' = Resolved({c}, "canceled")
        /\ UNCHANGED <<navigations, sentNav>>
     \/ /\ Submit(Pending("Navigate", c, None))
        /\ navigations' = [navigations EXCEPT ![c] = "started"]
        /\ sentNav' = [sentNav EXCEPT ![c] = @ + 1]
        /\ UNCHANGED reply
  /\ UNCHANGED <<loopVars, sessions, asked, browserVars, answeredNav, loadedNav>>

(* TargetEvent::Command, a navigation: it is queued in the FrameManager    *)
(* (goto drops it when there is no main frame) and its sender is kept in   *)
(* navigations.  run() also submits the command itself.                    *)
TakeNavigate(t, c) ==
  /\ Takes(t, c) /\ asked[c] = "Navigate"
  /\ tgt' = [tgt EXCEPT ![t].inbox = @ \ {c},
                        ![t].queued = IF tgt[t].frame THEN @ \union {c} ELSE @]
  /\ homeless' = IF tgt[t].frame THEN homeless ELSE homeless \union {c}
  /\ navigations' = [navigations EXCEPT ![c] = "started"]
  /\ \/ (mode = "stream" \/ Full) /\ UNCHANGED <<wireVars, sentNav>>
     \/ /\ mode = "run"
        /\ Submit(Pending("Navigate", c, None))
        /\ sentNav' = [sentNav EXCEPT ![c] = @ + 1]
  /\ UNCHANGED <<loopVars, sessions, callerVars, browserVars, answeredNav, loadedNav>>

(* on_page_message drops what it reads once the target is closing; poll    *)
(* leaves the channel of a closing target alone.                           *)
TakeClosing(t, c) ==
  /\ Polling /\ mode = "run"
  /\ tgt[t].init = "Closing" /\ c \in tgt[t].inbox
  /\ tgt' = [tgt EXCEPT ![t].inbox = @ \ {c}]
  /\ reply' = Resolved({c}, "canceled")
  /\ UNCHANGED <<loopVars, wireVars, sessions, navigations, asked, browserVars, histVars>>

(* TargetInit::AttachToTarget asks for the session.                        *)
PollAttach(t) ==
  /\ Polling /\ tgt[t].init = "AttachToTarget"
  /\ tgt' = [tgt EXCEPT ![t].init = "InitializingFrame"]
  /\ Submit(Pending("Attach", None, t)) \/ Full
  /\ UNCHANGED <<loopVars, sessions, navigations, callerVars, browserVars, histVars>>

(* The initialization commands wait for the session.                       *)
PollInit(t) ==
  /\ Polling /\ tgt[t].init = "InitializingFrame" /\ tgt[t].session # None
  /\ tgt' = [tgt EXCEPT ![t].init = "Initializing"]
  /\ Submit(Pending("InitCommand", None, t)) \/ Full
  /\ UNCHANGED <<loopVars, sessions, navigations, callerVars, browserVars, histVars>>

(* on_initialization_failed: the deadline of the CommandChain has passed.  *)
PollInitFailed(t) ==
  /\ Polling /\ tgt[t].init = "Initializing"
  /\ tgt' = [tgt EXCEPT ![t].init = "Closing", ![t].initiator = None]
  /\ reply' = Resolved({tgt[t].initiator} \ {None}, "timeout")
  /\ Submit(Pending("CloseTarget", None, t)) \/ Full
  /\ UNCHANGED <<loopVars, sessions, navigations, asked, browserVars, histVars>>

(* TargetInit::Initialized hands the page to the initiator once the main   *)
(* frame has loaded and the page exists or can be made.                    *)
PollInitiator(t) ==
  /\ Polling /\ tgt[t].init = "Initialized" /\ tgt[t].frame
  /\ tgt[t].initiator # None
  /\ tgt[t].page # None \/ tgt[t].session # None
  /\ tgt' = [tgt EXCEPT ![t].initiator = None,
                        ![t].page = IF @ = None THEN tgt[t].session ELSE @]
  /\ reply' = Resolved({tgt[t].initiator}, "ok")
  /\ UNCHANGED <<loopVars, wireVars, sessions, navigations, asked, browserVars, histVars>>

(* TargetEvent::NavigationRequest: the FrameManager starts the next        *)
(* navigation; submit_navigation sends it.                                 *)
NavigationRequest(t, c) ==
  /\ Polling /\ tgt[t].init = "Initialized"
  /\ tgt[t].active = None /\ c \in tgt[t].queued
  /\ tgt' = [tgt EXCEPT ![t].queued = @ \ {c}, ![t].active = c]
  /\ \/ /\ Submit(Pending("Navigate", c, None))
        /\ sentNav' = [sentNav EXCEPT ![c] = @ + 1]
     \/ Full /\ UNCHANGED sentNav
  /\ UNCHANGED <<loopVars, sessions, navigations, callerVars, browserVars,
                 answeredNav, loadedNav, homeless>>

(* TargetEvent::NavigationResult, Ok: on_navigation_lifecycle_completed    *)
(* answers with the response when it is there, else it marks the entry.    *)
NavigationLoaded(t) ==
  LET c == tgt[t].active IN
  /\ Polling /\ tgt[t].init = "Initialized" /\ c # None
  /\ tgt' = [tgt EXCEPT ![t].active = None]
  /\ loadedNav' = loadedNav \union {c}
  /\ \/ /\ navigations[c] = "responded"
        /\ navigations' = [navigations EXCEPT ![c] = "none"]
        /\ reply' = Resolved({c}, "ok")
     \/ /\ navigations[c] \in {"started", "navigated"}
        /\ navigations' = [navigations EXCEPT ![c] = "navigated"]
        /\ UNCHANGED reply
     \/ navigations[c] = "none" /\ UNCHANGED <<navigations, reply>>
  /\ UNCHANGED <<loopVars, wireVars, sessions, asked, browserVars, sentNav,
                 answeredNav, homeless>>

(* A faulty NavigationFailed: it answers without taking the entry out of   *)
(* navigations.                                                            *)
NavigationFailedUnconditionally(t) ==
  LET c == tgt[t].active IN
  /\ Polling /\ tgt[t].init = "Initialized" /\ c # None
  /\ tgt' = [tgt EXCEPT ![t].active = None]
  /\ navigations' = [navigations EXCEPT ![c] = "none"]
  /\ reply' = Resolved({c}, "error")
  /\ UNCHANGED <<loopVars, wireVars, sessions, asked, browserVars, histVars>>

(* TargetEvent::NavigationResult, Err: deadline, navigation loop, or the   *)
(* frame is gone.                                                          *)
NavigationFailed(t) ==
  LET c == tgt[t].active IN
  /\ Polling /\ tgt[t].init = "Initialized" /\ c # None
  /\ tgt' = [tgt EXCEPT ![t].active = None]
  /\ navigations' = [navigations EXCEPT ![c] = "none"]
  /\ reply' = IF navigations[c] = "none" THEN reply ELSE Resolved({c}, "error")
  /\ UNCHANGED <<loopVars, wireVars, sessions, asked, browserVars, histVars>>

-----------------------------------------------------------------------------
(* Responses: on_response takes the entry of the call id out of            *)
(* pending_commands and acts on its kind.                                  *)

(* A faulty OnNavigationResponse: the response alone resolves the request. *)
OnNavigationResponseAtOnce(c) ==
  \/ /\ navigations[c] # "none"
     /\ navigations' = [navigations EXCEPT ![c] = "none"]
     /\ reply' = Resolved({c}, "ok")
  \/ navigations[c] = "none" /\ UNCHANGED <<navigations, reply>>

(* on_navigation_response, applied to an answered Page.navigate of c: the  *)
(* sender is used when the lifecycle has completed, else the response is   *)
(* kept.                                                                   *)
OnNavigationResponse(c) ==
  \/ /\ navigations[c] = "navigated"
     /\ navigations' = [navigations EXCEPT ![c] = "none"]
     /\ reply' = Resolved({c}, "ok")
  \/ /\ navigations[c] \in {"started", "responded"}
     /\ navigations' = [navigations EXCEPT ![c] = "responded"]
     /\ UNCHANGED reply
  \/ navigations[c] = "none" /\ UNCHANGED <<navigations, reply>>

(* The browser answers call i, and the handler reads the answer.  (An      *)
(* answer to a call that was evicted or canceled finds no entry and        *)
(* changes nothing.)                                                       *)
Answers(i, req) ==
  /\ Serving
  /\ pending[i].req = req
  /\ pending' = Without({i})
  /\ closing' = IF closing = "dispose" \/ req = "CloseBrowser" THEN "close" ELSE closing
  /\ UNCHANGED <<mode, stopped, nextId>>

(* on_target_created for the targets in T: each gets a new Target, also    *)
(* when it had one; the senders of the replaced one are dropped.           *)
Create(T) == tgt' = [t \in Targets |-> IF t \in T THEN NewTarget ELSE tgt[t]]

DroppedBy(T) == UNION {DroppedWith(t) : t \in T}
UntrackedBy(T) == UNION {Tracked(t) : t \in T}

(* The browser created t for the caller.  The handler waits for the page   *)
(* of t if it has heard of t, else it answers NotFound.                    *)
AnswerCreate(i) ==
  LET c == pending[i].tx IN
  /\ Answers(i, "CreateTarget")
  /\ \/ \E t \in Targets \ claimed :
          /\ world[t] # "gone"
          /\ world' = [world EXCEPT ![t] = IF @ = "unborn" THEN "hidden" ELSE @]
          /\ claimed' = claimed \union {t}
          /\ IF Known(t)
             THEN /\ tgt' = [tgt EXCEPT ![t].initiator = c]
                  /\ UNCHANGED reply
             ELSE /\ reply' = Resolved({c}, "not_found")
                  /\ UNCHANGED tgt
     \/ /\ reply' = Resolved({c}, "error")
        /\ UNCHANGED <<tgt, world, claimed>>
  /\ UNCHANGED <<sessions, navigations, asked, link, histVars>>

(* The browser lists its targets, and on_target_created runs for each that *)
(* passes the browser context filter.                                      *)
AnswerGetTargets(i) ==
  LET c == pending[i].tx IN
  /\ Answers(i, "GetTargets")
  /\ \/ \E T \in SUBSET {t \in Targets : world[t] \in {"hidden", "live"}} :
          /\ Create(T)
          /\ reply' = [d \in Callers |-> IF d = c THEN "ok"
                                         ELSE IF d \in DroppedBy(T) THEN "canceled"
                                         ELSE reply[d]]
          /\ homeless' = homeless \union UntrackedBy(T)
     \/ /\ reply' = Resolved({c}, "error")
        /\ UNCHANGED <<tgt, homeless>>
  /\ UNCHANGED <<sessions, navigations, asked, browserVars, sentNav,
                 answeredNav, loadedNav>>

AnswerNavigate(i) ==
  LET c == pending[i].tx IN
  /\ Answers(i, "Navigate")
  /\ answeredNav' = answeredNav \union {c}
  /\ OnNavigationResponse(c)
  /\ UNCHANGED <<tgt, sessions, asked, browserVars, sentNav, loadedNav, homeless>>

AnswerCommand(i) ==
  /\ Answers(i, "ExternalCommand")
  /\ reply' = Resolved({pending[i].tx}, "ok")
  /\ UNCHANGED <<tgt, sessions, navigations, asked, browserVars, histVars>>

(* maybe_store_attach_session_id: the answer names the session the command *)
(* made, before or after the attachedToTarget event about it; or it is an  *)
(* error.                                                                  *)
AnswerAttach(i) ==
  LET t == pending[i].target
      made == {s \in Sessions : link[s].by = i}
  IN
  /\ Answers(i, "Attach")
  /\ \/ \E s \in made \union {r \in Sessions : made = {} /\ link[r].st = "free"} :
          /\ world[t] \in {"hidden", "live"}
          /\ link' = [link EXCEPT ![s] = [at |-> t, by |-> None,
                                         st |-> IF s \in made THEN @.st ELSE "quiet"]]
          /\ tgt' = IF Known(t) THEN [tgt EXCEPT ![t].session = s] ELSE tgt
     \/ made = {} /\ UNCHANGED <<tgt, link>>
  /\ UNCHANGED <<sessions, navigations, callerVars, world, claimed, histVars>>

(* Target::on_response: the initialization command was answered.  The      *)
(* frame tree in the answer gives the main frame, if there is one.         *)
AnswerInit(i) ==
  LET t == pending[i].target IN
  /\ Answers(i, "InitCommand")
  /\ \/ /\ tgt[t].init = "Initializing"
        /\ \E f \in BOOLEAN :
             tgt' = [tgt EXCEPT ![t] = [@ EXCEPT !.init = "Initialized", !.frame = f]]
     \/ tgt[t].init # "Initializing" /\ UNCHANGED tgt
  /\ UNCHANGED <<sessions, navigations, callerVars, browserVars, histVars>>

AnswerCloseTarget(i) ==
  /\ Answers(i, "CloseTarget")
  /\ UNCHANGED <<tgt, sessions, navigations, callerVars, browserVars, histVars>>

AnswerCloseBrowser(i) ==
  /\ Answers(i, "CloseBrowser")
  /\ reply' = Resolved({pending[i].tx}, "ok")
  /\ UNCHANGED <<tgt, sessions, navigations, asked, browserVars, histVars>>

OnResponse(i) ==
  \/ AnswerCreate(i) \/ AnswerGetTargets(i) \/ AnswerNavigate(i)
  \/ AnswerCommand(i) \/ AnswerAttach(i) \/ AnswerInit(i) \/ AnswerCloseTarget(i)
  \/ AnswerCloseBrowser(i)

-----------------------------------------------------------------------------
(* Events about targets (on_event).                                        *)

TargetCreated(t) ==
  /\ Serving
  /\ world[t] \in {"unborn", "hidden"}
  /\ world' = [world EXCEPT ![t] = "live"]
  /\ \/ /\ Create({t})
        /\ reply' = Resolved(DroppedWith(t), "canceled")
        /\ homeless' = homeless \union Tracked(t)
     \/ UNCHANGED <<tgt, reply, homeless>>
  /\ UNCHANGED <<loopVars, wireVars, sessions, navigations, asked, claimed, link,
                 sentNav, answeredNav, loadedNav>>

(* on_attached_to_target: the session is recorded even when the target is  *)
(* not known; a later attach replaces the session of the target.  It may   *)
(* be the session of an attach command that is still to be answered, one   *)
(* already answered, or one the handler did not ask for.                   *)
AttachCalls(t) == {i \in CallId : /\ pending[i].req = "Attach" /\ pending[i].target = t
                                  /\ \A s \in Sessions : link[s].by # i}

AttachedToTarget(s, t) ==
  /\ Serving
  /\ world[t] \in {"hidden", "live"}
  /\ \/ link[s].st = "quiet" /\ link[s].at = t /\ link' = [link EXCEPT ![s].st = "open"]
     \/ /\ link[s].st = "free"
        /\ \E i \in AttachCalls(t) \union {None} :
             link' = [link EXCEPT ![s] = [at |-> t, by |-> i, st |-> "open"]]
  /\ sessions' = [sessions EXCEPT ![s] = t]
  /\ tgt' = IF Known(t) THEN [tgt EXCEPT ![t].session = s] ELSE tgt
  /\ UNCHANGED <<loopVars, wireVars, navigations, callerVars, world, claimed, histVars>>

(* A faulty DetachedFromTarget: the target keeps its session.              *)
DetachedKeepsSession(s) ==
  /\ Serving
  /\ link[s].st = "open"
  /\ \A i \in CallId : link[s].by = i => pending[i].req # "Attach"
  /\ link' = [link EXCEPT ![s] = [at |-> None, by |-> None, st |-> "closed"]]
  /\ sessions' = [sessions EXCEPT ![s] = None]
  /\ UNCHANGED <<loopVars, wireVars, tgt, navigations, callerVars, world, claimed, histVars>>

(* on_detached_from_target.  The browser answers the attach command before *)
(* it can end the session.                                                 *)
DetachedFromTarget(s) ==
  /\ Serving
  /\ link[s].st = "open"
  /\ \A i \in CallId : link[s].by = i => pending[i].req # "Attach"
  /\ link' = [link EXCEPT ![s] = [at |-> None, by |-> None, st |-> "closed"]]
  /\ sessions' = [sessions EXCEPT ![s] = None]
  /\ tgt' = IF sessions[s] # None /\ Known(sessions[s])
            THEN [tgt EXCEPT ![sessions[s]].session = None]
            ELSE tgt
  /\ UNCHANGED <<loopVars, wireVars, navigations, callerVars, world, claimed, histVars>>

(* The target and its current session leave the tables.                    *)
Forget(t) ==
  /\ tgt' = [tgt EXCEPT ![t] = Absent]
  /\ sessions' = [s \in Sessions |-> IF s = tgt[t].session THEN None ELSE sessions[s]]
  /\ homeless' = homeless \union Tracked(t)

(* on_target_destroyed cancels nothing that is pending.                    *)
TargetDestroyed(t) ==
  /\ Serving
  /\ world[t] = "live"
  /\ world' = [world EXCEPT ![t] = "gone"]
  /\ Forget(t)
  /\ reply' = Resolved(DroppedWith(t), "canceled")
  /\ UNCHANGED <<loopVars, wireVars, navigations, asked, claimed, link, sentNav,
                 answeredNav, loadedNav>>

(* The commands bound to t.                                                *)
BoundTo(t) == {i \in CallId : /\ pending[i].target = t
                              /\ pending[i].req \in Internal \union {"ExternalCommand"}}

(* on_target_crashed resolves the commands bound to t and drops its        *)
(* internal ones; navigations stay.                                        *)
TargetCrashed(t) ==
  /\ Serving
  /\ world[t] = "live"
  /\ pending' = Without(BoundTo(t))
  /\ Forget(t)
  /\ reply' = [c \in Callers |-> IF c \in OwnersOf(BoundTo(t)) THEN "crashed"
                                 ELSE IF c \in DroppedWith(t) THEN "canceled"
                                 ELSE reply[c]]
  /\ UNCHANGED <<loopVars, nextId, navigations, asked, browserVars,
                 sentNav, answeredNav, loadedNav>>

-----------------------------------------------------------------------------
(* Housekeeping and the end of the handler.                                *)

(* The navigations whose Page.navigate is among the entries in I.          *)
ExpiredNavigations(I) ==
  {c \in Callers : /\ navigations[c] # "none"
                   /\ \E i \in I : pending[i].req = "Navigate" /\ pending[i].tx = c}

(* Faulty forms of Evict: it leaves the entry of an expired navigation,    *)
(* answered or not, or it passes over the requests for the target list.    *)
EvictAnswersTwice(I) ==
  /\ Serving
  /\ I # {}
  /\ \A i \in I : pending[i].req # "none"
  /\ pending' = Without(I)
  /\ reply' = Resolved(OwnersOf(I) \union ExpiredNavigations(I), "timeout")
  /\ UNCHANGED <<loopVars, nextId, tgt, sessions, navigations, asked, browserVars, histVars>>

EvictLeavesNavigation(I) ==
  /\ Serving
  /\ I # {}
  /\ \A i \in I : pending[i].req # "none"
  /\ pending' = Without(I)
  /\ reply' = Resolved(OwnersOf(I), "timeout")
  /\ UNCHANGED <<loopVars, nextId, tgt, sessions, navigations, asked, browserVars, histVars>>

EvictSkipsGetTargets(I) ==
  /\ Serving
  /\ I # {}
  /\ \A i \in I : pending[i].req \notin {"none", "GetTargets"}
  /\ pending' = Without(I)
  /\ navigations' = [c \in Callers |->
                       IF c \in ExpiredNavigations(I) THEN "none" ELSE navigations[c]]
  /\ reply' = Resolved(OwnersOf(I) \union ExpiredNavigations(I), "timeout")
  /\ UNCHANGED <<loopVars, nextId, tgt, sessions, asked, browserVars, histVars>>

(* evict_timed_out_commands: the entries in I are too old.  A navigation   *)
(* goes with its Page.navigate command.                                    *)
Evict(I) ==
  /\ Serving
  /\ I # {}
  /\ \A i \in I : pending[i].req # "none"
  /\ pending' = Without(I)
  /\ navigations' = [c \in Callers |->
                       IF c \in ExpiredNavigations(I) THEN "none" ELSE navigations[c]]
  /\ reply' = Resolved(OwnersOf(I) \union ExpiredNavigations(I), "timeout")
  /\ UNCHANGED <<loopVars, nextId, tgt, sessions, asked, browserVars, histVars>>

(* The handler returns and is dropped: after closing was set, or because   *)
(* the connection failed, or because every Browser handle is gone.         *)
Stop ==
  /\ ~stopped
  /\ stopped' = TRUE
  /\ reply' = Resolved({c \in Callers : Waiting(c)}, "canceled")
  /\ pending' = Without(CallId)
  /\ tgt' = [t \in Targets |-> Absent]
  /\ sessions' = [s \in Sessions |-> None]
  /\ navigations' = [c \in Callers |-> "none"]
  /\ UNCHANGED <<mode, closing, nextId, asked, browserVars, histVars>>

Shutdown == closing # "no" /\ Stop

ConnectionLost == closing = "no" /\ Stop

-----------------------------------------------------------------------------

Next ==
  \/ \E c \in Callers : \/ BrowserCommand(c) \/ FetchTargets(c)
                        \/ CloseBrowser(c) \/ CreatePage(c)
  \/ \E t \in Targets : GetPage(t)
  \/ DisposeContext
  \/ \E c \in Callers, t \in Targets :
       PageSends(c, t) \/ TakeCommand(t, c) \/ TakeNavigate(t, c) \/ TakeClosing(t, c)
  \/ \E t \in Targets : \/ PollAttach(t) \/ PollInit(t) \/ PollInitFailed(t)
                        \/ PollInitiator(t) \/ NavigationLoaded(t) \/ NavigationFailed(t)
  \/ \E t \in Targets, c \in Callers : NavigationRequest(t, c)
  \/ \E i \in CallId : OnResponse(i)
  \/ \E I \in SUBSET CallId : Evict(I)
  \/ \E t \in Targets : TargetCreated(t) \/ TargetDestroyed(t) \/ TargetCrashed(t)
  \/ \E s \in Sessions, t \in Targets : AttachedToTarget(s, t)
  \/ \E s \in Sessions : DetachedFromTarget(s)
  \/ Shutdown
  \/ ConnectionLost

Spec == Init /\ [][Next]_vars

(* The periodic job runs for as long as the handler is polled, and wakes   *)
(* it; each round polls every target and, once closing, ends.  A frame     *)
(* manager gives up an active navigation at its deadline, and a            *)
(* CommandChain its commands.  Nothing is assumed of the browser.          *)
Fairness ==
  /\ \A i \in CallId : WF_vars(\E I \in SUBSET CallId : i \in I /\ Evict(I))
  /\ \A t \in Targets :
       /\ WF_vars(PollAttach(t)) /\ WF_vars(PollInit(t)) /\ WF_vars(PollInitFailed(t))
       /\ WF_vars(PollInitiator(t))
       /\ WF_vars(NavigationLoaded(t) \/ NavigationFailed(t))
       /\ \A c \in Callers : /\ WF_vars(TakeCommand(t, c)) /\ WF_vars(TakeNavigate(t, c))
                             /\ WF_vars(NavigationRequest(t, c))
  /\ WF_vars(Shutdown)

FairSpec == Spec /\ Fairness

-----------------------------------------------------------------------------
(* Properties.                                                             *)

(* Entry i of pending_commands holds the sender of c.                      *)
Holds(i, c) == pending[i].req \in Owning /\ pending[i].tx = c

(* The target t holds it, as its initiator or in its page channel.         *)
HasCaller(t, c) == c \in DroppedWith(t)

InProgress(c) == navigations[c] # "none"

(* A caller that still waits is held by exactly one place: an entry of     *)
(* pending_commands, an entry of navigations, the initiator or the page    *)
(* channel of one target.  No place holds a caller that was answered, so   *)
(* no interleaving of answers, evictions, crashes and replaced targets     *)
(* loses a request or answers it twice.                                    *)
HeldOnce ==
  \A c \in Callers :
    LET inPending == \E i \in CallId : Holds(i, c)
        inTarget  == \E t \in Targets : HasCaller(t, c)
    IN
    /\ Waiting(c) <=> (inPending \/ inTarget \/ InProgress(c))
    /\ ~(inPending /\ inTarget) /\ ~(inPending /\ InProgress(c)) /\ ~(inTarget /\ InProgress(c))
    /\ \A i, j \in CallId : Holds(i, c) /\ Holds(j, c) => i = j
    /\ \A t, u \in Targets : HasCaller(t, c) /\ HasCaller(u, c) => t = u

(* The handler keeps the promise of the one-shot channels.                 *)
KeepsPromise == P!Spec

(* Page.navigate is answered with Ok only after both its response and the  *)
(* end of its lifecycle were seen, in whichever order they came            *)
(* (PendingRequest::Navigate).                                             *)
NavigateNeedsBoth ==
  \A c \in Callers :
    asked[c] = "Navigate" /\ reply[c] = "ok" => c \in answeredNav \intersect loadedNav

(* When the handler is polled as a Stream, a navigation in progress can    *)
(* still be resolved: its frame manager tracks it or its Page.navigate is  *)
(* pending.  The exceptions are navigations whose target was lost or had   *)
(* no main frame.                                                          *)
NavigationTracked ==
  mode = "stream" =>
    \A c \in Callers : navigations[c] # "none" =>
      \/ c \in homeless
      \/ \E t \in Targets : c \in Tracked(t)
      \/ \E i \in CallId : pending[i].req = "Navigate" /\ pending[i].tx = c

(* Neither the session table nor a target keeps a session the browser has  *)
(* ended, and a session belongs to one target: commands are not sent on    *)
(* dead sessions and crashes cancel the commands of the right target.      *)
NoGhostSession ==
  /\ \A s \in Sessions :
       sessions[s] # None => link[s].at = sessions[s] /\ link[s].st = "open"
  /\ \A t \in Targets :
       tgt[t].session # None =>
         link[tgt[t].session].at = t /\ link[tgt[t].session].st \in {"quiet", "open"}

(* A step of run() that leaves the commands sent and pending as they are   *)
(* drops the sender of c in one of three ways: try_send refused the new    *)
(* message of the Browser or the command just taken from the page channel  *)
(* (never a navigation, which is kept), or the target is closing.          *)
Refused(c) ==
  /\ mode = "run" /\ UNCHANGED wireVars
  /\ \/ asked[c] = "idle"
     \/ \E t \in Targets :
          /\ c \in tgt[t].inbox /\ c \notin tgt'[t].inbox
          /\ \/ tgt[t].init = "Closing"
             \/ tgt[t].init = "Initialized" /\ asked[c] = "PageCommand"

(* A sender is dropped without an answer only when the handler ends, with  *)
(* the target that held it when that is lost or replaced, or when run()    *)
(* refuses it.  What is pending or navigating is never dropped, by a crash *)
(* or an eviction in either driver.                                        *)
NoSilentDrop ==
  [][\A c \in Callers :
       reply[c] # "canceled" /\ reply'[c] = "canceled" =>
         \/ stopped'
         \/ Refused(c)
         \/ \E t \in Targets : c \in DroppedWith(t) /\ tgt'[t] \in {Absent, NewTarget}]_vars

(* A command is answered whatever the browser does: by its answer, by the  *)
(* eviction, by a crash or by the end of the handler.  Only the page       *)
(* channel of a target that is not initialized may keep one.               *)
CommandsAnswered ==
  \A c \in Callers :
    Waiting(c) /\ asked[c] \in {"Command", "PageCommand", "FetchTargets", "CloseBrowser"}
      ~> \/ ~Waiting(c)
         \/ \E t \in Targets : c \in tgt[t].inbox /\ tgt[t].init # "Initialized"

(* A navigation in progress whose Page.navigate could be sent ends, unless *)
(* its frame manager was lost: with the answer and the lifecycle, at the   *)
(* deadline, or by the eviction.                                           *)
NavigationsEnd ==
  \A c \in Callers :
    navigations[c] # "none" /\ (mode = "stream" \/ sentNav[c] > 0)
      ~> navigations[c] = "none" \/ c \in homeless

(* What the documentation says and the code does not do.                   *)

(* Page.navigate is sent once per navigation: TargetEvent::NavigationRequest *)
(* asks for its submission.  run() sends it twice.                         *)
OneNavigateSent == \A c \in Callers : sentNav[c] <= 1

(* The navigations of a crashed target are left to the normal timeout:     *)
(* their Page.navigate is pending, for the eviction.  It is not once it    *)
(* was answered, or before it was sent.                                    *)
CrashLeavesTimeout ==
  [][\A t \in Targets : TargetCrashed(t) =>
       \A c \in Tracked(t) : navigations'[c] # "none" =>
         \E i \in CallId : pending'[i].req = "Navigate" /\ pending'[i].tx = c]_vars

(* A request for a new page that got its target is answered with the page  *)
(* or an error.  The answer to a FetchTargets makes a new Target of it,    *)
(* and its sender is dropped.                                              *)
FetchKeepsInitiators ==
  [][\A i \in CallId : AnswerGetTargets(i) =>
       \A t \in Targets : tgt'[t].initiator = tgt[t].initiator]_vars

=============================================================================
