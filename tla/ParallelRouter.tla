--------------------------- MODULE ParallelRouter ---------------------------
(***************************************************************************)
(* Handler::run_parallel(): one Router task that reads the websocket, and  *)
(* one SessionTask per target, joined by bounded channels: the inbox of    *)
(* each session, one lifecycle channel from the sessions to the router,    *)
(* and one channel from all of them to the websocket writer.  The router   *)
(* awaits room in an inbox, every task awaits room at the writer, and the  *)
(* lifecycle channel is written with try_send, which loses the message     *)
(* when the channel is full.                                               *)
(*                                                                         *)
(* Call ids are minted once, so a call stands for its id; slots are minted *)
(* once and never reused, so a slot is named after its target.  Targets    *)
(* are pages.  The commands of the initialisation of a target are in       *)
(* TargetInit, its navigation watchers are in FrameManager; here they only *)
(* end.                                                                    *)
(***************************************************************************)
EXTENDS Naturals, Sequences, FiniteSets

CONSTANTS
  Callers,           (* Users of Browser and Page that await one thing each. *)
  Targets,
  Sessions,          (* Session ids of Chrome.                               *)
  Ready,             (* Targets whose page was handed out before the start.  *)
  InboxCapacity,     (* SESSION_INBOX_CAPACITY, 1024 in the code.            *)
  LifecycleCapacity, (* SESSION_LIFECYCLE_CAPACITY, 256 in the code.         *)
  WireCapacity,      (* Room at the writer, 2048 in the code.                *)
  MaxEvents,         (* Bound on the events of sessions.                     *)
  None

ASSUME CapacitiesAssumption ==
  /\ {InboxCapacity, LifecycleCapacity, WireCapacity} \subseteq Nat \ {0}
  /\ MaxEvents \in Nat
ASSUME NamesAssumption ==
  /\ Callers \cap Targets = {} /\ Ready \subseteq Targets
  /\ None \notin Callers \cup Targets \cup Sessions /\ "wire" \notin Targets \cup {None}

(* What a caller asks: Browser::new_page, Browser::execute, Page::execute, *)
(* Page::goto.                                                             *)
BrowserKinds == {"create", "browser"}
PageKinds    == {"command", "navigate"}

(* "renavigate" is the call that carries out the request of the frame      *)
(* manager, "navigate" the one of the command itself.                      *)
Navigating == {"navigate", "renavigate"}

(* What a target asks for itself. *)
OwnKinds == {"attach", "close"}

Call(kind, of, slot) == [kind |-> kind, of |-> of, slot |-> slot]
RouterCalls == {Call(k, c, None) : k \in BrowserKinds, c \in Callers}
SessionCalls(t) ==
  {Call(k, t, t) : k \in OwnKinds}
  \cup {Call(k, c, t) : k \in PageKinds \cup Navigating, c \in Callers}
Calls == RouterCalls \cup UNION {SessionCalls(t) : t \in Targets}
ASSUME CallsAssumption == None \notin Calls

(* RouterToSession.  The answer of attachToTarget names a session, unless   *)
(* it is an error.                                                         *)
Answered(call, s)  == [type |-> "response", call |-> call, session |-> s]
Initiator(c)       == [type |-> "initiator", of |-> c]
Event              == [type |-> "event"]
Shutdown           == [type |-> "shutdown"]
InboxMessages == {Answered(call, s) : call \in Calls, s \in Sessions \cup {None}}
                 \cup {Initiator(c) : c \in Callers} \cup {Event, Shutdown}

(* SessionToRouter. *)
Attached(t, s) == <<"attached", t, s>>
Detached(t)    == <<"detached", t, None>>
LifecycleMessages == {Attached(t, s) : t \in Targets, s \in Sessions}
                     \cup {Detached(t) : t \in Targets}

VARIABLES
  running,    (* The router is in its loop.                                *)
  known,      (* Domain of target_id_to_slot.                              *)
  sessions,   (* Domain of sessions.                                       *)
  named,      (* session_id of each entry.                                 *)
  bySession,  (* session_id_to_slot.                                       *)
  awaiting,   (* Domain of the router's pending.                           *)
  parked,     (* pending_initiators and pending_initiator_ts.              *)
  hand,       (* The send the router awaits.                               *)
  routes,     (* The routing table of CallIdAllocator.                     *)
  inbox, lifecycle, wire,
  writer,     (* The writer task takes calls.                              *)
  phase,      (* Where the task of each target is.                         *)
  work,       (* What drive() has still to submit.                         *)
  sending,    (* The call each session awaits room at the writer for.      *)
  pending,    (* pending of each session.                                  *)
  sid,        (* The session each target knows.                            *)
  initiator,  (* The initiator each target holds.                          *)
  stage,      (* init_state: the chains, Initialized or Closing.           *)
  mainLoaded, (* Targets whose main frame is loaded.                       *)
  page,       (* Targets whose page was handed out.                        *)
  channel,    (* The page channel of each target.                          *)
  navs,       (* navigations of the sessions.                              *)
  watch,      (* The watcher of each navigation in the frame manager.      *)
  asked, outcome,
  queued,     (* Callers whose message is in from_browser.                 *)
  browser,    (* Calls Chrome has and has not answered.                    *)
  facts,      (* What Chrome has told of each target.                      *)
  link,       (* The sessions Chrome made: of a target, for a call.        *)
  made,       (* The target Chrome created for each caller.                *)
  answered,   (* Navigation calls Chrome has answered.                     *)
  loaded,     (* Navigations whose watcher completed.                      *)
  lost,       (* Targets whose Detached did not fit the channel.           *)
  events

routerVars  == <<running, known, sessions, named, bySession, awaiting, parked>>
wireVars    == <<wire, writer>>
navVars     == <<navs, watch, loaded>>
targetVars  == <<sid, initiator, page, stage, mainLoaded, lost>>
callerVars  == <<asked, outcome, queued>>
chromeVars  == <<browser, facts, link, made, answered, events>>
vars == <<routerVars, hand, routes, inbox, lifecycle, wireVars, phase, work, sending,
          pending, targetVars, channel, navVars, callerVars, chromeVars>>

NoHand   == [to |-> None, what |-> None]
Stages   == {"chain", "initialized", "closing"}
Outcomes == {"idle", "waiting", "ok", "failed", "timeout", "cancelled"}

(* A session of Chrome is of one target, and was made for one call; whether  *)
(* the attachedToTarget and detachedFromTarget events about it were read.   *)
Link == [at : Targets \cup {None}, by : Calls \cup {None},
         st : {"free", "quiet", "open", "closed"}]

TypeOK ==
  /\ running \in BOOLEAN /\ writer \in BOOLEAN
  /\ known \cup sessions \cup page \cup mainLoaded \cup lost \subseteq Targets
  /\ {named, sid} \subseteq [Targets -> Sessions \cup {None}]
  /\ bySession \in [Sessions -> Targets \cup {None}]
  /\ awaiting \subseteq RouterCalls
  /\ parked \in [Targets -> Callers \cup {None}]
  /\ \/ hand = NoHand
     \/ hand.to \in Targets /\ hand.what \in InboxMessages
     \/ hand.to = "wire" /\ hand.what \in RouterCalls
  /\ routes \cup browser \cup answered \subseteq Calls
  /\ \A t \in Targets : Len(inbox[t]) <= InboxCapacity
  /\ inbox \in [Targets -> Seq(InboxMessages)]
  /\ lifecycle \in Seq(LifecycleMessages)
  /\ Len(lifecycle) <= LifecycleCapacity
  /\ wire \in Seq(Calls) /\ Len(wire) <= WireCapacity
  /\ phase \in [Targets -> {"none", "drive", "select", "exit", "ended"}]
  /\ {work, pending} \subseteq [Targets -> SUBSET Calls]
  /\ sending \in [Targets -> Calls \cup {None}]
  /\ \A t \in Targets : /\ work[t] \cup pending[t] \subseteq SessionCalls(t)
                       /\ sending[t] \in SessionCalls(t) \cup {None}
  /\ stage \in [Targets -> Stages]
  /\ initiator \in [Targets -> Callers \cup {None}]
  /\ channel \in [Targets -> SUBSET Callers]
  /\ navs \in [Callers -> {"none", "open", "responded", "navigated"}]
  /\ watch \in [Callers -> {"none", "queued", "active", "loaded", "late"}]
  /\ asked \in [Callers -> {[kind |-> "none", at |-> None]}
                  \cup {[kind |-> k, at |-> None] : k \in BrowserKinds}
                  \cup {[kind |-> k, at |-> t] : k \in PageKinds, t \in Targets}]
  /\ outcome \in [Callers -> Outcomes]
  /\ queued \cup loaded \subseteq Callers
  /\ facts \subseteq {"created", "gone"} \X Targets
  /\ link \in [Sessions -> Link]
  /\ made \in [Callers -> Targets \cup {None}]
  /\ events \in 0..MaxEvents

(* The router starts with nothing; a target of Ready has since been        *)
(* created, attached and initialised, and its messages have been read.     *)
Init ==
  /\ running = TRUE /\ writer = TRUE
  /\ known = Ready /\ sessions = Ready
  /\ named \in [Targets -> Sessions \cup {None}]
  /\ \A t \in Targets : named[t] # None <=> t \in Ready
  /\ \A t, u \in Ready : named[t] = named[u] => t = u
  /\ bySession \in [Sessions -> Targets \cup {None}]
  /\ \A s \in Sessions, t \in Targets : bySession[s] = t <=> named[t] = s
  /\ link = [s \in Sessions |->
              IF bySession[s] = None THEN [at |-> None, by |-> None, st |-> "free"]
              ELSE [at |-> bySession[s], by |-> Call("attach", bySession[s], bySession[s]),
                    st |-> "open"]]
  /\ awaiting = {} /\ parked = [t \in Targets |-> None]
  /\ hand = NoHand /\ routes = {}
  /\ inbox = [t \in Targets |-> <<>>] /\ lifecycle = <<>> /\ wire = <<>>
  /\ phase = [t \in Targets |-> IF t \in Ready THEN "select" ELSE "none"]
  /\ work = [t \in Targets |-> {}] /\ pending = [t \in Targets |-> {}]
  /\ sending = [t \in Targets |-> None]
  /\ sid = named /\ initiator = [t \in Targets |-> None] /\ page = Ready
  /\ stage = [t \in Targets |-> IF t \in Ready THEN "initialized" ELSE "chain"]
  /\ mainLoaded = Ready /\ lost = {}
  /\ channel = [t \in Targets |-> {}]
  /\ navs = [c \in Callers |-> "none"] /\ watch = [c \in Callers |-> "none"]
  /\ asked = [c \in Callers |-> [kind |-> "none", at |-> None]]
  /\ outcome = [c \in Callers |-> "idle"]
  /\ queued = {} /\ browser = {} /\ facts = {"created"} \X Ready
  /\ answered = {} /\ loaded = {}
  /\ made = [c \in Callers |-> None] /\ events = 0

-----------------------------------------------------------------------------
(* Answers and channels *)

(* The one-shots of the callers in S get o; a one-shot is sent or dropped  *)
(* only once.                                                              *)
Resolved(S, o) ==
  [c \in Callers |-> IF c \in S /\ outcome[c] = "waiting" THEN o ELSE outcome[c]]

Users(S, kinds) == {call.of : call \in {k \in S : k.kind \in kinds}} \cap Callers

(* Initiators among the messages of a queue that is dropped. *)
InitiatorsIn(q) == {q[i].of : i \in {j \in DOMAIN q : q[j].type = "initiator"}}

(* A faulty Send: the inbox has no bound. *)
SendUnbounded(t, m) ==
  /\ inbox' = [inbox EXCEPT ![t] = Append(@, m)]
  /\ UNCHANGED <<outcome, hand>>

(* inbox.send(m).await: a session that has ended drops the message, a full *)
(* inbox leaves the router waiting.                                        *)
Send(t, m) ==
  \/ /\ phase[t] = "ended"
     /\ outcome' = Resolved(InitiatorsIn(<<m>>), "cancelled")
     /\ UNCHANGED <<inbox, hand>>
  \/ /\ phase[t] # "ended" /\ Len(inbox[t]) < InboxCapacity
     /\ inbox' = [inbox EXCEPT ![t] = Append(@, m)]
     /\ UNCHANGED <<outcome, hand>>
  \/ /\ phase[t] # "ended" /\ Len(inbox[t]) = InboxCapacity
     /\ hand' = [to |-> t, what |-> m]
     /\ UNCHANGED <<inbox, outcome>>

SendNothing == UNCHANGED <<inbox, hand, outcome>>

(* session_to_router_tx.try_send(m). *)
TrySend(m) ==
  lifecycle' = IF running /\ Len(lifecycle) < LifecycleCapacity
               THEN Append(lifecycle, m) ELSE lifecycle

-----------------------------------------------------------------------------
(* Callers *)

AskBrowser(c, kind) ==
  /\ outcome[c] = "idle" /\ running /\ kind \in BrowserKinds
  /\ asked' = [asked EXCEPT ![c] = [kind |-> kind, at |-> None]]
  /\ outcome' = [outcome EXCEPT ![c] = "waiting"]
  /\ queued' = queued \cup {c}
  /\ UNCHANGED <<routerVars, hand, routes, inbox, lifecycle, wireVars, phase, work, sending,
                 pending, targetVars, channel, navVars, chromeVars>>

(* The message of a handle whose session has ended finds its channel       *)
(* closed.                                                                 *)
AskPage(c, kind, t) ==
  /\ outcome[c] = "idle" /\ t \in page /\ kind \in PageKinds
  /\ asked' = [asked EXCEPT ![c] = [kind |-> kind, at |-> t]]
  /\ \/ /\ phase[t] # "ended"
        /\ channel' = [channel EXCEPT ![t] = @ \cup {c}]
        /\ outcome' = [outcome EXCEPT ![c] = "waiting"]
     \/ /\ phase[t] = "ended"
        /\ outcome' = [outcome EXCEPT ![c] = "failed"]
        /\ UNCHANGED channel
  /\ UNCHANGED <<routerVars, hand, routes, inbox, lifecycle, wireVars, phase, work, sending,
                 pending, targetVars, navVars, queued, chromeVars>>

-----------------------------------------------------------------------------
(* Chrome and the writer *)

(* The writer task writes the next call to the socket. *)
WriterTakes ==
  /\ writer /\ wire # <<>>
  /\ browser' = browser \cup {Head(wire)}
  /\ wire' = Tail(wire)
  /\ UNCHANGED <<routerVars, hand, routes, inbox, lifecycle, writer, phase, work, sending,
                 pending, targetVars, channel, navVars, callerVars, facts, link, made,
                 answered, events>>

(* Writing a call fails, or run_parallel() aborts the writer after the      *)
(* router.                                                                 *)
WriterCloses ==
  /\ writer /\ (wire # <<>> \/ ~running)
  /\ writer' = FALSE /\ wire' = <<>>
  /\ UNCHANGED <<routerVars, hand, routes, inbox, lifecycle, phase, work, sending, pending,
                 targetVars, channel, navVars, callerVars, chromeVars>>

-----------------------------------------------------------------------------
(* The router *)

Free == running /\ hand = NoHand

(* The awaited send goes through, or the other side is gone. *)
HandToSession ==
  /\ \/ phase[hand.to] = "ended"
        /\ outcome' = Resolved(InitiatorsIn(<<hand.what>>), "cancelled")
        /\ UNCHANGED inbox
     \/ phase[hand.to] # "ended" /\ Len(inbox[hand.to]) < InboxCapacity
        /\ inbox' = [inbox EXCEPT ![hand.to] = Append(@, hand.what)]
        /\ UNCHANGED outcome
  /\ UNCHANGED <<wire, awaiting>>

HandToWriter ==
  /\ \/ writer /\ Len(wire) < WireCapacity
        /\ wire' = Append(wire, hand.what)
        /\ awaiting' = awaiting \cup {hand.what}
        /\ UNCHANGED outcome
     \/ ~writer
        /\ outcome' = Resolved({hand.what.of}, "failed")
        /\ UNCHANGED <<wire, awaiting>>
  /\ UNCHANGED inbox

HandOver ==
  /\ running /\ hand # NoHand
  /\ \/ hand.to \in Targets /\ HandToSession
     \/ hand.to = "wire" /\ HandToWriter
  /\ hand' = NoHand
  /\ UNCHANGED <<running, known, sessions, named, bySession, parked, routes, lifecycle, writer,
                 phase, work, sending, pending, targetVars, channel, navVars, asked, queued,
                 chromeVars>>

(* create_page and dispatch_browser_command; create_page refuses an url    *)
(* that is neither http nor file nor about:blank.                          *)
OnBrowserMessage(c) ==
  /\ Free /\ lifecycle = <<>> /\ c \in queued
  /\ queued' = queued \ {c}
  /\ \/ hand' = [to |-> "wire", what |-> Call(asked[c].kind, c, None)] /\ UNCHANGED outcome
     \/ asked[c].kind = "create" /\ outcome' = Resolved({c}, "failed") /\ UNCHANGED hand
  /\ UNCHANGED <<routerVars, routes, inbox, lifecycle, wireVars, phase, work, sending, pending,
                 targetVars, channel, navVars, asked, chromeVars>>

(* on_target_created for a target that is not known: the session task is   *)
(* spawned, and gets the initiator the answer of createTarget had parked.  *)
OnTargetCreated(t) ==
  /\ Free /\ <<"created", t>> \notin facts
  /\ facts' = facts \cup {<<"created", t>>}
  /\ known' = known \cup {t} /\ sessions' = sessions \cup {t}
  /\ parked' = [parked EXCEPT ![t] = None]
  /\ phase' = [phase EXCEPT ![t] = "drive"]
  /\ work' = [work EXCEPT ![t] = {Call("attach", t, t)}]
  /\ IF parked[t] = None THEN SendNothing ELSE Send(t, Initiator(parked[t]))
  /\ UNCHANGED <<running, named, bySession, awaiting, routes, lifecycle, wireVars, sending,
                 pending, targetVars, channel, navVars, asked, queued, browser, link, made,
                 answered, events>>

(* Chrome attaches a session to t, for the task of t or for a user of       *)
(* Browser::execute.                                                       *)
Attaches(call, t, s) ==
  /\ call \in {Call("attach", t, t)} \cup {k \in browser : k.kind = "browser"}
  /\ call \in browser /\ link[s].st = "free" /\ <<"gone", t>> \notin facts
  /\ \A r \in Sessions : link[r].by # call
  /\ link' = [link EXCEPT ![s] = [at |-> t, by |-> call, st |-> "quiet"]]
  /\ UNCHANGED <<routerVars, hand, routes, inbox, lifecycle, wireVars, phase, work, sending,
                 pending, targetVars, channel, navVars, callerVars, browser, facts, made,
                 answered, events>>

(* The entry of t gets the session s, and s the slot of t; an older session *)
(* of t keeps its slot.                                                    *)
Named(t, s) == named' = [named EXCEPT ![t] = IF t \in sessions THEN s ELSE @]

(* on_attached_to_target, before or after the answer of the call.          *)
OnAttachedToTarget(s) ==
  LET t == link[s].at
  IN /\ Free /\ link[s].st = "quiet" /\ <<"gone", t>> \notin facts
     /\ link' = [link EXCEPT ![s].st = "open"]
     /\ IF t \in known
        THEN bySession' = [bySession EXCEPT ![s] = t] /\ Named(t, s)
        ELSE UNCHANGED <<bySession, named>>
     /\ UNCHANGED <<running, known, sessions, awaiting, parked, hand, routes, inbox, lifecycle,
                    wireVars, phase, work, sending, pending, targetVars, channel, navVars,
                    callerVars, browser, facts, made, answered, events>>

(* The tables without the entry of t and the session it names.             *)
Unregister(t) ==
  /\ known' = known \ {t} /\ sessions' = sessions \ {t}
  /\ named' = [named EXCEPT ![t] = None]
  /\ bySession' = [s \in Sessions |-> IF s = named[t] THEN None ELSE bySession[s]]

(* A faulty OnTargetGone: the router forgets the session itself instead of *)
(* waiting for Detached.                                                   *)
OnTargetGoneForgetting(t) ==
  /\ Free /\ <<"created", t>> \in facts /\ <<"gone", t>> \notin facts
  /\ facts' = facts \cup {<<"gone", t>>}
  /\ Unregister(t)
  /\ IF t \in sessions THEN Send(t, Shutdown) ELSE SendNothing
  /\ UNCHANGED <<running, awaiting, parked, routes, lifecycle, wireVars, phase, work, sending,
                 pending, targetVars, channel, navVars, asked, queued, browser, link, made,
                 answered, events>>

(* on_target_gone, for targetDestroyed and targetCrashed. *)
OnTargetGone(t) ==
  /\ Free /\ <<"created", t>> \in facts /\ <<"gone", t>> \notin facts
  /\ facts' = facts \cup {<<"gone", t>>}
  /\ IF t \in known \cap sessions THEN Send(t, Shutdown) ELSE SendNothing
  /\ UNCHANGED <<routerVars, routes, lifecycle, wireVars, phase, work, sending, pending,
                 targetVars, channel, navVars, asked, queued, browser, link, made, answered,
                 events>>

(* The session task that a session of Chrome is registered for.            *)
TaskOf(s) == {t \in sessions : bySession[s] = t}

(* detachedFromTarget, found by its session: whichever session of a target  *)
(* ends, its task is told to.                                              *)
OnDetachedFromTarget(s) ==
  /\ Free /\ link[s].st = "open"
  /\ link' = [link EXCEPT ![s].st = "closed"]
  /\ \/ \E t \in TaskOf(s) : Send(t, Shutdown)
     \/ TaskOf(s) = {} /\ SendNothing
  /\ UNCHANGED <<routerVars, routes, lifecycle, wireVars, phase, work, sending, pending,
                 targetVars, channel, navVars, asked, queued, browser, facts, made, answered,
                 events>>

(* An event of a session; one whose session is not registered is dropped.  *)
OnSessionEvent(s) ==
  /\ Free /\ link[s].st = "open" /\ events < MaxEvents
  /\ events' = events + 1
  /\ \/ \E t \in TaskOf(s) : Send(t, Event)
     \/ TaskOf(s) = {} /\ SendNothing
  /\ UNCHANGED <<routerVars, routes, lifecycle, wireVars, phase, work, sending, pending,
                 targetVars, channel, navVars, asked, queued, browser, facts, link, made,
                 answered>>

(* handle_router_response for Browser::execute. *)
Executed(call) ==
  /\ call.kind = "browser" /\ outcome' = Resolved({call.of}, "ok")
  /\ UNCHANGED <<made, parked, inbox, hand>>

(* handle_router_response for createTarget: an error, the target's session *)
(* is there, or the event of the target has still to come.                 *)
CreateFailed(call) ==
  /\ call.kind = "create" /\ outcome' = Resolved({call.of}, "failed")
  /\ UNCHANGED <<made, parked, inbox, hand>>

TargetMade(call, t) ==
  /\ call.kind = "create" /\ t \notin Ready /\ \A c \in Callers : made[c] # t
  /\ made' = [made EXCEPT ![call.of] = t]
  /\ \/ t \in known \cap sessions /\ Send(t, Initiator(call.of)) /\ UNCHANGED parked
     \/ t \in known \ sessions
        /\ outcome' = Resolved({call.of}, "failed")
        /\ UNCHANGED <<parked, inbox, hand>>
     \/ t \notin known
        /\ parked' = [parked EXCEPT ![t] = call.of]
        /\ UNCHANGED <<inbox, hand, outcome>>

(* What the answer of a call names: the session made for it, if any.       *)
AnswerOf(call) ==
  LET S == {s \in Sessions : call.kind = "attach" /\ link[s].by = call}
  IN IF S = {} THEN {None} ELSE S

(* on_response: by the routing table to the session, else to the router's  *)
(* own pending.                                                            *)
OnResponse(call) ==
  /\ Free /\ call \in browser
  /\ browser' = browser \ {call} /\ answered' = answered \cup {k \in {call} : k.kind \in Navigating}
  /\ routes' = routes \ {call} /\ awaiting' = awaiting \ {call}
  /\ \/ /\ call \in routes
        /\ \/ \E s \in AnswerOf(call) :
                call.slot \in sessions /\ Send(call.slot, Answered(call, s))
           \/ call.slot \notin sessions /\ SendNothing
        /\ UNCHANGED <<made, parked>>
     \/ /\ call \in awaiting
        /\ Executed(call) \/ CreateFailed(call) \/ \E t \in Targets : TargetMade(call, t)
     \/ /\ call \notin routes \cup awaiting
        /\ SendNothing /\ UNCHANGED <<made, parked>>
  /\ UNCHANGED <<running, known, sessions, named, bySession, lifecycle, wireVars, phase, work,
                 sending, pending, targetVars, channel, navVars, asked, queued, facts, link,
                 events>>

(* SessionAttached: the session is registered whether or not its entry is  *)
(* still there.                                                            *)
OnSessionAttached ==
  /\ Free /\ lifecycle # <<>> /\ Head(lifecycle)[1] = "attached"
  /\ LET t == Head(lifecycle)[2]
         s == Head(lifecycle)[3]
     IN bySession' = [bySession EXCEPT ![s] = t] /\ Named(t, s)
  /\ lifecycle' = Tail(lifecycle)
  /\ UNCHANGED <<running, known, sessions, awaiting, parked, hand, routes, inbox, wireVars,
                 phase, work, sending, pending, targetVars, channel, navVars, callerVars,
                 chromeVars>>

(* A faulty RemoveSession: the routes of the slot are kept. *)
RemoveSessionKeepingRoutes(t) ==
  Unregister(t) /\ UNCHANGED routes

(* remove_session. *)
RemoveSession(t) ==
  IF t \in sessions
  THEN /\ Unregister(t)
       /\ routes' = {call \in routes : call.slot # t}
  ELSE UNCHANGED <<known, sessions, named, bySession, routes>>

OnDetached ==
  /\ Free /\ lifecycle # <<>> /\ Head(lifecycle)[1] = "detached"
  /\ RemoveSession(Head(lifecycle)[2])
  /\ lifecycle' = Tail(lifecycle)
  /\ UNCHANGED <<running, awaiting, parked, hand, inbox, wireVars, phase, work, sending,
                 pending, targetVars, channel, navVars, callerVars, chromeVars>>

(* A faulty Evict: initiators that are parked are forgotten. *)
EvictPendingOnly(S, P) ==
  /\ S # {}
  /\ awaiting' = awaiting \ S
  /\ outcome' = Resolved(Users(S, BrowserKinds), "timeout")
  /\ UNCHANGED parked

(* evict_router_pending with the calls S and the initiators parked for P   *)
(* past their deadline.                                                    *)
Evict(S, P) ==
  /\ S # {} \/ P # {}
  /\ awaiting' = awaiting \ S
  /\ parked' = [t \in Targets |-> IF t \in P THEN None ELSE parked[t]]
  /\ outcome' = Resolved(Users(S, BrowserKinds) \cup {parked[t] : t \in P}, "timeout")

RouterTick ==
  /\ Free
  /\ \E S \in SUBSET awaiting, P \in SUBSET {t \in Targets : parked[t] # None} : Evict(S, P)
  /\ UNCHANGED <<running, known, sessions, named, bySession, hand, routes, inbox, lifecycle,
                 wireVars, phase, work, sending, pending, targetVars, channel, navVars, asked,
                 queued, chromeVars>>

(* The reader or the last Browser is gone: every session with room gets a  *)
(* Shutdown, and the router with all it holds is dropped.                  *)
RouterEnds ==
  /\ Free
  /\ running' = FALSE
  /\ inbox' = [t \in Targets |->
                IF t \in sessions /\ phase[t] # "ended" /\ Len(inbox[t]) < InboxCapacity
                THEN Append(inbox[t], Shutdown) ELSE inbox[t]]
  /\ outcome' = Resolved(queued \cup Users(awaiting, BrowserKinds)
                           \cup {parked[t] : t \in Targets}, "cancelled")
  /\ queued' = {} /\ awaiting' = {} /\ parked' = [t \in Targets |-> None]
  /\ UNCHANGED <<known, sessions, named, bySession, hand, routes, lifecycle, wireVars, phase,
                 work, sending, pending, targetVars, channel, navVars, asked, chromeVars>>

-----------------------------------------------------------------------------
(* The sessions *)

(* drive() starts with the whole page channel. *)
StartDrive(t) ==
  /\ phase' = [phase EXCEPT ![t] = "drive"]
  /\ work' = [work EXCEPT ![t] = @ \cup {Call(asked[c].kind, c, t) : c \in channel[t]}]
  /\ channel' = [channel EXCEPT ![t] = {}]

(* The loop takes the next message of its inbox. *)
Takes(t, type) ==
  /\ phase[t] = "select" /\ inbox[t] # <<>> /\ Head(inbox[t]).type = type
  /\ inbox' = [inbox EXCEPT ![t] = Tail(@)]

(* A faulty SessionResponse: a goto ends with the answer of its call.      *)
SessionResponseAtOnce(t, call, s) ==
  \/ /\ call.kind = "attach"
     /\ IF s # None THEN sid' = [sid EXCEPT ![t] = s] /\ TrySend(Attached(t, s))
                    ELSE UNCHANGED <<sid, lifecycle>>
     /\ UNCHANGED <<navs, outcome>>
  \/ /\ call.kind \in {"command"} \cup Navigating /\ outcome' = Resolved({call.of}, "ok")
     /\ UNCHANGED <<sid, lifecycle, navs>>
  \/ call.kind = "close" /\ UNCHANGED <<sid, lifecycle, navs, outcome>>

(* on_response of a session, for a call it still has pending.  The attach  *)
(* call of a target is its only one, so its session is reported once.      *)
SessionResponse(t, call, s) ==
  \/ /\ call.kind = "attach"
     /\ IF s # None THEN sid' = [sid EXCEPT ![t] = s] /\ TrySend(Attached(t, s))
                    ELSE UNCHANGED <<sid, lifecycle>>
     /\ UNCHANGED <<navs, outcome>>
  \/ /\ call.kind = "command" /\ outcome' = Resolved({call.of}, "ok")
     /\ UNCHANGED <<sid, lifecycle, navs>>
  \/ /\ call.kind \in Navigating
     /\ \/ /\ navs[call.of] = "navigated"
           /\ outcome' = Resolved({call.of}, "ok")
           /\ navs' = [navs EXCEPT ![call.of] = "none"]
        \/ /\ navs[call.of] \in {"open", "responded"}
           /\ navs' = [navs EXCEPT ![call.of] = "responded"]
           /\ UNCHANGED outcome
        \/ navs[call.of] = "none" /\ UNCHANGED <<navs, outcome>>
     /\ UNCHANGED <<sid, lifecycle>>
  \/ call.kind = "close" /\ UNCHANGED <<sid, lifecycle, navs, outcome>>

TakeResponse(t) ==
  /\ Takes(t, "response")
  /\ LET m == Head(inbox[t])
     IN IF m.call \in pending[t]
        THEN /\ pending' = [pending EXCEPT ![t] = @ \ {m.call}]
             /\ SessionResponse(t, m.call, m.session)
        ELSE UNCHANGED <<pending, sid, lifecycle, navs, outcome>>
  /\ StartDrive(t)
  /\ UNCHANGED <<routerVars, hand, routes, wireVars, sending, initiator, page, stage,
                 mainLoaded, lost, watch, loaded, asked, queued, chromeVars>>

(* target.on_event: the event may be the one a navigation watcher waits    *)
(* for, and the main frame may be loaded after it, or no longer.           *)
TakeEvent(t) ==
  /\ Takes(t, "event")
  /\ mainLoaded' \in {mainLoaded \cup {t}, mainLoaded \ {t}}
  /\ \/ \E c \in Callers :
          /\ asked[c].at = t /\ watch[c] = "active"
          /\ watch' = [watch EXCEPT ![c] = "loaded"]
          /\ loaded' = loaded \cup {c}
     \/ UNCHANGED <<watch, loaded>>
  /\ StartDrive(t)
  /\ UNCHANGED <<routerVars, hand, routes, lifecycle, wireVars, sending, pending, sid,
                 initiator, page, stage, lost, navs, callerVars, chromeVars>>

TakeInitiator(t) ==
  /\ Takes(t, "initiator")
  /\ initiator' = [initiator EXCEPT ![t] = Head(inbox[t]).of]
  /\ StartDrive(t)
  /\ UNCHANGED <<routerVars, hand, routes, lifecycle, wireVars, sending, pending, sid, page,
                 stage, mainLoaded, lost, navVars, callerVars, chromeVars>>

(* The page sender wakes the loop, which prefers its inbox. *)
PageWake(t) ==
  /\ phase[t] = "select" /\ inbox[t] = <<>> /\ channel[t] # {}
  /\ StartDrive(t)
  /\ UNCHANGED <<routerVars, hand, routes, inbox, lifecycle, wireVars, sending, pending,
                 targetVars, navVars, callerVars, chromeVars>>

(* evict_stale with the calls S past their deadline. *)
EvictStale(t, S) ==
  /\ pending' = [pending EXCEPT ![t] = @ \ S]
  /\ routes' = routes \ S
  /\ navs' = [c \in Callers |-> IF c \in Users(S, Navigating) THEN "none" ELSE navs[c]]
  /\ outcome' = Resolved(Users(S, {"command"})
                  \cup {c \in Users(S, Navigating) : navs[c] # "none"}, "timeout")

(* The eviction tick: calls S are given up, and in the drive that follows  *)
(* the watchers of W find that their deadline has passed.  A tick that     *)
(* finds nothing stale changes nothing.                                    *)
SessionTick(t) ==
  /\ phase[t] = "select" /\ inbox[t] = <<>>
  /\ \E S \in SUBSET pending[t],
        W \in SUBSET {c \in Callers : asked[c].at = t /\ watch[c] = "active"} :
       /\ S # {} \/ W # {}
       /\ EvictStale(t, S)
       /\ watch' = [c \in Callers |-> IF c \in W THEN "late" ELSE watch[c]]
  /\ StartDrive(t)
  /\ UNCHANGED <<routerVars, hand, inbox, lifecycle, wireVars, sending, targetVars, loaded,
                 asked, queued, chromeVars>>

(* The chains of an attached target end, at the latest at the tick after   *)
(* the deadline of a command: the target is initialised, or is closed with *)
(* an error for the initiator it holds (on_initialization_failed).         *)
InitEnds(t) ==
  /\ phase[t] = "select" /\ sid[t] # None /\ stage[t] = "chain"
  /\ phase' = [phase EXCEPT ![t] = "drive"]
  /\ \/ /\ stage' = [stage EXCEPT ![t] = "initialized"]
        /\ UNCHANGED <<work, initiator, outcome>>
     \/ /\ stage' = [stage EXCEPT ![t] = "closing"]
        /\ work' = [work EXCEPT ![t] = @ \cup {Call("close", t, t)}]
        /\ outcome' = Resolved({initiator[t]}, "failed")
        /\ initiator' = [initiator EXCEPT ![t] = None]
  /\ UNCHANGED <<routerVars, hand, routes, inbox, lifecycle, wireVars, sending, pending, sid,
                 page, mainLoaded, lost, channel, navVars, asked, queued, chromeVars>>

(* An initialised target hands its page out once the main frame is loaded. *)
PageDue(t) == stage[t] = "initialized" /\ t \in mainLoaded /\ initiator[t] # None

HandPage(t) ==
  /\ phase[t] = "drive" /\ sending[t] = None /\ PageDue(t)
  /\ outcome' = Resolved({initiator[t]}, "ok")
  /\ initiator' = [initiator EXCEPT ![t] = None]
  /\ page' = page \cup {t}
  /\ UNCHANGED <<routerVars, hand, routes, inbox, lifecycle, wireVars, phase, work, sending,
                 pending, sid, stage, mainLoaded, lost, channel, navVars, asked, queued,
                 chromeVars>>

(* advance() has handed out the page and is asked for its next event.      *)
Driving(t) == phase[t] = "drive" /\ sending[t] = None /\ ~PageDue(t)

(* A goto is given to the frame manager before its command is sent. *)
Watched(call) ==
  watch' = IF call.kind = "navigate" THEN [watch EXCEPT ![call.of] = "queued"] ELSE watch

(* submit_internal, submit_external, submit_navigation_command and         *)
(* submit_nav_request: alloc_call_id routes the id, then room at the       *)
(* writer is awaited.                                                      *)
Submit(t, call) ==
  /\ Driving(t) /\ call \in work[t]
  /\ work' = [work EXCEPT ![t] = @ \ {call}]
  /\ routes' = routes \cup {call}
  /\ sending' = [sending EXCEPT ![t] = call]
  /\ Watched(call)
  /\ UNCHANGED <<routerVars, hand, inbox, lifecycle, wireVars, phase, pending, targetVars,
                 channel, navs, loaded, callerVars, chromeVars>>

(* The writer takes the call; the session has noted it before it reads its *)
(* inbox again, where the answer may be by then.                           *)
Written(t) ==
  /\ sending[t] # None /\ writer /\ Len(wire) < WireCapacity
  /\ sending' = [sending EXCEPT ![t] = None]
  /\ wire' = Append(wire, sending[t])
  /\ pending' = [pending EXCEPT ![t] = @ \cup {sending[t]}]
  /\ navs' = IF sending[t].kind = "navigate" THEN [navs EXCEPT ![sending[t].of] = "open"] ELSE navs
  /\ UNCHANGED <<routerVars, hand, routes, inbox, lifecycle, writer, phase, work, targetVars,
                 channel, watch, loaded, callerVars, chromeVars>>

(* The writer is gone: the route stays, nothing is pending.                *)
WriterGone(t) ==
  /\ sending[t] # None /\ ~writer
  /\ sending' = [sending EXCEPT ![t] = None]
  /\ \/ /\ sending[t].kind = "renavigate"
        /\ outcome' = Resolved({sending[t].of}, "cancelled")
        /\ navs' = [navs EXCEPT ![sending[t].of] = "none"]
     \/ /\ sending[t].kind # "renavigate"
        /\ outcome' = Resolved({sending[t].of}, "failed")
        /\ UNCHANGED navs
  /\ UNCHANGED <<routerVars, hand, routes, inbox, lifecycle, wireVars, phase, work, pending,
                 targetVars, channel, watch, loaded, asked, queued, chromeVars>>

Watching(t, state) == {c \in Callers : asked[c].at = t /\ watch[c] = state}

(* TargetEvent::NavigationRequest: the frame manager has the next          *)
(* navigation carried out when none is under way.                          *)
NavigationRequest(t, c) ==
  /\ Driving(t) /\ c \in Watching(t, "queued")
  /\ Watching(t, "active") \cup Watching(t, "loaded") \cup Watching(t, "late") = {}
  /\ watch' = [watch EXCEPT ![c] = "active"]
  /\ work' = [work EXCEPT ![t] = @ \cup {Call("renavigate", c, t)}]
  /\ UNCHANGED <<routerVars, hand, routes, inbox, lifecycle, wireVars, phase, sending, pending,
                 targetVars, channel, navs, loaded, callerVars, chromeVars>>

(* on_navigation_lifecycle_completed. *)
NavigationResult(t, c) ==
  /\ Driving(t) /\ c \in Watching(t, "loaded") \cup Watching(t, "late")
  /\ watch' = [watch EXCEPT ![c] = "none"]
  /\ \/ navs[c] = "none" /\ UNCHANGED <<navs, outcome>>
     \/ /\ watch[c] = "loaded" /\ navs[c] = "responded"
        /\ navs' = [navs EXCEPT ![c] = "none"] /\ outcome' = Resolved({c}, "ok")
     \/ /\ watch[c] = "loaded" /\ navs[c] = "open"
        /\ navs' = [navs EXCEPT ![c] = "navigated"] /\ UNCHANGED outcome
     \/ /\ watch[c] = "late" /\ navs[c] # "none"
        /\ navs' = [navs EXCEPT ![c] = "none"] /\ outcome' = Resolved({c}, "timeout")
  /\ UNCHANGED <<routerVars, hand, routes, inbox, lifecycle, wireVars, phase, work, sending,
                 pending, targetVars, channel, loaded, asked, queued, chromeVars>>

(* advance() has nothing more to do. *)
EndDrive(t) ==
  /\ Driving(t) /\ work[t] = {}
  /\ Watching(t, "loaded") \cup Watching(t, "late") = {}
  /\ Watching(t, "queued") # {} => Watching(t, "active") # {}
  /\ phase' = [phase EXCEPT ![t] = "select"]
  /\ UNCHANGED <<routerVars, hand, routes, inbox, lifecycle, wireVars, work, sending, pending,
                 targetVars, channel, navVars, callerVars, chromeVars>>

(* Shutdown, or the router is gone and the inbox is read: cancel_in_flight. *)
Exit(t) ==
  /\ phase[t] = "select"
  /\ \/ inbox[t] # <<>> /\ Head(inbox[t]) = Shutdown
        /\ inbox' = [inbox EXCEPT ![t] = Tail(@)]
     \/ inbox[t] = <<>> /\ ~running /\ UNCHANGED inbox
  /\ phase' = [phase EXCEPT ![t] = "exit"]
  /\ outcome' = Resolved(Users(pending[t], {"command"})
                  \cup {c \in Callers : asked[c].at = t /\ navs[c] # "none"}, "failed")
  /\ pending' = [pending EXCEPT ![t] = {}]
  /\ navs' = [c \in Callers |-> IF asked[c].at = t THEN "none" ELSE navs[c]]
  /\ UNCHANGED <<routerVars, hand, routes, lifecycle, wireVars, work, sending, targetVars,
                 channel, watch, loaded, asked, queued, chromeVars>>

(* A faulty ReportDetached: room in the lifecycle channel is awaited. *)
ReportDetachedAwaiting(t) ==
  /\ running => Len(lifecycle) < LifecycleCapacity
  /\ TrySend(Detached(t))
  /\ UNCHANGED lost

(* try_send of Detached, which a full channel loses. *)
ReportDetached(t) ==
  /\ TrySend(Detached(t))
  /\ lost' = IF running /\ Len(lifecycle) = LifecycleCapacity THEN lost \cup {t} ELSE lost

(* The task returns, and with it the target, the inbox and the page        *)
(* channel are dropped.                                                    *)
End(t) ==
  /\ phase[t] = "exit"
  /\ ReportDetached(t)
  /\ phase' = [phase EXCEPT ![t] = "ended"]
  /\ outcome' = Resolved(InitiatorsIn(inbox[t]) \cup {initiator[t]} \cup channel[t], "cancelled")
  /\ inbox' = [inbox EXCEPT ![t] = <<>>]
  /\ initiator' = [initiator EXCEPT ![t] = None]
  /\ channel' = [channel EXCEPT ![t] = {}]
  /\ watch' = [c \in Callers |-> IF asked[c].at = t THEN "none" ELSE watch[c]]
  /\ UNCHANGED <<routerVars, hand, routes, wireVars, work, sending, pending, sid, page, stage,
                 mainLoaded, navs, loaded, asked, queued, chromeVars>>

-----------------------------------------------------------------------------
Router ==
  \/ HandOver \/ OnSessionAttached \/ OnDetached \/ RouterTick \/ RouterEnds
  \/ \E c \in Callers : OnBrowserMessage(c)
  \/ \E t \in Targets : OnTargetCreated(t) \/ OnTargetGone(t)
  \/ \E s \in Sessions : OnAttachedToTarget(s) \/ OnDetachedFromTarget(s) \/ OnSessionEvent(s)
  \/ \E call \in browser : OnResponse(call)

Session(t) ==
  \/ TakeResponse(t) \/ TakeEvent(t) \/ TakeInitiator(t) \/ PageWake(t) \/ SessionTick(t)
  \/ InitEnds(t) \/ HandPage(t) \/ Written(t) \/ WriterGone(t) \/ EndDrive(t) \/ Exit(t)
  \/ End(t)
  \/ \E call \in work[t] : Submit(t, call)
  \/ \E c \in Callers : NavigationRequest(t, c) \/ NavigationResult(t, c)

Asks ==
  \E c \in Callers : \/ \E kind \in BrowserKinds : AskBrowser(c, kind)
                     \/ \E kind \in PageKinds, t \in Targets : AskPage(c, kind, t)

Chrome == \E call \in browser, t \in Targets, s \in Sessions : Attaches(call, t, s)

Next ==
  Asks \/ WriterTakes \/ WriterCloses \/ Router \/ Chrome \/ \E t \in Targets : Session(t)

(* The tasks run on a multi-threaded runtime, their interval ticks always  *)
(* come, the chains of an attached target end by a deadline that a tick    *)
(* finds, and the writer takes calls as long as the socket does; an        *)
(* aborted writer closes.  Nothing is assumed of Chrome's answers and      *)
(* events.                                                                 *)
Fairness ==
  /\ WF_vars(WriterTakes) /\ WF_vars(~running /\ WriterCloses)
  /\ WF_vars(HandOver) /\ WF_vars(RouterTick)
  /\ WF_vars(OnSessionAttached) /\ WF_vars(OnDetached)
  /\ \A c \in Callers : WF_vars(OnBrowserMessage(c))
  /\ \A t \in Targets : WF_vars(Session(t)) /\ WF_vars(SessionTick(t)) /\ WF_vars(InitEnds(t))

Spec == Init /\ [][Next]_vars /\ Fairness

-----------------------------------------------------------------------------
(* The task of t is on its way out of the tables: its Detached is still to *)
(* come or to be read, unless it was lost or nobody reads it any more.     *)
Leaving(t) ==
  \/ phase[t] = "exit"
  \/ /\ phase[t] = "ended"
     /\ \/ \E i \in DOMAIN lifecycle : lifecycle[i] = Detached(t)
        \/ t \in lost
        \/ ~running

(* The routing table never outgrows what is under way: a route leads to a  *)
(* session that is registered and has the call pending or is just sending  *)
(* it, unless its task is leaving or the writer is gone, which refuses     *)
(* calls that stay routed.  (CallIdAllocator: the live entries are the     *)
(* commands in flight; late answers find no route.)                        *)
RoutesPending ==
  \A call \in routes :
    /\ call.slot \in sessions
    /\ \/ call \in pending[call.slot]
       \/ call = sending[call.slot]
       \/ Leaving(call.slot)
       \/ ~writer

(* The router's tables agree although four messages, in any order, fill    *)
(* and empty them.  An entry names a session only while it is there and    *)
(* the session leads back to it; a session leads to the target Chrome made *)
(* it for, and is unnamed only when the target got another session, so     *)
(* that removing an entry leaves nothing of a target attached once; the    *)
(* entry of a task that has ended is about to go, or its Detached was      *)
(* lost.  An initiator is parked only for a target that is not there,      *)
(* where the event of the target will find it.                             *)
TablesAgree ==
  /\ known = sessions
  /\ \A t \in Targets :
       /\ named[t] # None => t \in sessions /\ bySession[named[t]] = t
       /\ t \in sessions /\ phase[t] = "ended" => Leaving(t)
       /\ t \in sessions => parked[t] = None
  /\ \A s \in Sessions : bySession[s] # None =>
       /\ link[s].at = bySession[s]
       /\ \/ named[bySession[s]] = s
          \/ \E r \in Sessions \ {s} : link[r].at = bySession[s]

(* A goto ends well only after Chrome has answered a navigation call of it *)
(* and its watcher has completed, in whichever order they come.            *)
NavigationComplete ==
  \A c \in Callers :
    asked[c].kind = "navigate" /\ outcome[c] = "ok" =>
      /\ c \in loaded
      /\ \E k \in Navigating : Call(k, c, asked[c].at) \in answered

(* The router does not wait forever for room in an inbox or at the writer: *)
(* a session that waits itself, or ends, never waits for the router.       *)
RouterUnblocks == (hand # NoHand) ~> (hand = NoHand)

(* The target that holds an initiator and for which nothing is to come but *)
(* from Chrome: it has no session, its main frame is not loaded, or it got *)
(* the initiator while it was closing.                                     *)
Holding(t) == sid[t] = None \/ stage[t] = "closing" \/ t \notin mainLoaded

(* Whoever asked gets an answer, an error or a cancelled one-shot,         *)
(* whichever answers and events Chrome leaves out and whichever task ends. *)
(* Only a request for a new page may wait for Chrome, once its target      *)
(* holds it: until the target is attached, until its main frame is loaded, *)
(* or until it is gone when its initialisation failed before.              *)
EveryCallerEnds ==
  \A c \in Callers :
    (outcome[c] = "waiting") ~> (\/ outcome[c] # "waiting"
                                 \/ \E t \in Targets : initiator[t] = c /\ Holding(t))

(* The Router "will reap our slot on its eviction tick / via the           *)
(* closed-router_rx detection on its next send attempt": that the entry of *)
(* a task that has ended goes, whether its Detached was lost or not.       *)
SlotsReaped ==
  \A t \in Targets : (phase[t] = "ended") ~> (t \notin sessions \/ ~running)
=============================================================================
