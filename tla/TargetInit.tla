----------------------------- MODULE TargetInit -----------------------------
(***************************************************************************)
(* One page target from its creation to its end: the chains of commands    *)
(* that initialize it (Target::poll, Target::advance and CommandChain),    *)
(* the caller who waits for its page, and what the users of the page ask   *)
(* of it meanwhile: commands, and waiting for the load event.              *)
(*                                                                         *)
(* The target does nothing by itself: the handler polls it until it has    *)
(* nothing to report and again when something woke the handler.  `woken'   *)
(* is that debt.  A step is one round of Target::poll up to the event it   *)
(* returns.                                                                *)
(***************************************************************************)
EXTENDS Naturals, FiniteSets

CONSTANTS
  Users,          (* Users of the page; each has one message at a time.    *)
  Commanders,     (* Those who send a command; the others wait for load.   *)
  Skipped,        (* Chains the configuration of the target leaves out.    *)
  ChainLength,    (* Commands of a chain.                                  *)
  WaiterBudget,   (* WAITER_DRAIN_BUDGET, 64 in the code.                  *)
  MaxTargets,     (* Bound: times the target is created under its id.      *)
  MaxAttaches     (* Bound: times a session is attached.                   *)

ASSUME CommandersAssumption == Commanders \subseteq Users
ASSUME SkippedAssumption == Skipped \subseteq {"world", "emulation"}
ASSUME BoundsAssumption ==
  /\ ChainLength \in Nat \ {0} /\ WaiterBudget \in Nat \ {0}
  /\ MaxTargets \in Nat \ {0} /\ MaxAttaches \in Nat

(* The first two chains are both TargetInit::InitializingFrame.            *)
Chains == <<"frame", "world", "network", "page", "emulation">>
FrameChains == {"frame", "world"}
Phases == {"attach", "initialized", "closing", "gone"} \cup {Chains[i] : i \in 1..5}

(* A call on its way to the browser or back: the Target it was made for,   *)
(* and its method, which is all that the answer is matched by.             *)
Calls == [target : 1..MaxTargets, phase : Phases, number : 0..ChainLength]

VARIABLES
  driver,       (* "poll" (Stream) or "run".                               *)
  target,       (* How many Targets were made under this id.               *)
  phase,        (* init_state.                                             *)
  sent,         (* Commands the current chain has issued.                  *)
  waiting,      (* CommandChain::waiting: "no", "yes", "late".             *)
  session,      (* Is session_id set?                                      *)
  attaches,
  wire,         (* Internal calls that are not answered.                   *)
  misled,       (* Did an answer meant for an earlier Target count?        *)
  initiator,    (* "none", "waiting", "answered" (also: dropped).          *)
  page,         (* Is there a page handle?                                 *)
  loaded,       (* Has the main frame loaded?                              *)
  message,      (* Where the message of each user is.                      *)
  woken

chainVars == <<phase, sent, waiting>>
linkVars  == <<session, attaches>>
vars == <<driver, target, chainVars, linkVars, wire, misled, initiator, page,
          loaded, message, woken>>

(* With its user (not sent yet, submitted, answered or dropped), in the    *)
(* channel of the page, in queued_events, in wait_for_load.                *)
Places == {"user", "channel", "queued", "waiter"}

At(place) == {u \in Users : message[u] = place}

TypeOK ==
  /\ driver \in {"poll", "run"}
  /\ target \in 1..MaxTargets
  /\ phase \in Phases
  /\ sent \in 0..ChainLength
  /\ waiting \in {"no", "yes", "late"}
  /\ session \in BOOLEAN /\ attaches \in 0..MaxAttaches
  /\ wire \subseteq Calls
  /\ misled \in BOOLEAN
  /\ initiator \in {"none", "waiting", "answered"}
  /\ page \in BOOLEAN /\ loaded \in BOOLEAN /\ woken \in BOOLEAN
  /\ message \in [Users -> Places]

Init ==
  /\ driver \in {"poll", "run"}
  /\ target = 1
  /\ phase = "attach"
  /\ sent = 0
  /\ waiting = "no"
  /\ session = FALSE /\ attaches = 0
  /\ wire = {}
  /\ misled = FALSE
  /\ initiator = "none"
  /\ page = FALSE /\ loaded = FALSE
  /\ message = [u \in Users |-> "user"]
  /\ woken = TRUE

-----------------------------------------------------------------------------
(* Rounds of Target::poll and Target::advance                              *)

Call(p, n) == [target |-> target, phase |-> p, number |-> n]

PollAttach ==
  /\ woken
  /\ phase = "attach"
  /\ phase' = "frame" /\ sent' = 0 /\ waiting' = "no"
  /\ wire' = wire \cup {Call("attach", 0)}
  /\ UNCHANGED <<driver, target, linkVars, misled, initiator, page, loaded,
                 message, woken>>

(* The frame's chains are not even looked at without a session.            *)
ChainPolled ==
  /\ woken
  /\ \E i \in 1..5 : Chains[i] = phase
  /\ phase \in FrameChains => session

(* A faulty NextCommand: one command past the end of the chain.            *)
NextCommandPastEnd ==
  /\ waiting = "no" /\ sent <= ChainLength
  /\ sent' = sent + 1 /\ waiting' = "yes"
  /\ wire' = wire \cup {Call(phase, sent + 1)}

(* CommandChain::poll issues the next command.                             *)
NextCommand ==
  /\ waiting = "no" /\ sent < ChainLength
  /\ sent' = sent + 1 /\ waiting' = "yes"
  /\ wire' = wire \cup {Call(phase, sent + 1)}

PollCommand ==
  /\ ChainPolled
  /\ NextCommand
  /\ UNCHANGED <<driver, target, phase, linkVars, misled, initiator, page,
                 loaded, message, woken>>

Following(p) ==
  LET later == {i \in 1..5 : /\ \E j \in 1..(i - 1) : Chains[j] = p
                             /\ Chains[i] \notin Skipped}
  IN  IF later = {} THEN "initialized"
      ELSE Chains[CHOOSE i \in later : \A j \in later : i <= j]

(* The chain is done; poll goes on with the next one.                      *)
PollNextChain ==
  /\ ChainPolled
  /\ waiting = "no" /\ sent = ChainLength
  /\ phase' = Following(phase) /\ sent' = 0
  /\ UNCHANGED <<driver, target, waiting, linkVars, wire, misled, initiator,
                 page, loaded, message, woken>>

(* on_initialization_failed; the browser is asked to close the target.     *)
InitializationFailed ==
  /\ phase' = "closing" /\ sent' = 0 /\ waiting' = "no"
  /\ initiator' = IF initiator = "waiting" THEN "answered" ELSE initiator

PollDeadline ==
  /\ ChainPolled
  /\ waiting = "late"
  /\ InitializationFailed
  /\ UNCHANGED <<driver, target, linkVars, wire, misled, page, loaded,
                 message, woken>>

(* Nothing to report.  run() comes back if a page sent something since.    *)
PollIdle ==
  /\ woken
  /\ \/ phase \in FrameChains /\ ~session
     \/ \E i \in 1..5 : Chains[i] = phase /\ waiting = "yes"
     \/ phase = "closing"
  /\ driver = "run" => At("channel") = {}
  /\ woken' = FALSE
  /\ UNCHANGED <<driver, target, chainVars, linkVars, wire, misled, initiator,
                 page, loaded, message>>

-----------------------------------------------------------------------------
(* A target that is initialized                                            *)

(* drain_waiters_bounded fires at most a budget of waiters; advance fires  *)
(* them all.                                                               *)
Fired ==
  IF ~loaded THEN {{}}
  ELSE IF driver = "run" THEN {At("waiter")}
  ELSE {F \in SUBSET At("waiter") :
          Cardinality(F) = IF Cardinality(At("waiter")) < WaiterBudget
                           THEN Cardinality(At("waiter")) ELSE WaiterBudget}

Move(places, U, place) == [u \in Users |-> IF u \in U THEN place ELSE places[u]]

(* A message read from the channel of the page.                            *)
Read(places) ==
  [u \in Users |->
     IF places[u] # "channel" THEN places[u]
     ELSE IF u \in Commanders THEN "queued"
     ELSE IF loaded THEN "user" ELSE "waiter"]

(* The initiator gets its page once the main frame has loaded.             *)
PageDelivered == initiator = "waiting" /\ loaded /\ (page \/ session)

(* A faulty Rewake: the remainder is left to the next event.               *)
RewakeNever(fired) == FALSE

(* Waiters beyond the budget wake the handler for another round.           *)
Rewake(fired) == loaded /\ At("waiter") \ fired # {}

PollInitialized ==
  /\ woken
  /\ phase = "initialized"
  /\ initiator' = IF PageDelivered THEN "answered" ELSE initiator
  /\ page' = (page \/ PageDelivered)
  /\ \E fired \in Fired :
       LET places == Move(message, fired, "user") IN
       \/ \E u \in At("queued") :
            /\ message' = Move(places, {u}, "user")
            /\ UNCHANGED woken
       \/ /\ At("queued") = {}
          /\ message' = IF driver = "poll" THEN Read(places) ELSE places
          /\ woken' = \/ Rewake(fired)
                      \/ \E u \in At("channel") : driver = "run" \/ u \in Commanders
  /\ UNCHANGED <<driver, target, chainVars, linkVars, wire, misled, loaded>>

(* run() empties the channel of a page first, whatever the target's state; *)
(* a target that is closing drops what it gets.                            *)
ReadPage ==
  /\ woken
  /\ driver = "run"
  /\ phase # "gone"
  /\ At("channel") # {}
  /\ message' = IF phase = "closing" THEN Move(message, At("channel"), "user")
                ELSE Read(message)
  /\ UNCHANGED <<driver, target, chainVars, linkVars, wire, misled, initiator,
                 page, loaded, woken>>

-----------------------------------------------------------------------------
(* What reaches the target                                                 *)

Wake == woken' = (phase # "gone")

(* A faulty Matches: any answer counts.                                    *)
MatchesAnyMethod(c) == waiting # "no"

(* The browser answers; an answer carries nothing but the method.  The     *)
(* answer to attachToTarget may be an error.                               *)
Matches(c) == waiting # "no" /\ c.phase = phase /\ c.number = sent

Answer(c) ==
  /\ wire' = wire \ {c}
  /\ \/ c.phase = "attach" /\ attaches < MaxAttaches
        /\ session' = TRUE /\ attaches' = attaches + 1
     \/ UNCHANGED linkVars
  /\ waiting' = IF Matches(c) THEN "no" ELSE waiting
  /\ misled' = (misled \/ (Matches(c) /\ c.target # target))
  /\ Wake
  /\ UNCHANGED <<driver, target, phase, sent, initiator, page, loaded, message>>

AttachedToTarget ==
  /\ phase # "gone"
  /\ attaches < MaxAttaches
  /\ session' = TRUE /\ attaches' = attaches + 1
  /\ Wake
  /\ UNCHANGED <<driver, target, chainVars, wire, misled, initiator, page,
                 loaded, message>>

DetachedFromTarget ==
  /\ session
  /\ session' = FALSE
  /\ Wake
  /\ UNCHANGED <<driver, target, chainVars, attaches, wire, misled, initiator,
                 page, loaded, message>>

(* Events of the page reach the target through its session.                *)
FrameEvent ==
  /\ phase # "gone"
  /\ session
  /\ loaded' = ~loaded
  /\ Wake
  /\ UNCHANGED <<driver, target, chainVars, linkVars, wire, misled, initiator,
                 page, message>>

(* The answer to createTarget names the one who waits for the page.        *)
SetInitiator ==
  /\ phase # "gone"
  /\ initiator = "none"
  /\ initiator' = "waiting"
  /\ Wake
  /\ UNCHANGED <<driver, target, chainVars, linkVars, wire, misled, page,
                 loaded, message>>

(* GetPages and GetPage make the page as soon as there is a session.       *)
GetPage ==
  /\ phase # "gone"
  /\ session /\ ~page
  /\ page' = TRUE
  /\ Wake
  /\ UNCHANGED <<driver, target, chainVars, linkVars, wire, misled, initiator,
                 loaded, message>>

(* A user sends its message.  The Stream is woken only if the channel was  *)
(* polled.                                                                 *)
Send(u) ==
  /\ page
  /\ phase # "gone"
  /\ message[u] = "user"
  /\ message' = [message EXCEPT ![u] = "channel"]
  /\ woken' = (woken \/ driver = "run" \/ phase = "initialized")
  /\ UNCHANGED <<driver, target, chainVars, linkVars, wire, misled, initiator,
                 page, loaded>>

(* The user's future timed out: its waiter is pruned, its command is not.  *)
GiveUp(u) ==
  /\ message[u] = "waiter"
  /\ message' = [message EXCEPT ![u] = "user"]
  /\ UNCHANGED <<driver, target, chainVars, linkVars, wire, misled, initiator,
                 page, loaded, woken>>

(* Everything a Target owns is dropped with it.                            *)
DroppedWithTarget ==
  /\ message' = [u \in Users |-> "user"]
  /\ initiator' = IF initiator = "waiting" THEN "answered" ELSE initiator
  /\ session' = FALSE /\ page' = FALSE /\ loaded' = FALSE
  /\ sent' = 0 /\ waiting' = "no"

(* on_target_created puts a new Target in the place of this one.           *)
Replaced ==
  /\ phase # "gone"
  /\ target < MaxTargets
  /\ target' = target + 1
  /\ phase' = "attach"
  /\ DroppedWithTarget
  /\ woken' = TRUE
  /\ UNCHANGED <<driver, attaches, wire, misled>>

(* Destroyed or crashed.  The answers to come find no target.              *)
Removed ==
  /\ phase # "gone"
  /\ phase' = "gone"
  /\ DroppedWithTarget
  /\ woken' = FALSE
  /\ wire' = {}
  /\ UNCHANGED <<driver, target, attaches, misled>>

(* Time                                                                    *)

DeadlinePasses ==
  /\ waiting = "yes"
  /\ waiting' = "late"
  /\ UNCHANGED <<driver, target, phase, sent, linkVars, wire, misled, initiator,
                 page, loaded, message, woken>>

(* A faulty Tick: the timer only evicts pending commands.                  *)
TickEvictsOnly == UNCHANGED vars

(* The periodic job of the Stream, the eviction timer of run().            *)
Tick ==
  /\ Wake
  /\ UNCHANGED <<driver, target, chainVars, linkVars, wire, misled, initiator,
                 page, loaded, message>>

-----------------------------------------------------------------------------
Poll ==
  \/ PollAttach \/ PollCommand \/ PollNextChain \/ PollDeadline \/ PollIdle
  \/ PollInitialized

Next ==
  \/ Poll
  \/ ReadPage
  \/ \E c \in wire : Answer(c)
  \/ AttachedToTarget \/ DetachedFromTarget \/ FrameEvent \/ SetInitiator
  \/ GetPage \/ Replaced \/ Removed
  \/ \E u \in Users : Send(u) \/ GiveUp(u)
  \/ DeadlinePasses \/ Tick

(* The handler polls a target that has something to do, time passes and    *)
(* the timer ticks; of the browser and the users nothing is assumed.       *)
Fairness == WF_vars(Poll) /\ WF_vars(ReadPage) /\ WF_vars(DeadlinePasses) /\ WF_vars(Tick)

Spec == Init /\ [][Next]_vars /\ Fairness

-----------------------------------------------------------------------------
(* A chain issues a command only when the browser has answered the one     *)
(* before it, and a target is initialized only when all were answered,     *)
(* although answers are matched by method: the exception are answers meant *)
(* for the Target this one replaced (CommandChain::received_response).     *)
OneCommandAtATime ==
  ~misled /\ phase # "closing" =>
    \A c \in wire : c.target = target /\ c.phase # "attach" /\ phase # "gone" =>
       waiting # "no" /\ c.phase = phase /\ c.number = sent

(* An initialized target with work on its hands will be polled: commands   *)
(* to submit, an initiator to answer, or waiters of a page that has loaded *)
(* and that the budget of the last round left over (drain_waiters_bounded, *)
(* wake_by_ref).                                                           *)
NothingStalls ==
  phase = "initialized" /\ (\/ At("channel") \cup At("queued") # {}
                            \/ loaded /\ At("waiter") # {}
                            \/ PageDelivered) => woken

(* Whatever the browser answers or fails to answer, the initialization     *)
(* comes to an end, except while the frame's chain has no session: nothing *)
(* limits that time.                                                       *)
InitializationEnds ==
  <>[](\/ phase \in {"initialized", "closing", "gone"}
       \/ phase \in FrameChains /\ ~session)
=============================================================================
