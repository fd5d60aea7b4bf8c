---------------------------- MODULE PageChannel ----------------------------
(***************************************************************************)
(* From the handle of a page to the loop of Handler::run(): the futures    *)
(* CommandFuture, TargetMessageFuture and HttpFuture, each of which hands  *)
(* its message over to the bounded channel of its page or waits for room;  *)
(* PageSender, which wakes the loop through one Notify after a message is  *)
(* in; and the loop, which drains every page up to a budget and waits.     *)
(*                                                                         *)
(* Futures, the loop and the clock run on threads of their own.  A poll is *)
(* split where another thread can see it: between the message going into   *)
(* the channel and the call of notify_one.  The channel is tokio's: room   *)
(* that gets free is granted to a future that waits for it, which must be  *)
(* polled to use it.                                                       *)
(***************************************************************************)
EXTENDS Naturals, Sequences, FiniteSets

CONSTANTS
  Callers,    (* Futures that are awaited.                                 *)
  Http,       (* Those that are an HttpFuture.                             *)
  Pages,      (* Pages, each with its channel.                             *)
  Capacities, (* Values of page_channel_capacity, 2048 by default.         *)
  Budget      (* PER_TARGET_DRAIN_BUDGET, 128 in the code.                 *)

ASSUME HttpAssumption == Http \subseteq Callers
ASSUME SizesAssumption == Capacities \subseteq Nat \ {0} /\ Budget \in Nat \ {0}

(* An HttpFuture awaits a command and then the navigation it causes; every *)
(* other future has one part.                                              *)
Parts == {"command", "navigation"}

(* A future holds its message (new), waits for room (parked), was granted  *)
(* room (granted), has put the message in but not notified (pushed),       *)
(* awaits the answer (sent), and is done.                                  *)
Stages == {"new", "parked", "granted", "pushed", "sent", "done"}

Outcomes == {"none", "ok", "failed", "timeout", "cancelled"}

Messages == Callers \X Parts

VARIABLES
  capacity,   (* page_channel_capacity of the configuration.              *)
  page,       (* The page whose handle each future was made with.          *)
  stage,
  part,       (* The part of the future that is being awaited.             *)
  expired,    (* The parts whose delay has run out.                        *)
  reply,      (* What became of the one-shot of the message in `part'.     *)
  outcome,
  chan,       (* The channel of each page.                                 *)
  open,       (* Pages whose target exists.                                *)
  permit,     (* The permit of the Notify shared by all pages.             *)
  loop,       (* "round" or "waiting".                                     *)
  todo,       (* Pages this round has not drained yet.                     *)
  count,      (* Messages taken from each page in its last drain.          *)
  taken,      (* Messages the target has processed.                        *)
  unsent,     (* Callers that gave up before their message was in.         *)
  waited      (* Callers whose navigation was awaited for its whole delay. *)

given       == <<capacity, page>>
futureVars  == <<given, stage, part, expired, outcome, waited>>
channelVars == <<chan, open, unsent>>
loopVars    == <<loop, todo, count>>
targetVars  == <<taken, reply>>
vars == <<futureVars, channelVars, permit, loopVars, targetVars>>

TypeOK ==
  /\ capacity \in Capacities
  /\ page \in [Callers -> Pages]
  /\ stage \in [Callers -> Stages]
  /\ part \in [Callers -> Parts]
  /\ expired \in [Callers -> SUBSET Parts]
  /\ reply \in [Callers -> {"none", "answered", "dropped"}]
  /\ outcome \in [Callers -> Outcomes]
  /\ chan \in [Pages -> Seq(Messages)]
  /\ \A p \in Pages : Len(chan[p]) <= capacity
  /\ open \subseteq Pages
  /\ permit \in BOOLEAN
  /\ loop \in {"round", "waiting"}
  /\ todo \subseteq Pages
  /\ count \in [Pages -> 0..Budget]
  /\ taken \subseteq Messages
  /\ unsent \subseteq Callers
  /\ waited \subseteq Callers

Init ==
  /\ capacity \in Capacities
  /\ page \in [Callers -> Pages]
  /\ stage = [c \in Callers |-> "new"]
  /\ part = [c \in Callers |-> "command"]
  /\ expired = [c \in Callers |-> {}]
  /\ reply = [c \in Callers |-> "none"]
  /\ outcome = [c \in Callers |-> "none"]
  /\ chan = [p \in Pages |-> << >>]
  /\ open = Pages
  /\ permit = FALSE
  /\ loop = "round"
  /\ todo = Pages
  /\ count = [p \in Pages |-> 0]
  /\ taken = {}
  /\ unsent = {}
  /\ waited = {}

-----------------------------------------------------------------------------
(* The channel                                                             *)

Message(c) == <<c, part[c]>>

Granted(p) == {c \in Callers : stage[c] = "granted" /\ page[c] = p}

HasRoom(p) == Len(chan[p]) + Cardinality(Granted(p)) < capacity

Push(c) == chan' = [chan EXCEPT ![page[c]] = Append(@, Message(c))]

(* Room that gets free goes to a future that waits for it, if there is one. *)
Parked(p) == {c \in Callers : stage[c] = "parked" /\ page[c] = p}

Release(p, st) ==
  \/ Parked(p) = {} /\ stage' = st
  \/ \E c \in Parked(p) : stage' = [st EXCEPT ![c] = "granted"]

-----------------------------------------------------------------------------
(* Polls of a future, on the thread of its caller                          *)

(* try_send.                                                               *)
TrySend(c) ==
  /\ stage[c] = "new"
  /\ page[c] \in open
  /\ HasRoom(page[c])
  /\ stage' = [stage EXCEPT ![c] = "pushed"]
  /\ Push(c)
  /\ UNCHANGED <<given, part, expired, outcome, waited, open, unsent,
                 permit, loopVars, targetVars>>

(* try_send finds the channel full and send is polled at once.             *)
Park(c) ==
  /\ stage[c] = "new"
  /\ page[c] \in open
  /\ ~HasRoom(page[c])
  /\ stage' = [stage EXCEPT ![c] = "parked"]
  /\ UNCHANGED <<given, part, expired, outcome, waited, chan, open, unsent,
                 permit, loopVars, targetVars>>

(* A later poll of send, which looks at the room before the delay.         *)
SendGranted(c) ==
  /\ stage[c] = "granted"
  /\ page[c] \in open
  /\ stage' = [stage EXCEPT ![c] = "pushed"]
  /\ Push(c)
  /\ UNCHANGED <<given, part, expired, outcome, waited, open, unsent,
                 permit, loopVars, targetVars>>

(* A faulty NotifyOne: the Notify is handed to the page but not used.      *)
NotifyNone(c) ==
  /\ stage[c] = "pushed"
  /\ stage' = [stage EXCEPT ![c] = "sent"]
  /\ UNCHANGED <<given, part, expired, outcome, waited, channelVars, permit,
                 loopVars, targetVars>>

(* PageSender notifies after the message is in.                            *)
NotifyOne(c) ==
  /\ stage[c] = "pushed"
  /\ stage' = [stage EXCEPT ![c] = "sent"]
  /\ permit' = TRUE
  /\ UNCHANGED <<given, part, expired, outcome, waited, channelVars, loopVars,
                 targetVars>>

(* The future is ready, and dropped by its caller.                         *)
Finish(c, how) ==
  /\ outcome' = [outcome EXCEPT ![c] = how]
  /\ expired' = [expired EXCEPT ![c] = {}]
  /\ UNCHANGED <<given, part, waited>>

(* A faulty GiveUp: the send that timed out is not dropped.                *)
GiveUpSending(c, how) ==
  /\ Finish(c, how)
  /\ stage' = IF how = "timeout" THEN stage ELSE [stage EXCEPT ![c] = "done"]
  /\ unsent' = unsent \cup {c}
  /\ UNCHANGED <<chan, open, permit, loopVars, targetVars>>

(* It ends without its message in the channel; the send is dropped.        *)
GiveUp(c, how) ==
  /\ Finish(c, how)
  /\ stage' = [stage EXCEPT ![c] = "done"]
  /\ unsent' = unsent \cup {c}
  /\ UNCHANGED <<chan, open, permit, loopVars, targetVars>>

SendClosed(c) ==
  /\ page[c] \notin open
  /\ stage[c] \in {"new", "parked", "granted"}
  /\ GiveUp(c, "failed")

TimeoutParked(c) ==
  /\ stage[c] = "parked"
  /\ page[c] \in open
  /\ part[c] \in expired[c]
  /\ GiveUp(c, "timeout")

(* From here the delay is polled before the one-shot.                      *)
FinishSent(c, how) ==
  /\ stage[c] = "sent"
  /\ stage' = [stage EXCEPT ![c] = "done"]
  /\ Finish(c, how)
  /\ UNCHANGED <<channelVars, permit, loopVars, targetVars>>

(* A faulty TimeoutSent: the delay counts only once there is an answer.    *)
TimeoutSentAnswered(c) ==
  /\ reply[c] # "none"
  /\ part[c] \in expired[c]
  /\ FinishSent(c, "timeout")

TimeoutSent(c) ==
  /\ part[c] \in expired[c]
  /\ FinishSent(c, "timeout")

Ready(c) ==
  /\ part[c] \notin expired[c]
  /\ \/ reply[c] = "answered" /\ (c \notin Http \/ part[c] = "navigation")
        /\ FinishSent(c, "ok")
     \/ reply[c] = "dropped" /\ FinishSent(c, "failed")

(* A faulty NavigationNext: the delay runs on from the time the future was *)
(* made.                                                                   *)
NavigationNextNoReset(c) ==
  /\ c \in Http
  /\ stage[c] = "sent"
  /\ part[c] = "command"
  /\ reply[c] = "answered"
  /\ "command" \notin expired[c]
  /\ stage' = [stage EXCEPT ![c] = "new"]
  /\ part' = [part EXCEPT ![c] = "navigation"]
  /\ reply' = [reply EXCEPT ![c] = "none"]
  /\ UNCHANGED <<given, expired, outcome, waited, channelVars, permit, loopVars,
                 taken>>

(* The command of an HttpFuture is answered: its navigation is polled      *)
(* next, with a delay that starts again.                                   *)
NavigationNext(c) ==
  /\ c \in Http
  /\ stage[c] = "sent"
  /\ part[c] = "command"
  /\ reply[c] = "answered"
  /\ "command" \notin expired[c]
  /\ stage' = [stage EXCEPT ![c] = "new"]
  /\ part' = [part EXCEPT ![c] = "navigation"]
  /\ expired' = [expired EXCEPT ![c] = {}]
  /\ reply' = [reply EXCEPT ![c] = "none"]
  /\ UNCHANGED <<given, outcome, waited, channelVars, permit, loopVars, taken>>

Poll(c) ==
  \/ TrySend(c) \/ Park(c) \/ SendGranted(c) \/ NotifyOne(c)
  \/ SendClosed(c) \/ TimeoutParked(c) \/ TimeoutSent(c)
  \/ NavigationNext(c) \/ Ready(c)

(* The caller drops the future between two polls.  Room it was granted is  *)
(* released.                                                               *)
Cancel(c) ==
  \/ /\ stage[c] \in {"new", "parked"}
     /\ GiveUp(c, "cancelled")
  \/ /\ stage[c] = "granted"
     /\ Finish(c, "cancelled")
     /\ Release(page[c], [stage EXCEPT ![c] = "done"])
     /\ unsent' = unsent \cup {c}
     /\ UNCHANGED <<chan, open, permit, loopVars, targetVars>>
  \/ FinishSent(c, "cancelled")

(* Time: the delay of a part runs out, whether it is awaited or still to   *)
(* come.                                                                   *)
DelayExpires(c, q) ==
  /\ stage[c] # "done"
  /\ q \notin expired[c]
  /\ q = part[c] \/ (q = "navigation" /\ c \in Http)
  /\ expired' = [expired EXCEPT ![c] = @ \cup {q}]
  /\ waited' = IF q = "navigation" /\ part[c] = q THEN waited \cup {c} ELSE waited
  /\ UNCHANGED <<given, stage, part, outcome, channelVars, permit, loopVars,
                 targetVars>>

-----------------------------------------------------------------------------
(* The loop of Handler::run()                                              *)

(* A faulty Receive: one message more than the budget.                     *)
ReceiveOneMore(p) ==
  /\ loop = "round"
  /\ p \in todo \cap open
  /\ count[p] <= Budget
  /\ chan[p] # << >>
  /\ taken' = taken \cup {Head(chan[p])}
  /\ chan' = [chan EXCEPT ![p] = Tail(@)]
  /\ Release(p, stage)
  /\ count' = [count EXCEPT ![p] = @ + 1]
  /\ UNCHANGED <<given, part, expired, reply, outcome, waited, open, unsent,
                 permit, loop, todo>>

(* try_recv, within the budget of the page.                                *)
Receive(p) ==
  /\ loop = "round"
  /\ p \in todo \cap open
  /\ count[p] < Budget
  /\ chan[p] # << >>
  /\ taken' = taken \cup {Head(chan[p])}
  /\ chan' = [chan EXCEPT ![p] = Tail(@)]
  /\ Release(p, stage)
  /\ count' = [count EXCEPT ![p] = @ + 1]
  /\ UNCHANGED <<given, part, expired, reply, outcome, waited, open, unsent,
                 permit, loop, todo>>

Drained(p) ==
  /\ loop = "round"
  /\ p \in todo
  /\ p \in open => chan[p] = << >> \/ count[p] = Budget
  /\ todo' = todo \ {p}
  /\ UNCHANGED <<futureVars, channelVars, permit, loop, count, targetVars>>

(* The round ends in select!.                                              *)
Wait ==
  /\ loop = "round"
  /\ todo = {}
  /\ loop' = "waiting"
  /\ UNCHANGED <<futureVars, channelVars, permit, todo, count, targetVars>>

(* A faulty NextRound: the pages are drained only after a notification.    *)
NextRoundNotified ==
  /\ loop = "waiting"
  /\ loop' = "round"
  /\ todo' = IF permit THEN Pages ELSE {}
  /\ count' = [p \in Pages |-> 0]
  /\ UNCHANGED <<futureVars, channelVars, targetVars>>

NextRound ==
  /\ loop = "waiting"
  /\ loop' = "round"
  /\ todo' = Pages
  /\ count' = [p \in Pages |-> 0]
  /\ UNCHANGED <<futureVars, channelVars, targetVars>>

(* page_wake.notified(): the one permit is used up.                        *)
Notified ==
  /\ permit
  /\ permit' = FALSE
  /\ NextRound

(* Another branch of select! is ready: a frame of the browser, a message   *)
(* of the Browser handle, or the tick of the eviction timer.               *)
OtherEvent ==
  /\ NextRound
  /\ UNCHANGED permit

(* The browser answers, or the handler drops the sender.                   *)
Answer(c, how) ==
  /\ stage[c] \in {"pushed", "sent"}
  /\ Message(c) \in taken
  /\ reply[c] = "none"
  /\ reply' = [reply EXCEPT ![c] = how]
  /\ UNCHANGED <<futureVars, channelVars, permit, loopVars, taken>>

(* The target goes, its end of the channel and what is in it with it.      *)
Close(p) ==
  /\ p \in open
  /\ open' = open \ {p}
  /\ chan' = [chan EXCEPT ![p] = << >>]
  /\ reply' = [c \in Callers |->
                 IF \E i \in 1..Len(chan[p]) : chan[p][i] = Message(c)
                 THEN "dropped" ELSE reply[c]]
  /\ UNCHANGED <<futureVars, unsent, permit, loopVars, taken>>

-----------------------------------------------------------------------------
Loop == (\E p \in Pages : Receive(p) \/ Drained(p)) \/ Wait \/ Notified

Next ==
  \/ \E c \in Callers : Poll(c) \/ Cancel(c)
  \/ \E c \in Callers, q \in Parts : DelayExpires(c, q)
  \/ \E c \in Callers, how \in {"answered", "dropped"} : Answer(c, how)
  \/ Loop
  \/ OtherEvent
  \/ \E p \in Pages : Close(p)

(* A future that can make progress is polled again, its delay runs out,    *)
(* the loop goes on, and the eviction timer ticks for ever.                *)
Fairness ==
  /\ \A c \in Callers : WF_vars(Poll(c))
  /\ \A c \in Callers, q \in Parts : WF_vars(DelayExpires(c, q))
  /\ WF_vars(Loop)
  /\ WF_vars(OtherEvent)

Spec == Init /\ [][Next]_vars /\ Fairness

-----------------------------------------------------------------------------
(* While the loop waits and has not been notified, a message it does not   *)
(* know of is one whose sender is about to notify, or one of a page whose  *)
(* last drain ended at the budget: nobody wakes the loop for the latter    *)
(* before the next event or tick (run(), the budget of the drain).         *)
NoLostWakeUp ==
  loop = "waiting" /\ ~permit =>
    \A p \in Pages : \A i \in 1..Len(chan[p]) :
      \/ count[p] = Budget
      \/ stage[chan[p][i][1]] = "pushed"

(* The message of a future that ended before it was in is never processed: *)
(* the caller may try again (CommandFuture::poll, the delay while send is  *)
(* pending).                                                               *)
GaveUpUnsent ==
  \A c \in unsent :
    /\ Message(c) \notin taken
    /\ \A p \in Pages : \A i \in 1..Len(chan[p]) : chan[p][i] # Message(c)

(* An HttpFuture that times out on its navigation has awaited it for a     *)
(* whole request_timeout, however long its command took                    *)
(* (HttpFuture::poll, reset_deadline).                                     *)
NavigationFullTimeout ==
  [][\A c \in Callers :
       part[c] = "navigation" /\ outcome'[c] = "timeout" => c \in waited]_vars

(* Every message that is in the channel of a page is processed, or the     *)
(* page is gone: messages beyond the budget of a round are not forgotten.  *)
MessagesProcessed ==
  \A m \in Messages, p \in Pages :
    (\E i \in 1..Len(chan[p]) : chan[p][i] = m) ~> (m \in taken \/ p \notin open)

(* Every future that was made is ready in the end, also when its channel   *)
(* stays full and when nobody answers.                                     *)
EveryFutureEnds == \A c \in Callers : <>(outcome[c] # "none")
=============================================================================
