------------------------ MODULE ParallelRouterProofs ------------------------
(***************************************************************************)
(* The router and its sessions, for any callers and targets, any           *)
(* capacities of the channels and any number of events.                    *)
(*                                                                         *)
(* The router's tables agree because a Detached comes last of what a       *)
(* session reports, and is read by a router that has an entry for it       *)
(* (Reported), because a target is announced before its task runs          *)
(* (Spawned), and because a session is of one target, whoever names it     *)
(* (Linked).  What is under way for a caller was asked by it: no message   *)
(* and no table holds a call that its caller did not ask for (Authentic),  *)
(* so that a goto is resolved by its own calls alone.  A route leads to a  *)
(* call that is pending or that its task is just sending, since an id is   *)
(* used once: a call still to be submitted is nowhere between the task and *)
(* Chrome (Fresh), one whose answer is on its way back has left the        *)
(* routing table (RoutesInv), and a task on its way out stays so until its *)
(* entry goes (Leaving).                                                   *)
(***************************************************************************)
EXTENDS ParallelRouter, TLAPS

(* A caller has asked nothing before it waits; what is queued at the       *)
(* router or at a page was asked of it.                                    *)
Waiting ==
  /\ \A c \in Callers : outcome[c] = "idle" => asked[c].kind = "none"
  /\ \A c \in queued : asked[c].kind \in BrowserKinds /\ asked[c].at = None
  /\ \A t \in Targets : \A c \in channel[t] : asked[c].at = t /\ asked[c].kind \in PageKinds

Typed == TypeOK /\ Waiting

-----------------------------------------------------------------------------
(* The operators of the model. *)

LEMMA ResolvedType ==
  ASSUME NEW S, NEW o \in Outcomes, outcome \in [Callers -> Outcomes]
  PROVE  /\ Resolved(S, o) \in [Callers -> Outcomes]
         /\ \A c \in Callers : \/ Resolved(S, o)[c] = outcome[c]
                               \/ c \in S /\ outcome[c] = "waiting" /\ Resolved(S, o)[c] = o
<1>1. \A c \in Callers :
        Resolved(S, o)[c] = IF c \in S /\ outcome[c] = "waiting" THEN o ELSE outcome[c]
  BY DEF Resolved
<1>2. \A c \in Callers : \/ Resolved(S, o)[c] = outcome[c]
                         \/ c \in S /\ outcome[c] = "waiting" /\ Resolved(S, o)[c] = o
  BY <1>1
<1>3. \A c \in Callers : (IF c \in S /\ outcome[c] = "waiting" THEN o ELSE outcome[c]) \in Outcomes
  OBVIOUS
<1> QED BY <1>2, <1>3 DEF Resolved

LEMMA CallTypes ==
  /\ RouterCalls \subseteq Calls
  /\ \A t \in Targets : SessionCalls(t) \subseteq Calls
  /\ \A t \in Targets, k \in OwnKinds : Call(k, t, t) \in SessionCalls(t)
  /\ \A t \in Targets, c \in Callers, k \in PageKinds \cup Navigating : Call(k, c, t) \in SessionCalls(t)
  /\ \A k \in BrowserKinds, c \in Callers : Call(k, c, None) \in RouterCalls
BY DEF Calls, RouterCalls, SessionCalls

LEMMA CallFields ==
  /\ \A call \in RouterCalls : /\ call.kind \in BrowserKinds /\ call.of \in Callers
                               /\ call.slot = None
  /\ \A t \in Targets : \A call \in SessionCalls(t) :
       /\ call.slot = t
       /\ \/ call.kind \in OwnKinds /\ call = Call(call.kind, t, t)
          \/ /\ call.kind \in PageKinds \cup Navigating /\ call.of \in Callers
             /\ call = Call(call.kind, call.of, t)
BY DEF RouterCalls, SessionCalls, Call

LEMMA MessageTypes ==
  /\ \A call \in Calls, s \in Sessions \cup {None} : Answered(call, s) \in InboxMessages
  /\ \A c \in Callers : Initiator(c) \in InboxMessages
  /\ Event \in InboxMessages /\ Shutdown \in InboxMessages
BY DEF InboxMessages

LEMMA MessageFields ==
  \A m \in InboxMessages :
    /\ m.type = "response" => /\ m.call \in Calls /\ m.session \in Sessions \cup {None}
                              /\ m = Answered(m.call, m.session)
    /\ m.type = "initiator" => m.of \in Callers /\ m = Initiator(m.of)
    /\ m.type \in {"response", "initiator", "event", "shutdown"}
BY DEF InboxMessages, Answered, Initiator, Event, Shutdown

LEMMA LifecycleFields ==
  /\ \A t \in Targets, s \in Sessions : Attached(t, s) \in LifecycleMessages
  /\ \A t \in Targets : Detached(t) \in LifecycleMessages
  /\ \A m \in LifecycleMessages :
       /\ m[1] = "attached" => /\ m[2] \in Targets /\ m[3] \in Sessions
                               /\ m = Attached(m[2], m[3])
       /\ m[1] = "detached" => m[2] \in Targets /\ m = Detached(m[2])
  /\ \A t, u, s, x : /\ Attached(t, s) # Detached(u)
                     /\ Attached(t, s) = Attached(u, x) => t = u /\ s = x
                     /\ Detached(t) = Detached(u) => t = u
BY DEF LifecycleMessages, Attached, Detached

(* The types of the queues between the tasks. *)
InboxType ==
  /\ inbox \in [Targets -> Seq(InboxMessages)]
  /\ \A t \in Targets : Len(inbox[t]) <= InboxCapacity

HandType ==
  \/ hand = NoHand
  \/ hand.to \in Targets /\ hand.what \in InboxMessages
  \/ hand.to = "wire" /\ hand.what \in RouterCalls

LifecycleType ==
  /\ lifecycle \in Seq(LifecycleMessages)
  /\ Len(lifecycle) <= LifecycleCapacity

LEMMA AppendBounded ==
  ASSUME NEW S, NEW q \in Seq(S), NEW m \in S, NEW n \in Nat, Len(q) <= n
  PROVE  /\ Append(q, m) \in Seq(S)
         /\ Len(q) # n => Len(Append(q, m)) <= n
<1>1. Len(Append(q, m)) = Len(q) + 1 /\ Len(q) \in Nat /\ Append(q, m) \in Seq(S)
  OBVIOUS
<1> QED BY <1>1

LEMMA TailBounded ==
  ASSUME NEW S, NEW q \in Seq(S), NEW n \in Nat, Len(q) <= n, q # <<>>
  PROVE  Tail(q) \in Seq(S) /\ Len(Tail(q)) <= n /\ Head(q) \in S
OBVIOUS

LEMMA SendType ==
  ASSUME TypeOK, NEW t \in Targets, NEW m \in InboxMessages, Send(t, m), hand = NoHand
  PROVE  /\ InboxType' /\ HandType'
         /\ outcome' \in [Callers -> Outcomes]
         /\ \A c \in Callers : /\ outcome'[c] = "idle" => outcome[c] = "idle"
                               /\ outcome'[c] = "ok" => outcome[c] = "ok"
<1>1. InboxType /\ HandType /\ outcome \in [Callers -> Outcomes] /\ InboxCapacity \in Nat
  BY CapacitiesAssumption DEF TypeOK, InboxType, HandType
<1>2. "cancelled" \in Outcomes
  BY DEF Outcomes
<1>3. CASE UNCHANGED <<inbox, hand>> /\ outcome' = Resolved(InitiatorsIn(<<m>>), "cancelled")
  BY <1>1, <1>2, <1>3, ResolvedType DEF InboxType, HandType
<1>4. CASE /\ Len(inbox[t]) < InboxCapacity
           /\ inbox' = [inbox EXCEPT ![t] = Append(@, m)]
           /\ UNCHANGED <<outcome, hand>>
  <2>1. Append(inbox[t], m) \in Seq(InboxMessages) /\ Len(Append(inbox[t], m)) <= InboxCapacity
    BY <1>1, <1>4, AppendBounded DEF InboxType
  <2> QED BY <1>1, <1>4, <2>1 DEF InboxType, HandType
<1>5. CASE UNCHANGED <<inbox, outcome>> /\ hand' = [to |-> t, what |-> m]
  BY <1>1, <1>5 DEF InboxType, HandType
<1> QED BY <1>3, <1>4, <1>5 DEF Send

LEMMA SendNothingType ==
  ASSUME TypeOK, SendNothing
  PROVE  /\ InboxType' /\ HandType'
         /\ outcome' \in [Callers -> Outcomes]
         /\ \A c \in Callers : /\ outcome'[c] = "idle" => outcome[c] = "idle"
                               /\ outcome'[c] = "ok" => outcome[c] = "ok"
BY DEF TypeOK, SendNothing, InboxType, HandType

LEMMA TrySendType ==
  ASSUME TypeOK, NEW m \in LifecycleMessages, TrySend(m)
  PROVE  LifecycleType'
<1>1. LifecycleCapacity \in Nat
  BY CapacitiesAssumption
<1> QED BY <1>1, AppendBounded DEF TypeOK, TrySend, LifecycleType

LEMMA TakesType ==
  ASSUME TypeOK, NEW t \in Targets, NEW type, Takes(t, type)
  PROVE  InboxType' /\ Head(inbox[t]) \in InboxMessages
<1>1. InboxCapacity \in Nat
  BY CapacitiesAssumption
<1>2. /\ Tail(inbox[t]) \in Seq(InboxMessages) /\ Len(Tail(inbox[t])) <= InboxCapacity
      /\ Head(inbox[t]) \in InboxMessages
  BY <1>1, TailBounded DEF TypeOK, Takes
<1> QED BY <1>2 DEF TypeOK, Takes, InboxType

(* What a session has to submit after StartDrive was asked of its page.    *)
LEMMA StartDriveType ==
  ASSUME Typed, NEW t \in Targets, StartDrive(t)
  PROVE  /\ phase' \in [Targets -> {"none", "drive", "select", "exit", "ended"}]
         /\ work' \in [Targets -> SUBSET Calls]
         /\ \A s \in Targets : work'[s] \subseteq SessionCalls(s)
         /\ channel' \in [Targets -> SUBSET Callers]
         /\ \A s \in Targets : channel'[s] \subseteq channel[s]
<1>1. {Call(asked[c].kind, c, t) : c \in channel[t]} \subseteq SessionCalls(t)
  BY CallTypes DEF Typed, TypeOK, Waiting
<1>2. work[t] \subseteq SessionCalls(t) /\ SessionCalls(t) \subseteq Calls
  BY CallTypes DEF Typed, TypeOK
<1>3. phase \in [Targets -> {"none", "drive", "select", "exit", "ended"}]
      /\ work \in [Targets -> SUBSET Calls] /\ channel \in [Targets -> SUBSET Callers]
      /\ \A s \in Targets : work[s] \subseteq SessionCalls(s)
  BY DEF Typed, TypeOK
<1> QED BY <1>1, <1>2, <1>3 DEF StartDrive
-----------------------------------------------------------------------------
(* Types, and who asked for what is queued. *)

LEMMA TypedInit == Init => Typed
<1> SUFFICES ASSUME Init PROVE TypeOK /\ Waiting
  BY DEF Typed
<1>1. TypeOK
  <2>1. "idle" \in Outcomes /\ "select" \in {"none", "drive", "select", "exit", "ended"}
        /\ Ready \subseteq Targets /\ MaxEvents \in Nat /\ InboxCapacity \in Nat
        /\ LifecycleCapacity \in Nat /\ WireCapacity \in Nat
    BY NamesAssumption, CapacitiesAssumption DEF Outcomes
  <2>2. running \in BOOLEAN /\ writer \in BOOLEAN
    BY DEF Init
  <2>3. 0 \in 0..MaxEvents
    BY <2>1
  <2>4. link \in [Sessions -> Link]
    <3>1. bySession \in [Sessions -> Targets \cup {None}]
      BY DEF Init
    <3>2. \A t \in Targets : Call("attach", t, t) \in Calls
      BY CallTypes DEF OwnKinds
    <3> QED BY <3>1, <3>2 DEF Init, Link
  <2>5. /\ named \in [Targets -> Sessions \cup {None}] /\ sid = named
        /\ bySession \in [Sessions -> Targets \cup {None}]
        /\ known = Ready /\ sessions = Ready /\ page = Ready /\ mainLoaded = Ready /\ lost = {}
        /\ facts \subseteq {"created", "gone"} \X Targets
    BY <2>1 DEF Init
  <2>6. stage \in [Targets -> Stages]
    BY DEF Init, Stages
  <2> QED BY <2>1, <2>2, <2>3, <2>4, <2>5, <2>6 DEF Init, TypeOK
<1>2. Waiting
  BY DEF Init, Waiting
<1> QED BY <1>1, <1>2

LEMMA TypedCallers ==
  ASSUME Typed, Asks PROVE Typed'
<1>1. "waiting" \in Outcomes /\ "failed" \in Outcomes
  BY DEF Outcomes
<1>2. ASSUME NEW c \in Callers, NEW kind \in BrowserKinds, AskBrowser(c, kind) PROVE Typed'
  BY <1>1, <1>2 DEF AskBrowser, Typed, TypeOK, Waiting, routerVars, wireVars, targetVars, navVars,
                    chromeVars, BrowserKinds, PageKinds
<1>3. ASSUME NEW c \in Callers, NEW kind \in PageKinds, NEW t \in Targets, AskPage(c, kind, t)
      PROVE  Typed'
  <2> USE DEF routerVars, wireVars, targetVars, navVars, chromeVars
  <2>1. PICK o \in Outcomes \ {"idle"} : outcome' = [outcome EXCEPT ![c] = o]
    BY <1>1, <1>3 DEF AskPage
  <2>2. \/ channel' = [channel EXCEPT ![t] = @ \cup {c}]
        \/ channel' = channel
    BY <1>3 DEF AskPage
  <2>3. channel' \in [Targets -> SUBSET Callers]
        /\ \A s \in Targets : channel'[s] \subseteq channel[s] \cup {c} /\ (s # t => channel'[s] = channel[s])
    <3>1. channel \in [Targets -> SUBSET Callers]
      BY DEF Typed, TypeOK
    <3>2. CASE channel' = channel
      BY <3>1, <3>2
    <3>3. CASE channel' = [channel EXCEPT ![t] = @ \cup {c}]
      BY <3>1, <3>3
    <3> QED BY <2>2, <3>2, <3>3
  <2>4. asked' = [asked EXCEPT ![c] = [kind |-> kind, at |-> t]] /\ asked[c].kind = "none"
    BY <1>3 DEF AskPage, Typed, Waiting
  <2>5. TypeOK'
    BY <1>3, <2>1, <2>3, <2>4 DEF AskPage, Typed, TypeOK
  <2>6. Waiting'
    <3>1. \A d \in Callers : asked'[d] = IF d = c THEN [kind |-> kind, at |-> t] ELSE asked[d]
      BY <2>4 DEF Typed, TypeOK
    <3>2. \A d \in Callers : outcome'[d] = IF d = c THEN o ELSE outcome[d]
      BY <2>1 DEF Typed, TypeOK
    <3>3. queued' = queued /\ queued \subseteq Callers /\ channel \in [Targets -> SUBSET Callers]
      BY <1>3 DEF AskPage, Typed, TypeOK
    <3> QED BY <2>1, <2>3, <2>4, <3>1, <3>2, <3>3 DEF Typed, Waiting, PageKinds, BrowserKinds
  <2> QED BY <2>5, <2>6 DEF Typed
<1> QED BY <1>2, <1>3 DEF Asks

LEMMA TypedWriter ==
  ASSUME Typed, WriterTakes \/ WriterCloses PROVE Typed'
<1> USE DEF routerVars, targetVars, navVars, callerVars, chromeVars
<1>0. WireCapacity \in Nat
  BY CapacitiesAssumption
<1>1. CASE WriterTakes
  <2>1. Tail(wire) \in Seq(Calls) /\ Len(Tail(wire)) <= WireCapacity /\ Head(wire) \in Calls
    BY <1>0, <1>1, TailBounded DEF WriterTakes, Typed, TypeOK
  <2> QED BY <1>1, <2>1 DEF WriterTakes, Typed, TypeOK, Waiting
<1>2. CASE WriterCloses
  <2>1. wire' \in Seq(Calls) /\ Len(wire') <= WireCapacity
    BY <1>0, <1>2 DEF WriterCloses
  <2>2. writer' \in BOOLEAN
    BY <1>2 DEF WriterCloses
  <2> QED BY <1>2, <2>1, <2>2 DEF WriterCloses, Typed, TypeOK, Waiting
<1> QED BY <1>1, <1>2

(* The outcome of a caller only leaves waiting. *)
OutcomeKept ==
  /\ outcome \in [Callers -> Outcomes] => outcome' \in [Callers -> Outcomes]
  /\ \A c \in Callers : outcome'[c] = "idle" => outcome[c] = "idle"

LEMMA ResolvedKept ==
  ASSUME TypeOK, NEW S, NEW o \in Outcomes \ {"idle"}, outcome' = Resolved(S, o)
  PROVE  OutcomeKept
<1>1. outcome \in [Callers -> Outcomes]
  BY DEF TypeOK
<1>2. /\ Resolved(S, o) \in [Callers -> Outcomes]
      /\ \A c \in Callers : \/ Resolved(S, o)[c] = outcome[c]
                            \/ c \in S /\ outcome[c] = "waiting" /\ Resolved(S, o)[c] = o
  BY <1>1, ResolvedType
<1> QED BY <1>2 DEF OutcomeKept

LEMMA TypedHandOver ==
  ASSUME Typed, HandOver PROVE Typed'
<1> USE DEF routerVars, targetVars, navVars, chromeVars
<1>0. InboxCapacity \in Nat /\ WireCapacity \in Nat /\ {"cancelled", "failed"} \subseteq Outcomes \ {"idle"}
  BY CapacitiesAssumption DEF Outcomes
<1>1. InboxType'
  <2>1. InboxType
    BY DEF Typed, TypeOK, InboxType
  <2>2. CASE inbox' = inbox
    BY <2>1, <2>2 DEF InboxType
  <2>3. CASE /\ hand.to \in Targets /\ Len(inbox[hand.to]) < InboxCapacity
             /\ inbox' = [inbox EXCEPT ![hand.to] = Append(@, hand.what)]
    <3>0. hand.to # None /\ hand.to # "wire"
      BY NamesAssumption, <2>3
    <3>1. hand.what \in InboxMessages
      BY <2>3, <3>0, NamesAssumption DEF Typed, TypeOK, NoHand
    <3>2. Append(inbox[hand.to], hand.what) \in Seq(InboxMessages)
          /\ Len(Append(inbox[hand.to], hand.what)) <= InboxCapacity
      BY <1>0, <2>1, <2>3, <3>1, AppendBounded DEF InboxType
    <3> QED BY <2>1, <2>3, <3>2 DEF InboxType
  <2> QED BY <2>2, <2>3 DEF HandOver, HandToSession, HandToWriter
<1>2. /\ wire' \in Seq(Calls) /\ Len(wire') <= WireCapacity
      /\ awaiting' \subseteq RouterCalls
  <2>1. wire \in Seq(Calls) /\ Len(wire) <= WireCapacity /\ awaiting \subseteq RouterCalls
    BY DEF Typed, TypeOK
  <2>2. CASE UNCHANGED <<wire, awaiting>>
    BY <2>1, <2>2
  <2>3. CASE /\ hand.to = "wire" /\ Len(wire) < WireCapacity
             /\ wire' = Append(wire, hand.what) /\ awaiting' = awaiting \cup {hand.what}
    <3>1. hand.what \in RouterCalls /\ hand.what \in Calls
      BY <2>3, CallTypes, NamesAssumption DEF Typed, TypeOK, NoHand
    <3> QED BY <1>0, <2>1, <2>3, <3>1, AppendBounded
  <2> QED BY <2>2, <2>3 DEF HandOver, HandToSession, HandToWriter
<1>3. OutcomeKept
  <2>1. CASE outcome' = outcome
    BY <2>1 DEF OutcomeKept
  <2>2. CASE \E S : \E o \in {"cancelled", "failed"} : outcome' = Resolved(S, o)
    BY <1>0, <2>2, ResolvedKept DEF Typed
  <2> QED BY <2>1, <2>2 DEF HandOver, HandToSession, HandToWriter
<1> QED BY <1>1, <1>2, <1>3 DEF HandOver, Typed, TypeOK, Waiting, OutcomeKept, InboxType

LEMMA TypedRouter ==
  ASSUME Typed, Router PROVE Typed'
<1> USE DEF routerVars, wireVars, targetVars, navVars, callerVars, chromeVars, Free
<1>0. /\ {"cancelled", "failed", "ok", "timeout"} \subseteq Outcomes \ {"idle"}
      /\ LifecycleCapacity \in Nat /\ MaxEvents \in Nat
  BY CapacitiesAssumption DEF Outcomes
<1>1. ASSUME NEW c \in Callers, OnBrowserMessage(c) PROVE Typed'
  <2>1. HandType'
    <3>1. Call(asked[c].kind, c, None) \in RouterCalls
      BY <1>1, CallTypes DEF OnBrowserMessage, Typed, Waiting
    <3> QED BY <1>1, <3>1 DEF OnBrowserMessage, HandType
  <2>2. OutcomeKept
    BY <1>0, <1>1, ResolvedKept DEF OnBrowserMessage, OutcomeKept, Typed
  <2> QED BY <1>1, <2>1, <2>2 DEF OnBrowserMessage, Typed, TypeOK, Waiting, OutcomeKept, HandType
<1>2. ASSUME NEW t \in Targets, OnTargetCreated(t) PROVE Typed'
  <2>1. InboxType' /\ HandType' /\ OutcomeKept
    <3>1. CASE parked[t] = None
      BY <1>2, <3>1, SendNothingType DEF OnTargetCreated, OutcomeKept, Typed
    <3>2. CASE parked[t] # None
      <4>1. parked[t] \in Callers
        BY <3>2 DEF Typed, TypeOK
      <4> QED BY <1>2, <3>2, <4>1, SendType, MessageTypes DEF OnTargetCreated, OutcomeKept, Typed
    <3> QED BY <3>1, <3>2
  <2>2. Call("attach", t, t) \in SessionCalls(t) \cap Calls
    BY CallTypes DEF OwnKinds
  <2>3. /\ parked' \in [Targets -> Callers \cup {None}]
        /\ phase' \in [Targets -> {"none", "drive", "select", "exit", "ended"}]
        /\ work' \in [Targets -> SUBSET Calls]
        /\ \A s \in Targets : work'[s] \subseteq SessionCalls(s)
        /\ facts' \subseteq {"created", "gone"} \X Targets
        /\ known' \cup sessions' \subseteq Targets
    BY <1>2, <2>2 DEF OnTargetCreated, Typed, TypeOK
  <2> QED BY <1>2, <2>1, <2>3 DEF OnTargetCreated, Typed, TypeOK, Waiting, OutcomeKept, HandType, InboxType
<1>3. /\ named \in [Targets -> Sessions \cup {None}] /\ sid \in [Targets -> Sessions \cup {None}]
      /\ bySession \in [Sessions -> Targets \cup {None}] /\ link \in [Sessions -> Link]
      /\ sessions \subseteq Targets /\ known \subseteq Targets
  BY DEF Typed, TypeOK
<1>4. ASSUME NEW s \in Sessions, OnAttachedToTarget(s) PROVE Typed'
  <2>1. link' \in [Sessions -> Link]
    BY <1>3, <1>4 DEF OnAttachedToTarget, Link
  <2>2. /\ named' \in [Targets -> Sessions \cup {None}]
        /\ bySession' \in [Sessions -> Targets \cup {None}]
    <3>1. CASE link[s].at \in known
      BY <1>3, <1>4, <3>1 DEF OnAttachedToTarget, Named
    <3>2. CASE link[s].at \notin known
      BY <1>3, <1>4, <3>2 DEF OnAttachedToTarget
    <3> QED BY <3>1, <3>2
  <2>3. UNCHANGED <<running, known, sessions, awaiting, parked, hand, routes, inbox, lifecycle,
                    wireVars, phase, work, sending, pending, targetVars, channel, navVars,
                    callerVars, browser, facts, made, answered, events>>
    BY <1>4 DEF OnAttachedToTarget
  <2> QED BY <1>3, <2>1, <2>2, <2>3 DEF Typed, TypeOK, Waiting
<1>5. ASSUME \/ \E t \in Targets : Send(t, Event) \/ Send(t, Shutdown)
             \/ SendNothing,
             Free, facts' \subseteq facts \cup {"gone"} \X Targets, events' \in 0..MaxEvents,
             link' \in [Sessions -> Link],
             UNCHANGED <<routerVars, routes, lifecycle, wireVars, phase, work, sending, pending,
                       targetVars, channel, navVars, asked, queued, browser, made, answered>>
      PROVE  Typed'
  <2>1. InboxType' /\ HandType' /\ OutcomeKept
    BY <1>5, SendType, SendNothingType, MessageTypes DEF OutcomeKept, Typed
  <2>2. facts' \subseteq {"created", "gone"} \X Targets
    BY <1>5 DEF Typed, TypeOK
  <2> QED BY <1>3, <1>5, <2>1, <2>2 DEF Typed, TypeOK, Waiting, OutcomeKept, HandType, InboxType
<1>12. ASSUME NEW t \in Targets, OnTargetGone(t) PROVE Typed'
  <2>1. events' \in 0..MaxEvents /\ link' \in [Sessions -> Link]
    BY <1>3, <1>12 DEF OnTargetGone, Typed, TypeOK
  <2> QED BY <1>5, <1>12, <2>1 DEF OnTargetGone
<1>13. ASSUME NEW s \in Sessions, OnDetachedFromTarget(s) PROVE Typed'
  <2>1. link' \in [Sessions -> Link]
    BY <1>3, <1>13 DEF OnDetachedFromTarget, Link
  <2>2. events' \in 0..MaxEvents
    BY <1>13 DEF OnDetachedFromTarget, Typed, TypeOK
  <2> QED BY <1>3, <1>5, <1>13, <2>1, <2>2 DEF OnDetachedFromTarget, TaskOf
<1>14. ASSUME NEW s \in Sessions, OnSessionEvent(s) PROVE Typed'
  <2>1. link' \in [Sessions -> Link] /\ events' \in 0..MaxEvents
    BY <1>0, <1>3, <1>14 DEF OnSessionEvent, Typed, TypeOK
  <2> QED BY <1>3, <1>5, <1>14, <2>1 DEF OnSessionEvent, TaskOf
<1>6. ASSUME NEW call \in browser, OnResponse(call) PROVE Typed'
  <2>0. call \in Calls /\ (call \in awaiting => call \in RouterCalls /\ call.of \in Callers)
    BY CallFields DEF Typed, TypeOK
  <2> DEFINE Delivered ==
        /\ InboxType' /\ HandType' /\ OutcomeKept
        /\ parked' \in [Targets -> Callers \cup {None}] /\ made' \in [Callers -> Targets \cup {None}]
  <2>1. Delivered
    <3>0. InboxType /\ HandType /\ parked \in [Targets -> Callers \cup {None}]
          /\ made \in [Callers -> Targets \cup {None}] /\ sessions \subseteq Targets
      BY DEF Typed, TypeOK, InboxType, HandType
    <3>1. ASSUME NEW s \in Sessions \cup {None}, call.slot \in sessions,
                 Send(call.slot, Answered(call, s)), UNCHANGED <<made, parked>>
          PROVE  Delivered
      BY <1>6, <2>0, <3>0, <3>1, SendType, MessageTypes DEF OutcomeKept, Typed, OnResponse
    <3>2. CASE SendNothing /\ UNCHANGED <<made, parked>>
      BY <3>0, <3>2, SendNothingType DEF OutcomeKept, Typed
    <3>3. CASE call \in awaiting /\ (Executed(call) \/ CreateFailed(call))
      BY <1>0, <3>0, <3>3, ResolvedKept DEF Executed, CreateFailed, Typed, InboxType, HandType
    <3>4. ASSUME call \in awaiting, NEW t \in Targets, TargetMade(call, t) PROVE Delivered
      <4>1. CASE Send(t, Initiator(call.of)) /\ UNCHANGED parked
        BY <1>6, <2>0, <3>0, <3>4, <4>1, SendType, MessageTypes
           DEF OutcomeKept, Typed, TargetMade, OnResponse
      <4>2. CASE outcome' = Resolved({call.of}, "failed") /\ UNCHANGED <<parked, inbox, hand>>
        BY <1>0, <2>0, <3>0, <3>4, <4>2, ResolvedKept DEF TargetMade, Typed, InboxType, HandType
      <4>3. CASE parked' = [parked EXCEPT ![t] = call.of] /\ UNCHANGED <<inbox, hand, outcome>>
        BY <2>0, <3>0, <3>4, <4>3 DEF OutcomeKept, TargetMade, InboxType, HandType
      <4> QED BY <3>4, <4>1, <4>2, <4>3 DEF TargetMade
    <3> QED BY <1>6, <3>1, <3>2, <3>3, <3>4 DEF OnResponse, AnswerOf
  <2> QED BY <1>6, <2>0, <2>1 DEF OnResponse, Typed, TypeOK, Waiting, OutcomeKept, HandType, InboxType
<1>7. ASSUME lifecycle # <<>>, lifecycle' = Tail(lifecycle)
      PROVE  LifecycleType' /\ Head(lifecycle) \in LifecycleMessages
  BY <1>0, <1>7, TailBounded DEF LifecycleType, Typed, TypeOK
<1>8. CASE OnSessionAttached
  <2>1. LifecycleType' /\ Head(lifecycle)[2] \in Targets /\ Head(lifecycle)[3] \in Sessions
    BY <1>7, <1>8, LifecycleFields DEF OnSessionAttached
  <2>2. /\ named' \in [Targets -> Sessions \cup {None}]
        /\ bySession' \in [Sessions -> Targets \cup {None}]
    BY <1>3, <1>8, <2>1 DEF OnSessionAttached, Named
  <2> QED BY <1>3, <1>8, <2>1, <2>2 DEF OnSessionAttached, Typed, TypeOK, Waiting, LifecycleType
<1>9. CASE OnDetached
  <2>1. LifecycleType' /\ Head(lifecycle)[2] \in Targets
    BY <1>7, <1>9, LifecycleFields DEF OnDetached
  <2>2. /\ known' \cup sessions' \subseteq Targets /\ routes' \subseteq routes
        /\ named' \in [Targets -> Sessions \cup {None}]
        /\ bySession' \in [Sessions -> Targets \cup {None}]
    BY <1>3, <1>9, <2>1 DEF OnDetached, RemoveSession, Unregister
  <2> QED BY <1>3, <1>9, <2>1, <2>2 DEF OnDetached, Typed, TypeOK, Waiting, LifecycleType
<1>10. CASE RouterTick
  <2>1. PICK S \in SUBSET awaiting, P \in SUBSET {t \in Targets : parked[t] # None} : Evict(S, P)
    BY <1>10 DEF RouterTick
  <2>2. OutcomeKept
    BY <1>0, <2>1, ResolvedKept DEF Evict, Typed
  <2>3. awaiting' \subseteq RouterCalls /\ parked' \in [Targets -> Callers \cup {None}]
    BY <2>1 DEF Evict, Typed, TypeOK
  <2> QED BY <1>10, <2>2, <2>3 DEF RouterTick, Typed, TypeOK, Waiting, OutcomeKept
<1>11. CASE RouterEnds
  <2>1. InboxType'
    <3>1. InboxCapacity \in Nat /\ InboxType
      BY CapacitiesAssumption DEF Typed, TypeOK, InboxType
    <3>2. \A t \in Targets : inbox[t] \in Seq(InboxMessages) /\ Len(inbox[t]) <= InboxCapacity
      BY <3>1 DEF InboxType
    <3>3. \A t \in Targets : Len(inbox[t]) < InboxCapacity =>
             /\ Append(inbox[t], Shutdown) \in Seq(InboxMessages)
             /\ Len(Append(inbox[t], Shutdown)) <= InboxCapacity
      BY <3>1, <3>2, AppendBounded, MessageTypes
    <3> QED BY <1>11, <3>2, <3>3 DEF RouterEnds, InboxType
  <2>2. OutcomeKept
    BY <1>0, <1>11, ResolvedKept DEF RouterEnds, Typed
  <2>3. running' \in BOOLEAN /\ awaiting' \subseteq RouterCalls /\ queued' \subseteq Callers
        /\ parked' \in [Targets -> Callers \cup {None}]
    BY <1>11 DEF RouterEnds
  <2>4. UNCHANGED <<known, sessions, named, bySession, hand, routes, lifecycle, wireVars, phase,
                 work, sending, pending, targetVars, channel, navVars, asked, chromeVars>>
        /\ queued' = {}
    BY <1>11 DEF RouterEnds
  <2>5. TypeOK'
    BY <2>1, <2>2, <2>3, <2>4 DEF Typed, TypeOK, OutcomeKept, InboxType
  <2> QED BY <2>2, <2>4, <2>5 DEF Typed, TypeOK, Waiting, OutcomeKept
<1> QED BY <1>1, <1>2, <1>4, <1>6, <1>8, <1>9, <1>10, <1>11, <1>12, <1>13, <1>14, TypedHandOver
        DEF Router

(* The steps of a session that begin or end a drive. *)
LEMMA TypedStartDrive ==
  ASSUME Typed, NEW t \in Targets, StartDrive(t),
         InboxType', LifecycleType', OutcomeKept, UNCHANGED <<asked, queued>>,
         routes' \subseteq routes,
         pending' \in [Targets -> SUBSET Calls],
         \A s \in Targets : pending'[s] \subseteq pending[s],
         sid' \in [Targets -> Sessions \cup {None}],
         mainLoaded' \subseteq Targets,
         initiator' \in [Targets -> Callers \cup {None}],
         navs' \in [Callers -> {"none", "open", "responded", "navigated"}],
         watch' \in [Callers -> {"none", "queued", "active", "loaded", "late"}],
         loaded' \subseteq Callers,
         UNCHANGED <<routerVars, hand, wireVars, sending, page, stage, lost, chromeVars>>
  PROVE  Typed'
<1>1. /\ phase' \in [Targets -> {"none", "drive", "select", "exit", "ended"}]
      /\ work' \in [Targets -> SUBSET Calls]
      /\ \A s \in Targets : work'[s] \subseteq SessionCalls(s)
      /\ channel' \in [Targets -> SUBSET Callers]
      /\ \A s \in Targets : channel'[s] \subseteq channel[s]
  BY StartDriveType
<1>2. TypeOK'
  BY <1>1 DEF Typed, TypeOK, OutcomeKept, InboxType, LifecycleType, routerVars, wireVars, chromeVars
<1>3. Waiting'
  BY <1>1 DEF Typed, TypeOK, Waiting, OutcomeKept
<1> QED BY <1>2, <1>3 DEF Typed

LEMMA TypedSession ==
  ASSUME Typed, NEW t \in Targets, Session(t) PROVE Typed'
<1> USE DEF routerVars, wireVars, navVars, targetVars, callerVars, chromeVars
<1>0. /\ {"cancelled", "failed", "ok", "timeout"} \subseteq Outcomes \ {"idle"}
      /\ LifecycleCapacity \in Nat /\ WireCapacity \in Nat
  BY CapacitiesAssumption DEF Outcomes
<1>t. TypeOK /\ InboxType /\ LifecycleType
  BY DEF Typed, TypeOK, InboxType, LifecycleType
<1>u. /\ pending \in [Targets -> SUBSET Calls] /\ work \in [Targets -> SUBSET Calls]
      /\ initiator \in [Targets -> Callers \cup {None}]
      /\ navs \in [Callers -> {"none", "open", "responded", "navigated"}]
      /\ watch \in [Callers -> {"none", "queued", "active", "loaded", "late"}]
      /\ sid \in [Targets -> Sessions \cup {None}]
      /\ loaded \subseteq Callers /\ mainLoaded \subseteq Targets
  BY DEF Typed, TypeOK
<1>1. ASSUME TakeResponse(t) PROVE Typed'
  <2>1. InboxType' /\ Head(inbox[t]) \in InboxMessages /\ Head(inbox[t]).call \in Calls
    BY <1>1, <1>t, TakesType, MessageFields DEF TakeResponse, Takes
  <2>2. /\ pending' \in [Targets -> SUBSET Calls]
        /\ \A s \in Targets : pending'[s] \subseteq pending[s]
    BY <1>1, <1>u DEF TakeResponse
  <2>3. LifecycleType'
    <3>1. CASE UNCHANGED lifecycle
      BY <1>t, <3>1 DEF LifecycleType
    <3>2. ASSUME Head(inbox[t]).session # None, TrySend(Attached(t, Head(inbox[t]).session))
          PROVE  LifecycleType'
      <4>1. Head(inbox[t]).session \in Sessions
        BY <1>1, <2>1, <3>2, MessageFields DEF TakeResponse, Takes
      <4> QED BY <1>t, <3>2, <4>1, TrySendType, LifecycleFields
    <3> QED BY <1>1, <3>1, <3>2 DEF TakeResponse, SessionResponse
  <2>4. /\ OutcomeKept /\ sid' \in [Targets -> Sessions \cup {None}]
        /\ navs' \in [Callers -> {"none", "open", "responded", "navigated"}]
    <3>1. CASE UNCHANGED <<sid, navs, outcome>>
      BY <1>u, <3>1 DEF OutcomeKept
    <3>2. CASE SessionResponse(t, Head(inbox[t]).call, Head(inbox[t]).session)
      <4>1. OutcomeKept
        BY <1>0, <1>t, <3>2, ResolvedKept DEF SessionResponse, OutcomeKept
      <4>2. sid' \in [Targets -> Sessions \cup {None}]
        <5>1. Head(inbox[t]).session \in Sessions \cup {None}
          BY <1>1, <2>1, MessageFields DEF TakeResponse, Takes
        <5>2. \/ sid' = sid
              \/ sid' = [sid EXCEPT ![t] = Head(inbox[t]).session]
          BY <3>2 DEF SessionResponse
        <5> QED BY <1>u, <5>1, <5>2
      <4>3. navs' \in [Callers -> {"none", "open", "responded", "navigated"}]
        <5>1. \/ navs' = navs
              \/ \E c : navs' = [navs EXCEPT ![c] = "none"]
              \/ \E c : navs' = [navs EXCEPT ![c] = "responded"]
          BY <3>2 DEF SessionResponse
        <5> QED BY <1>u, <5>1
      <4> QED BY <4>1, <4>2, <4>3
    <3> QED BY <1>1, <3>1, <3>2 DEF TakeResponse
  <2>5. StartDrive(t) /\ UNCHANGED <<routerVars, hand, routes, wireVars, sending, initiator, page,
                                     stage, mainLoaded, lost, watch, loaded, asked, queued,
                                     chromeVars>>
    BY <1>1 DEF TakeResponse
  <2> QED BY <1>u, <2>1, <2>2, <2>3, <2>4, <2>5, TypedStartDrive
<1>2. CASE TakeEvent(t)
  <2>1. InboxType'
    BY <1>2, <1>t, TakesType DEF TakeEvent
  <2>2. /\ watch' \in [Callers -> {"none", "queued", "active", "loaded", "late"}]
        /\ loaded' \subseteq Callers
    <3>1. CASE UNCHANGED <<watch, loaded>>
      BY <1>u, <3>1
    <3>2. ASSUME NEW c \in Callers, watch' = [watch EXCEPT ![c] = "loaded"], loaded' = loaded \cup {c}
          PROVE  /\ watch' \in [Callers -> {"none", "queued", "active", "loaded", "late"}]
                 /\ loaded' \subseteq Callers
      BY <1>u, <3>2
    <3> QED BY <1>2, <3>1, <3>2 DEF TakeEvent
  <2>3. StartDrive(t) /\ UNCHANGED <<routerVars, hand, routes, lifecycle, wireVars, sending,
                                     pending, sid, initiator, page, stage, lost, navs,
                                     callerVars, chromeVars>>
        /\ mainLoaded' \subseteq Targets
    BY <1>2, <1>u DEF TakeEvent
  <2>4. OutcomeKept /\ LifecycleType'
    BY <1>t, <2>3 DEF OutcomeKept, LifecycleType
  <2> QED BY <1>u, <2>1, <2>2, <2>3, <2>4, TypedStartDrive
<1>3. CASE TakeInitiator(t)
  <2>1. InboxType' /\ Head(inbox[t]) \in InboxMessages
    BY <1>3, <1>t, TakesType DEF TakeInitiator
  <2>2. initiator' \in [Targets -> Callers \cup {None}]
    BY <1>3, <1>u, <2>1, MessageFields DEF TakeInitiator, Takes
  <2>3. StartDrive(t) /\ UNCHANGED <<routerVars, hand, routes, lifecycle, wireVars, sending,
                                     pending, sid, page, stage, mainLoaded, lost, navVars,
                                     callerVars, chromeVars>>
    BY <1>3 DEF TakeInitiator
  <2>4. OutcomeKept /\ LifecycleType'
    BY <1>t, <2>3 DEF OutcomeKept, LifecycleType
  <2> QED BY <1>u, <2>1, <2>2, <2>3, <2>4, TypedStartDrive
<1>4. CASE PageWake(t)
  <2>1. StartDrive(t) /\ UNCHANGED <<routerVars, hand, routes, inbox, lifecycle, wireVars,
                                     sending, pending, targetVars, navVars, callerVars,
                                     chromeVars>>
    BY <1>4 DEF PageWake
  <2>2. OutcomeKept /\ LifecycleType' /\ InboxType'
    BY <1>t, <2>1 DEF OutcomeKept, LifecycleType, InboxType
  <2> QED BY <1>u, <2>1, <2>2, TypedStartDrive
<1>5. CASE SessionTick(t)
  <2>1. PICK S \in SUBSET pending[t],
             W \in SUBSET {c \in Callers : asked[c].at = t /\ watch[c] = "active"} :
          /\ EvictStale(t, S)
          /\ watch' = [c \in Callers |-> IF c \in W THEN "late" ELSE watch[c]]
    BY <1>5 DEF SessionTick
  <2>2. OutcomeKept
    BY <1>0, <1>t, <2>1, ResolvedKept DEF EvictStale
  <2>3. /\ pending' \in [Targets -> SUBSET Calls]
        /\ \A s \in Targets : pending'[s] \subseteq pending[s]
        /\ routes' \subseteq routes
    BY <1>t, <2>1 DEF EvictStale, TypeOK
  <2>4. /\ navs' \in [Callers -> {"none", "open", "responded", "navigated"}]
        /\ watch' \in [Callers -> {"none", "queued", "active", "loaded", "late"}]
    BY <1>t, <2>1 DEF EvictStale, TypeOK
  <2>5. StartDrive(t) /\ UNCHANGED <<routerVars, hand, inbox, lifecycle, wireVars, sending,
                                     targetVars, loaded, asked, queued, chromeVars>>
    BY <1>5 DEF SessionTick
  <2>6. LifecycleType' /\ InboxType'
    BY <1>t, <2>5 DEF LifecycleType, InboxType
  <2> QED BY <1>u, <2>2, <2>3, <2>4, <2>5, <2>6, TypedStartDrive
<1>6. CASE InitEnds(t)
  <2>1. OutcomeKept
    BY <1>0, <1>6, <1>t, ResolvedKept DEF InitEnds, OutcomeKept
  <2>2. Call("close", t, t) \in SessionCalls(t) \cap Calls
    BY CallTypes DEF OwnKinds
  <2>3. /\ work' \in [Targets -> SUBSET Calls]
        /\ \A s \in Targets : work'[s] \subseteq SessionCalls(s)
    <3>1. work' = work \/ work' = [work EXCEPT ![t] = @ \cup {Call("close", t, t)}]
      BY <1>6 DEF InitEnds
    <3>2. \A s \in Targets : work[s] \subseteq SessionCalls(s)
      BY <1>t DEF TypeOK
    <3> QED BY <1>u, <2>2, <3>1, <3>2
  <2>4. /\ initiator' \in [Targets -> Callers \cup {None}]
        /\ stage' \in [Targets -> Stages]
        /\ phase' \in [Targets -> {"none", "drive", "select", "exit", "ended"}]
    <3>1. initiator' = initiator \/ initiator' = [initiator EXCEPT ![t] = None]
      BY <1>6 DEF InitEnds
    <3>2. \E x \in Stages : stage' = [stage EXCEPT ![t] = x]
      BY <1>6 DEF InitEnds, Stages
    <3>3. phase' = [phase EXCEPT ![t] = "drive"]
      BY <1>6 DEF InitEnds
    <3>4. /\ phase \in [Targets -> {"none", "drive", "select", "exit", "ended"}]
          /\ stage \in [Targets -> Stages]
      BY <1>t DEF TypeOK
    <3> QED BY <1>u, <3>1, <3>2, <3>3, <3>4
  <2>5. UNCHANGED <<routerVars, hand, routes, inbox, lifecycle, wireVars, sending, pending, sid,
                    page, mainLoaded, lost, channel, navVars, asked, queued, chromeVars>>
    BY <1>6 DEF InitEnds
  <2> QED BY <2>1, <2>3, <2>4, <2>5 DEF Typed, TypeOK, Waiting, OutcomeKept
<1>h. CASE HandPage(t)
  <2>1. OutcomeKept
    BY <1>0, <1>h, <1>t, ResolvedKept DEF HandPage
  <2>2. page' \subseteq Targets /\ initiator' \in [Targets -> Callers \cup {None}]
    BY <1>h, <1>t DEF HandPage, TypeOK
  <2>3. UNCHANGED <<routerVars, hand, routes, inbox, lifecycle, wireVars, phase, work, sending,
                    pending, sid, stage, mainLoaded, lost, channel, navVars, asked, queued,
                    chromeVars>>
    BY <1>h DEF HandPage
  <2> QED BY <2>1, <2>2, <2>3 DEF Typed, TypeOK, Waiting, OutcomeKept
<1>7. CASE EndDrive(t)
  BY <1>7 DEF EndDrive, Typed, TypeOK, Waiting
<1>8. CASE Exit(t)
  <2>1. OutcomeKept
    BY <1>0, <1>8, <1>t, ResolvedKept DEF Exit
  <2>2. InboxType'
    <3>1. CASE inbox' = inbox
      BY <1>t, <3>1 DEF InboxType
    <3>2. CASE Takes(t, Head(inbox[t]).type)
      BY <1>t, <3>2, TakesType
    <3> QED BY <1>8, <3>1, <3>2 DEF Exit, Takes
  <2>3. /\ pending' \in [Targets -> SUBSET Calls]
        /\ \A s \in Targets : pending'[s] \subseteq pending[s]
        /\ navs' \in [Callers -> {"none", "open", "responded", "navigated"}]
        /\ phase' \in [Targets -> {"none", "drive", "select", "exit", "ended"}]
    BY <1>8, <1>t DEF Exit, TypeOK
  <2> QED BY <1>8, <2>1, <2>2, <2>3 DEF Exit, Typed, TypeOK, Waiting, OutcomeKept, InboxType
<1>9. CASE End(t)
  <2>1. OutcomeKept
    BY <1>0, <1>9, <1>t, ResolvedKept DEF End
  <2>2. InboxType'
    <3>1. InboxCapacity \in Nat
      BY CapacitiesAssumption
    <3>2. inbox' = [inbox EXCEPT ![t] = <<>>]
      BY <1>9 DEF End
    <3> QED BY <1>t, <3>1, <3>2 DEF InboxType
  <2>3. LifecycleType'
    BY <1>9, <1>t, TrySendType, LifecycleFields DEF End, ReportDetached
  <2>4. /\ phase' \in [Targets -> {"none", "drive", "select", "exit", "ended"}]
        /\ initiator' \in [Targets -> Callers \cup {None}]
        /\ watch' \in [Callers -> {"none", "queued", "active", "loaded", "late"}]
        /\ channel' \in [Targets -> SUBSET Callers]
        /\ \A s \in Targets : channel'[s] \subseteq channel[s]
        /\ lost' \subseteq Targets
    BY <1>9, <1>t DEF End, ReportDetached, TypeOK
  <2>5. UNCHANGED <<routerVars, hand, routes, wireVars, work, sending, pending, sid, page, stage,
                    mainLoaded, navs, loaded, asked, queued, chromeVars>>
    BY <1>9 DEF End
  <2>6. TypeOK'
    BY <1>t, <2>1, <2>2, <2>3, <2>4, <2>5 DEF TypeOK, OutcomeKept, InboxType, LifecycleType
  <2>7. Waiting'
    BY <2>1, <2>4, <2>5 DEF Typed, TypeOK, Waiting, OutcomeKept
  <2> QED BY <2>6, <2>7 DEF Typed
<1>10. ASSUME NEW call \in work[t], Submit(t, call) PROVE Typed'
  <2>1. call \in Calls /\ call \in SessionCalls(t)
    BY <1>t DEF TypeOK
  <2>2. /\ work' \in [Targets -> SUBSET Calls]
        /\ \A s \in Targets : work'[s] \subseteq SessionCalls(s)
        /\ routes' \subseteq Calls
        /\ sending' \in [Targets -> Calls \cup {None}]
        /\ \A s \in Targets : sending'[s] \in SessionCalls(s) \cup {None}
    BY <1>10, <1>t, <2>1 DEF Submit, TypeOK
  <2>3. watch' \in [Callers -> {"none", "queued", "active", "loaded", "late"}]
    <3>1. \/ watch' = watch
          \/ watch' = [watch EXCEPT ![call.of] = "queued"]
      BY <1>10 DEF Submit, Watched
    <3> QED BY <1>u, <3>1
  <2>4. UNCHANGED <<routerVars, hand, inbox, lifecycle, wireVars, phase, pending, targetVars,
                    channel, navs, loaded, callerVars, chromeVars>>
    BY <1>10 DEF Submit
  <2> QED BY <2>2, <2>3, <2>4 DEF Typed, TypeOK, Waiting
<1>13. CASE Written(t)
  <2>1. sending[t] \in Calls /\ sending[t] \in SessionCalls(t)
    BY <1>13, <1>t DEF Written, TypeOK
  <2>2. wire' \in Seq(Calls) /\ Len(wire') <= WireCapacity
    BY <1>0, <1>13, <1>t, <2>1, AppendBounded DEF Written, TypeOK
  <2>3. /\ sending' \in [Targets -> Calls \cup {None}]
        /\ pending' \in [Targets -> SUBSET Calls]
        /\ \A s \in Targets : /\ pending'[s] \subseteq SessionCalls(s)
                               /\ sending'[s] \in SessionCalls(s) \cup {None}
    BY <1>13, <1>t, <2>1 DEF Written, TypeOK
  <2>4. navs' \in [Callers -> {"none", "open", "responded", "navigated"}]
    <3>1. \/ navs' = navs
          \/ navs' = [navs EXCEPT ![sending[t].of] = "open"]
      BY <1>13 DEF Written
    <3> QED BY <1>u, <3>1
  <2>5. UNCHANGED <<routerVars, hand, routes, inbox, lifecycle, writer, phase, work, targetVars,
                    channel, watch, loaded, callerVars, chromeVars>>
    BY <1>13 DEF Written
  <2> QED BY <2>2, <2>3, <2>4, <2>5 DEF Typed, TypeOK, Waiting
<1>14. CASE WriterGone(t)
  <2>1. OutcomeKept
    BY <1>0, <1>14, <1>t, ResolvedKept DEF WriterGone
  <2>2. /\ sending' \in [Targets -> Calls \cup {None}]
        /\ \A s \in Targets : sending'[s] \in SessionCalls(s) \cup {None}
    BY <1>14, <1>t DEF WriterGone, TypeOK
  <2>3. navs' \in [Callers -> {"none", "open", "responded", "navigated"}]
    <3>1. \/ navs' = navs
          \/ navs' = [navs EXCEPT ![sending[t].of] = "none"]
      BY <1>14 DEF WriterGone
    <3> QED BY <1>u, <3>1
  <2>4. UNCHANGED <<routerVars, hand, routes, inbox, lifecycle, wireVars, phase, work, pending,
                    targetVars, channel, watch, loaded, asked, queued, chromeVars>>
    BY <1>14 DEF WriterGone
  <2> QED BY <2>1, <2>2, <2>3, <2>4 DEF Typed, TypeOK, Waiting, OutcomeKept
<1>11. ASSUME NEW c \in Callers, NavigationRequest(t, c) PROVE Typed'
  <2>1. Call("renavigate", c, t) \in SessionCalls(t) \cap Calls
    BY CallTypes DEF Navigating
  <2>2. /\ work' \in [Targets -> SUBSET Calls]
        /\ \A s \in Targets : work'[s] \subseteq SessionCalls(s)
        /\ watch' \in [Callers -> {"none", "queued", "active", "loaded", "late"}]
    BY <1>11, <1>t, <2>1 DEF NavigationRequest, TypeOK
  <2> QED BY <1>11, <2>2 DEF NavigationRequest, Typed, TypeOK, Waiting
<1>12. ASSUME NEW c \in Callers, NavigationResult(t, c) PROVE Typed'
  <2>1. OutcomeKept
    BY <1>0, <1>12, <1>t, ResolvedKept DEF NavigationResult, OutcomeKept
  <2>2. /\ navs' \in [Callers -> {"none", "open", "responded", "navigated"}]
        /\ watch' \in [Callers -> {"none", "queued", "active", "loaded", "late"}]
    <3>1. \/ navs' = navs
          \/ navs' = [navs EXCEPT ![c] = "none"]
          \/ navs' = [navs EXCEPT ![c] = "navigated"]
      BY <1>12 DEF NavigationResult
    <3>2. watch' = [watch EXCEPT ![c] = "none"]
      BY <1>12 DEF NavigationResult
    <3> QED BY <1>u, <3>1, <3>2
  <2> QED BY <1>12, <2>1, <2>2 DEF NavigationResult, Typed, TypeOK, Waiting, OutcomeKept
<1> QED BY <1>1, <1>2, <1>3, <1>4, <1>5, <1>6, <1>h, <1>7, <1>8, <1>9, <1>10, <1>11, <1>12, <1>13,
           <1>14 DEF Session

LEMMA TypedChrome ==
  ASSUME Typed, Chrome PROVE Typed'
<1>1. PICK call \in browser, t \in Targets, s \in Sessions : Attaches(call, t, s)
  BY DEF Chrome
<1>2. link' \in [Sessions -> Link]
  <2>1. call \in Calls /\ link \in [Sessions -> Link]
    BY DEF Typed, TypeOK
  <2> QED BY <1>1, <2>1 DEF Attaches, Link
<1> QED BY <1>1, <1>2 DEF Attaches, Typed, TypeOK, Waiting, routerVars, wireVars, navVars,
                          targetVars, callerVars, chromeVars

LEMMA TypedNext == Typed /\ [Next]_vars => Typed'
<1> SUFFICES ASSUME Typed, [Next]_vars PROVE Typed'
  OBVIOUS
<1>1. CASE UNCHANGED vars
  BY <1>1 DEF vars, routerVars, wireVars, navVars, targetVars, callerVars, chromeVars, Typed,
              TypeOK, Waiting
<1> QED BY <1>1, TypedCallers, TypedWriter, TypedRouter, TypedChrome, TypedSession DEF Next

(* Whatever the tasks do, the channels stay within their capacities, the   *)
(* router never has more than one send in hand, and only the tables of the *)
(* router and of the sessions name calls, each in its own slot.            *)
THEOREM RouterTypeCorrect == Spec => []TypeOK
<1>1. Typed => TypeOK
  BY DEF Typed
<1> QED BY <1>1, TypedInit, TypedNext, PTL DEF Spec
-----------------------------------------------------------------------------
(* What is on its way.                                                     *)

(* A message in an inbox, or in the router's hand on its way to one.       *)
Held(m) ==
  \/ \E t \in Targets : \E i \in DOMAIN inbox[t] : inbox[t][i] = m
  \/ hand.to \in Targets /\ hand.what = m

(* Calls whose answer is on its way to a session, those of them whose      *)
(* answer names s, and initiators.                                         *)
Telling(s) == {call \in Calls : Held(Answered(call, s))}
Answering  == {call \in Calls : \E s \in Sessions \cup {None} : Held(Answered(call, s))}
Initiating == {c \in Callers : Held(Initiator(c))}

(* Calls on their way to Chrome, and those that a session or the router    *)
(* awaits room for; and calls that a drive has taken up.                   *)
OnWire  == {wire[i] : i \in DOMAIN wire}
Awaited == {sending[t] : t \in Targets} \ {None}
InHand  == {call \in RouterCalls : hand.to = "wire" /\ hand.what = call}
Sent    == OnWire \cup browser \cup Answering \cup Awaited

(* A step that puts nothing on its way. *)
NothingSent ==
  /\ Sent' \subseteq Sent /\ Answering' \subseteq Answering
  /\ Initiating' \subseteq Initiating /\ InHand' \subseteq InHand
  /\ \A s \in Sessions : Telling(s)' \subseteq Telling(s)

LEMMA MessagesDiffer ==
  /\ \A a, b, x, y : Answered(a, x) = Answered(b, y) => a = b /\ x = y
  /\ \A c, d : Initiator(c) = Initiator(d) => c = d
  /\ \A a, x, c : Answered(a, x) # Initiator(c) /\ Answered(a, x) # Event /\ Answered(a, x) # Shutdown
  /\ \A c : Initiator(c) # Event /\ Initiator(c) # Shutdown
BY DEF Answered, Initiator, Event, Shutdown

(* The messages held after a step that puts m in the hand or in an inbox.  *)
LEMMA HeldByAppend ==
  ASSUME TypeOK, NEW t \in Targets, NEW m \in InboxMessages,
         inbox' = [inbox EXCEPT ![t] = Append(@, m)],
         hand' \in {hand, NoHand}
  PROVE  \A x \in InboxMessages : Held(x)' => Held(x) \/ x = m
<1> SUFFICES ASSUME NEW x \in InboxMessages, Held(x)' PROVE Held(x) \/ x = m
  OBVIOUS
<1>1. inbox \in [Targets -> Seq(InboxMessages)]
  BY DEF TypeOK
<1>2. CASE hand'.to \in Targets /\ hand'.what = x
  BY <1>2, NamesAssumption DEF Held, NoHand
<1>3. ASSUME NEW s \in Targets, NEW i \in DOMAIN inbox'[s], inbox'[s][i] = x PROVE Held(x) \/ x = m
  <2>1. CASE s # t
    BY <1>1, <1>3, <2>1 DEF Held
  <2>2. CASE s = t
    <3>1. inbox'[t] = Append(inbox[t], m) /\ inbox[t] \in Seq(InboxMessages)
      BY <1>1
    <3>2. (i \in DOMAIN inbox[t] /\ inbox'[t][i] = inbox[t][i]) \/ inbox'[t][i] = m
      BY <1>3, <2>2, <3>1
    <3> QED BY <1>3, <2>2, <3>2 DEF Held
  <2> QED BY <2>1, <2>2
<1> QED BY <1>2, <1>3 DEF Held

LEMMA HeldBySend ==
  ASSUME TypeOK, NEW t \in Targets, NEW m \in InboxMessages, Send(t, m)
  PROVE  \A x \in InboxMessages : Held(x)' => Held(x) \/ x = m
<1>1. CASE UNCHANGED <<inbox, hand>>
  BY <1>1 DEF Held
<1>2. CASE inbox' = [inbox EXCEPT ![t] = Append(@, m)] /\ UNCHANGED hand
  BY <1>2, HeldByAppend
<1>3. CASE UNCHANGED inbox /\ hand' = [to |-> t, what |-> m]
  BY <1>3 DEF Held
<1> QED BY <1>1, <1>2, <1>3 DEF Send

LEMMA HeldByTakes ==
  ASSUME TypeOK, NEW t \in Targets, inbox[t] # <<>>, inbox' = [inbox EXCEPT ![t] = Tail(@)],
         hand' = hand
  PROVE  /\ \A x \in InboxMessages : Held(x)' => Held(x)
         /\ Held(Head(inbox[t])) /\ Head(inbox[t]) \in InboxMessages
<1>1. inbox \in [Targets -> Seq(InboxMessages)]
  BY DEF TypeOK
<1>2. /\ 1 \in DOMAIN inbox[t] /\ inbox[t][1] = Head(inbox[t])
      /\ \A i \in DOMAIN Tail(inbox[t]) : i + 1 \in DOMAIN inbox[t]
                                        /\ Tail(inbox[t])[i] = inbox[t][i + 1]
      /\ Head(inbox[t]) \in InboxMessages
  BY <1>1
<1>3. ASSUME NEW x \in InboxMessages, Held(x)' PROVE Held(x)
  <2>1. CASE hand'.to \in Targets /\ hand'.what = x
    BY <2>1 DEF Held
  <2>2. ASSUME NEW s \in Targets, NEW i \in DOMAIN inbox'[s], inbox'[s][i] = x PROVE Held(x)
    <3>1. CASE s # t
      BY <1>1, <2>2, <3>1 DEF Held
    <3>2. CASE s = t
      <4>1. inbox'[t] = Tail(inbox[t])
        BY <1>1
      <4> QED BY <1>2, <2>2, <3>2, <4>1 DEF Held
    <3> QED BY <3>1, <3>2
  <2> QED BY <1>3, <2>1, <2>2 DEF Held
<1> QED BY <1>2, <1>3 DEF Held

(* From messages to what they are about. *)
LEMMA FlowOf ==
  ASSUME NEW m \in InboxMessages,
         \A x \in InboxMessages : Held(x)' => Held(x) \/ x = m
  PROVE  /\ \A call \in Calls, s \in Sessions \cup {None} : m = Answered(call, s) =>
              /\ Answering' \subseteq Answering \cup {call} /\ Initiating' \subseteq Initiating
              /\ \A r \in Sessions : Telling(r)' \subseteq Telling(r) \cup {k \in {call} : r = s}
         /\ \A c \in Callers : m = Initiator(c) =>
              /\ Answering' \subseteq Answering /\ Initiating' \subseteq Initiating \cup {c}
              /\ \A r \in Sessions : Telling(r)' \subseteq Telling(r)
         /\ m \in {Event, Shutdown} =>
              /\ Answering' \subseteq Answering /\ Initiating' \subseteq Initiating
              /\ \A r \in Sessions : Telling(r)' \subseteq Telling(r)
<1>1. \A call \in Calls : call \in Answering' <=>
        \E s \in Sessions \cup {None} : Held(Answered(call, s))'
  BY DEF Answering
<1>2. \A c \in Callers : c \in Initiating' <=> Held(Initiator(c))'
  BY DEF Initiating
<1>3. \A call \in Calls : call \in Answering' =>
        call \in Answering \/ \E s \in Sessions \cup {None} : m = Answered(call, s)
  BY <1>1, MessageTypes DEF Answering
<1>4. \A c \in Callers : c \in Initiating' => c \in Initiating \/ m = Initiator(c)
  BY <1>2, MessageTypes DEF Initiating
<1>5. Answering' \subseteq Calls /\ Initiating' \subseteq Callers
  BY DEF Answering, Initiating
<1>6. \A r \in Sessions : \A call \in Telling(r)' : call \in Calls /\ Held(Answered(call, r))'
  BY DEF Telling
<1>7. \A r \in Sessions : \A call \in Telling(r)' : call \in Telling(r) \/ m = Answered(call, r)
  BY <1>6, MessageTypes DEF Telling
<1> QED BY <1>3, <1>4, <1>5, <1>7, MessagesDiffer

LEMMA FlowKept ==
  ASSUME \A x \in InboxMessages : Held(x)' => Held(x)
  PROVE  /\ Answering' \subseteq Answering /\ Initiating' \subseteq Initiating
         /\ \A s \in Sessions : Telling(s)' \subseteq Telling(s)
<1>1. Answering' \subseteq Answering /\ Initiating' \subseteq Initiating
  BY MessageTypes DEF Answering, Initiating
<1>2. \A s \in Sessions : Telling(s)' \subseteq Telling(s)
  BY MessageTypes DEF Telling
<1> QED BY <1>1, <1>2

LEMMA FlowSame ==
  ASSUME UNCHANGED <<inbox, hand>>
  PROVE  /\ Answering' = Answering /\ Initiating' = Initiating /\ InHand' = InHand
         /\ \A s \in Sessions : Telling(s)' = Telling(s)
BY DEF Answering, Initiating, InHand, Held, Telling

LEMMA AwaitedFlow ==
  ASSUME TypeOK
  PROVE  /\ sending' = sending => Awaited' = Awaited
         /\ \A t \in Targets : sending' = [sending EXCEPT ![t] = None] => Awaited' \subseteq Awaited
         /\ \A t \in Targets, call \in Calls :
              sending' = [sending EXCEPT ![t] = call] => Awaited' \subseteq Awaited \cup {call}
         /\ \A t \in Targets : sending[t] # None => sending[t] \in Awaited
         /\ Awaited \subseteq Calls
<1>1. sending \in [Targets -> Calls \cup {None}]
  BY DEF TypeOK
<1> QED BY <1>1 DEF Awaited

LEMMA WireFlow ==
  ASSUME TypeOK
  PROVE  /\ \A call \in Calls : wire' = Append(wire, call) => OnWire' = OnWire \cup {call}
         /\ wire # <<>> /\ wire' = Tail(wire) => OnWire' \subseteq OnWire /\ Head(wire) \in OnWire
         /\ wire' = <<>> => OnWire' = {}
         /\ OnWire \subseteq Calls
<1>1. wire \in Seq(Calls)
  BY DEF TypeOK
<1>2. ASSUME NEW call \in Calls, wire' = Append(wire, call) PROVE OnWire' = OnWire \cup {call}
  <2>1. /\ DOMAIN wire' = 1 .. Len(wire) + 1 /\ DOMAIN wire = 1 .. Len(wire) /\ Len(wire) \in Nat
        /\ \A i \in DOMAIN wire : wire'[i] = wire[i]
        /\ wire'[Len(wire) + 1] = call
    BY <1>1, <1>2
  <2>2. DOMAIN wire' = DOMAIN wire \cup {Len(wire) + 1}
    BY <2>1
  <2> QED BY <2>1, <2>2 DEF OnWire
<1>3. ASSUME wire # <<>>, wire' = Tail(wire) PROVE OnWire' \subseteq OnWire /\ Head(wire) \in OnWire
  <2>1. /\ 1 \in DOMAIN wire /\ wire[1] = Head(wire)
        /\ \A i \in DOMAIN wire' : i + 1 \in DOMAIN wire /\ wire'[i] = wire[i + 1]
    BY <1>1, <1>3
  <2> QED BY <2>1 DEF OnWire
<1>4. OnWire \subseteq Calls
  BY <1>1 DEF OnWire
<1>5. wire' = <<>> => OnWire' = {}
  BY DEF OnWire
<1> QED BY <1>2, <1>3, <1>4, <1>5

LEMMA SentType == TypeOK => Sent \subseteq Calls /\ Answering \subseteq Calls /\ Initiating \subseteq Callers
BY WireFlow, AwaitedFlow DEF Sent, Answering, Initiating, TypeOK

LEMMA FlowWriter ==
  ASSUME TypeOK, WriterTakes \/ WriterCloses PROVE NothingSent
<1>1. /\ Answering' = Answering /\ Initiating' = Initiating /\ InHand' = InHand
      /\ Awaited' = Awaited /\ \A s \in Sessions : Telling(s)' = Telling(s)
  BY FlowSame, AwaitedFlow DEF WriterTakes, WriterCloses
<1>2. CASE WriterTakes
  BY <1>1, <1>2, WireFlow DEF WriterTakes, NothingSent, Sent
<1>3. CASE WriterCloses
  BY <1>1, <1>3, WireFlow DEF WriterCloses, NothingSent, Sent, chromeVars
<1> QED BY <1>2, <1>3

LEMMA FlowHandOver ==
  ASSUME TypeOK, HandOver
  PROVE  /\ Sent' \subseteq Sent \cup InHand /\ awaiting' \subseteq awaiting \cup InHand
         /\ InHand' \subseteq InHand
         /\ Answering' \subseteq Answering /\ Initiating' \subseteq Initiating
         /\ \A s \in Sessions : Telling(s)' \subseteq Telling(s)
<1>1. hand' = NoHand /\ InHand' = {} /\ UNCHANGED browser /\ Awaited' = Awaited
  BY NamesAssumption, AwaitedFlow DEF HandOver, InHand, NoHand, chromeVars
<1>2. CASE hand.to \in Targets /\ UNCHANGED <<wire, awaiting>>
  <2>1. hand.what \in InboxMessages
    BY <1>2, NamesAssumption DEF TypeOK, NoHand
  <2>2. \A x \in InboxMessages : Held(x)' => Held(x)
    <3>1. CASE inbox' = inbox
      BY <1>1, <3>1, NamesAssumption DEF Held, NoHand
    <3>2. CASE inbox' = [inbox EXCEPT ![hand.to] = Append(@, hand.what)]
      <4>1. \A x \in InboxMessages : Held(x)' => Held(x) \/ x = hand.what
        BY <1>1, <1>2, <2>1, <3>2, HeldByAppend
      <4> QED BY <1>2, <4>1 DEF Held
    <3> QED BY <1>2, <3>1, <3>2, NamesAssumption DEF HandOver, HandToSession
  <2>3. /\ Answering' \subseteq Answering /\ Initiating' \subseteq Initiating
        /\ \A s \in Sessions : Telling(s)' \subseteq Telling(s)
    BY <2>2, FlowKept
  <2> QED BY <1>1, <1>2, <2>3 DEF Sent, OnWire
<1>3. CASE hand.to = "wire" /\ UNCHANGED inbox
  <2>1. hand.what \in RouterCalls /\ hand.what \in InHand /\ hand.what \in Calls
    BY <1>3, NamesAssumption, CallTypes DEF TypeOK, NoHand, InHand
  <2>2. \A x \in InboxMessages : Held(x)' => Held(x)
    BY <1>1, <1>3, NamesAssumption DEF Held, NoHand
  <2>3. /\ Answering' \subseteq Answering /\ Initiating' \subseteq Initiating
        /\ \A s \in Sessions : Telling(s)' \subseteq Telling(s)
    BY <2>2, FlowKept
  <2>4. \/ UNCHANGED <<wire, awaiting>>
        \/ wire' = Append(wire, hand.what) /\ awaiting' = awaiting \cup {hand.what}
    BY <1>3, NamesAssumption DEF HandOver, HandToWriter
  <2>5. OnWire' \subseteq OnWire \cup {hand.what} /\ awaiting' \subseteq awaiting \cup {hand.what}
    BY <2>1, <2>4, WireFlow DEF OnWire
  <2> QED BY <1>1, <2>1, <2>3, <2>5 DEF Sent
<1> QED BY <1>2, <1>3 DEF HandOver, HandToSession, HandToWriter

LEMMA FlowBrowserMessage ==
  ASSUME TypeOK, NEW c \in Callers, OnBrowserMessage(c)
  PROVE  /\ Sent' \subseteq Sent /\ Answering' \subseteq Answering /\ Initiating' \subseteq Initiating
         /\ InHand' \subseteq {Call(asked[c].kind, c, None)}
         /\ \A s \in Sessions : Telling(s)' \subseteq Telling(s)
<1>1. UNCHANGED <<inbox, wire, browser>> /\ hand = NoHand /\ Awaited' = Awaited
  BY AwaitedFlow DEF OnBrowserMessage, Free, wireVars, chromeVars
<1>2. CASE hand' = hand
  BY <1>1, <1>2, FlowSame, NamesAssumption DEF Sent, OnWire, InHand, NoHand
<1>3. CASE hand' = [to |-> "wire", what |-> Call(asked[c].kind, c, None)]
  <2>1. \A x \in InboxMessages : Held(x)' => Held(x)
    BY <1>1, <1>3, NamesAssumption DEF Held
  <2> QED BY <1>1, <1>3, <2>1, FlowKept DEF Sent, OnWire, InHand
<1> QED BY <1>2, <1>3 DEF OnBrowserMessage

(* The router sends at most one message to a session.                      *)
LEMMA FlowSendTo ==
  ASSUME TypeOK, NEW t \in Targets, NEW m \in InboxMessages, Send(t, m) \/ SendNothing,
         UNCHANGED <<wire, sending>>, browser' \subseteq browser
  PROVE  /\ InHand' \subseteq InHand
         /\ m \in {Event, Shutdown} => NothingSent
         /\ \A c \in Callers : m = Initiator(c) =>
              /\ Sent' \subseteq Sent /\ Answering' \subseteq Answering
              /\ Initiating' \subseteq Initiating \cup {c}
              /\ \A r \in Sessions : Telling(r)' \subseteq Telling(r)
         /\ \A call \in Calls, s \in Sessions \cup {None} : m = Answered(call, s) =>
              /\ Sent' \subseteq Sent \cup {call} /\ Answering' \subseteq Answering \cup {call}
              /\ Initiating' \subseteq Initiating
              /\ \A r \in Sessions : Telling(r)' \subseteq Telling(r) \cup {k \in {call} : r = s}
<1>1. \A x \in InboxMessages : Held(x)' => Held(x) \/ x = m
  BY HeldBySend DEF SendNothing, Held
<1>2. InHand' \subseteq InHand
  BY NamesAssumption DEF Send, SendNothing, InHand
<1>3. OnWire' = OnWire /\ Awaited' = Awaited
  BY AwaitedFlow DEF OnWire
<1>4. CASE SendNothing
  BY <1>2, <1>3, <1>4, FlowSame DEF SendNothing, Sent, NothingSent
<1>5. ASSUME NEW c \in Callers, m = Initiator(c)
      PROVE  /\ Sent' \subseteq Sent /\ Answering' \subseteq Answering
             /\ Initiating' \subseteq Initiating \cup {c}
             /\ \A r \in Sessions : Telling(r)' \subseteq Telling(r)
  BY <1>1, <1>3, <1>5, FlowOf DEF Sent
<1>6. ASSUME NEW call \in Calls, NEW s \in Sessions \cup {None}, m = Answered(call, s)
      PROVE  /\ Sent' \subseteq Sent \cup {call} /\ Answering' \subseteq Answering \cup {call}
             /\ Initiating' \subseteq Initiating
             /\ \A r \in Sessions : Telling(r)' \subseteq Telling(r) \cup {k \in {call} : r = s}
  BY <1>1, <1>3, <1>6, FlowOf DEF Sent
<1>7. m \in {Event, Shutdown} => NothingSent
  BY <1>1, <1>2, <1>3, FlowOf DEF Sent, NothingSent
<1> QED BY <1>2, <1>5, <1>6, <1>7

LEMMA FlowTargetCreated ==
  ASSUME TypeOK, NEW t \in Targets, OnTargetCreated(t)
  PROVE  /\ Sent' \subseteq Sent /\ Answering' \subseteq Answering /\ InHand' \subseteq InHand
         /\ Initiating' \subseteq Initiating \cup ({parked[t]} \cap Callers)
         /\ \A s \in Sessions : Telling(s)' \subseteq Telling(s)
<1>1. UNCHANGED <<wire, browser, sending>>
  BY DEF OnTargetCreated, wireVars
<1>2. CASE parked[t] = None
  BY <1>1, <1>2, FlowSame, AwaitedFlow DEF OnTargetCreated, SendNothing, Sent, OnWire
<1>3. CASE parked[t] # None
  <2>1. PICK c \in Callers : parked[t] = c
    BY <1>3 DEF TypeOK
  <2>2. Send(t, Initiator(c)) /\ Initiator(c) \in InboxMessages
    BY <1>3, <2>1, MessageTypes DEF OnTargetCreated
  <2> QED BY <1>1, <2>1, <2>2, FlowSendTo
<1> QED BY <1>2, <1>3

LEMMA FlowResponse ==
  ASSUME TypeOK, NEW call \in browser, OnResponse(call)
  PROVE  /\ Sent' \subseteq Sent /\ Answering' \subseteq Answering \cup {call}
         /\ InHand' \subseteq InHand
         /\ \A c \in Initiating' : \/ c \in Initiating
                                   \/ call \in awaiting /\ call.kind = "create" /\ c = call.of
         /\ \A s \in Sessions : \A k \in Telling(s)' :
              k \in Telling(s) \/ (k = call /\ s \in AnswerOf(call))
<1>1. /\ call \in Calls /\ call \in Sent /\ UNCHANGED <<wire, sending>>
      /\ browser' \subseteq browser
  BY DEF OnResponse, TypeOK, Sent, wireVars
<1>2. ASSUME NEW s \in Sessions \cup {None}, s \in AnswerOf(call), call.slot \in sessions,
             Send(call.slot, Answered(call, s))
      PROVE  /\ Sent' \subseteq Sent /\ Answering' \subseteq Answering \cup {call}
             /\ InHand' \subseteq InHand /\ Initiating' \subseteq Initiating
             /\ \A r \in Sessions : \A k \in Telling(r)' :
                  k \in Telling(r) \/ (k = call /\ r \in AnswerOf(call))
  <2>1. call.slot \in Targets /\ Answered(call, s) \in InboxMessages
    BY <1>1, <1>2, MessageTypes DEF TypeOK
  <2>2. /\ InHand' \subseteq InHand
        /\ Sent' \subseteq Sent \cup {call} /\ Answering' \subseteq Answering \cup {call}
        /\ Initiating' \subseteq Initiating
        /\ \A r \in Sessions : Telling(r)' \subseteq Telling(r) \cup {k \in {call} : r = s}
    BY <1>1, <1>2, <2>1, FlowSendTo
  <2> QED BY <1>1, <1>2, <2>2
<1>3. CASE UNCHANGED <<inbox, hand>>
  BY <1>1, <1>3, FlowSame, AwaitedFlow DEF Sent, OnWire
<1>4. ASSUME call \in awaiting, call.kind = "create", NEW t \in Targets, Send(t, Initiator(call.of))
      PROVE  /\ Sent' \subseteq Sent /\ Answering' \subseteq Answering \cup {call}
             /\ InHand' \subseteq InHand /\ Initiating' \subseteq Initiating \cup {call.of}
             /\ \A s \in Sessions : Telling(s)' \subseteq Telling(s)
  <2>1. call.of \in Callers
    BY <1>4, CallFields DEF TypeOK
  <2>2. Initiator(call.of) \in InboxMessages
    BY <2>1, MessageTypes
  <2> QED BY <1>1, <1>4, <2>1, <2>2, FlowSendTo
<1>5. \/ \E s \in Sessions \cup {None} :
           s \in AnswerOf(call) /\ call.slot \in sessions /\ Send(call.slot, Answered(call, s))
      \/ UNCHANGED <<inbox, hand>>
      \/ /\ call \in awaiting /\ call.kind = "create"
         /\ \E t \in Targets : Send(t, Initiator(call.of))
  <2>1. AnswerOf(call) \subseteq Sessions \cup {None}
    BY DEF AnswerOf
  <2> QED BY <2>1 DEF OnResponse, Executed, CreateFailed, TargetMade, SendNothing
<1> QED BY <1>2, <1>3, <1>4, <1>5

LEMMA FlowRouter ==
  ASSUME TypeOK,
         \/ \E t \in Targets : OnTargetGone(t)
         \/ \E s \in Sessions : \/ OnAttachedToTarget(s) \/ OnDetachedFromTarget(s)
                                \/ OnSessionEvent(s)
         \/ OnSessionAttached \/ OnDetached \/ RouterTick \/ RouterEnds
  PROVE  NothingSent
<1> USE DEF routerVars, wireVars, targetVars, navVars, callerVars, chromeVars
<1>1. CASE \/ OnSessionAttached \/ OnDetached \/ RouterTick
           \/ \E s \in Sessions : OnAttachedToTarget(s)
  <2>1. UNCHANGED <<inbox, hand, wire, browser, sending>>
    BY <1>1 DEF OnSessionAttached, OnDetached, RouterTick, OnAttachedToTarget
  <2> QED BY <2>1, FlowSame, AwaitedFlow DEF NothingSent, Sent, OnWire
<1>2. CASE \/ \E t \in Targets : OnTargetGone(t)
           \/ \E s \in Sessions : OnDetachedFromTarget(s) \/ OnSessionEvent(s)
  <2>1. UNCHANGED <<wire, browser, sending>>
    BY <1>2 DEF OnTargetGone, OnDetachedFromTarget, OnSessionEvent
  <2>2. \/ \E t \in Targets : Send(t, Event) \/ Send(t, Shutdown)
        \/ SendNothing
    <3>1. sessions \subseteq Targets
      BY DEF TypeOK
    <3>2. CASE \E t \in Targets : OnTargetGone(t)
      BY <3>2 DEF OnTargetGone
    <3>3. CASE \E s \in Sessions : OnDetachedFromTarget(s)
      BY <3>1, <3>3 DEF OnDetachedFromTarget, TaskOf
    <3>4. CASE \E s \in Sessions : OnSessionEvent(s)
      BY <3>1, <3>4 DEF OnSessionEvent, TaskOf
    <3> QED BY <1>2, <3>2, <3>3, <3>4
  <2>3. CASE SendNothing
    BY <2>1, <2>3, FlowSame, AwaitedFlow DEF SendNothing, NothingSent, Sent, OnWire
  <2> QED BY <2>1, <2>2, <2>3, FlowSendTo, MessageTypes
<1>3. CASE RouterEnds
  <2>1. \A x \in InboxMessages : Held(x)' => Held(x) \/ x = Shutdown
    <3>1. SUFFICES ASSUME NEW x \in InboxMessages, Held(x)' PROVE Held(x) \/ x = Shutdown
      OBVIOUS
    <3>2. inbox \in [Targets -> Seq(InboxMessages)] /\ hand' = hand
      BY <1>3 DEF TypeOK, RouterEnds
    <3>3. CASE hand'.to \in Targets /\ hand'.what = x
      BY <3>2, <3>3 DEF Held
    <3>4. ASSUME NEW t \in Targets, NEW i \in DOMAIN inbox'[t], inbox'[t][i] = x
          PROVE  Held(x) \/ x = Shutdown
      <4>1. inbox'[t] = inbox[t] \/ inbox'[t] = Append(inbox[t], Shutdown)
        BY <1>3 DEF RouterEnds
      <4>2. (i \in DOMAIN inbox[t] /\ inbox'[t][i] = inbox[t][i]) \/ inbox'[t][i] = Shutdown
        BY <3>2, <3>4, <4>1
      <4> QED BY <3>4, <4>2 DEF Held
    <3> QED BY <3>1, <3>3, <3>4 DEF Held
  <2>2. UNCHANGED <<wire, browser>> /\ InHand' = InHand /\ Awaited' = Awaited
    BY <1>3, AwaitedFlow DEF RouterEnds, InHand
  <2> QED BY <2>1, <2>2, FlowOf, MessageTypes DEF NothingSent, Sent, OnWire
<1> QED BY <1>1, <1>2, <1>3

LEMMA FlowAttaches ==
  ASSUME TypeOK, Chrome PROVE NothingSent
<1>1. UNCHANGED <<inbox, hand, wire, browser, sending>>
  BY DEF Chrome, Attaches, wireVars
<1> QED BY <1>1, FlowSame, AwaitedFlow DEF NothingSent, Sent, OnWire

LEMMA FlowSubmit ==
  ASSUME TypeOK, NEW t \in Targets, NEW call \in work[t], Submit(t, call)
  PROVE  /\ Sent' \subseteq Sent \cup {call} /\ Answering' = Answering
         /\ Initiating' = Initiating /\ InHand' = InHand
         /\ \A s \in Sessions : Telling(s)' = Telling(s)
<1>1. call \in Calls
  BY DEF TypeOK
<1>2. UNCHANGED <<inbox, hand, wire, browser>> /\ sending' = [sending EXCEPT ![t] = call]
  BY DEF Submit, chromeVars, wireVars
<1> QED BY <1>1, <1>2, AwaitedFlow, FlowSame DEF Sent, OnWire

(* What a session takes from its inbox was on its way to it.               *)
LEMMA FlowTaken ==
  ASSUME TypeOK, NEW t \in Targets, NEW type, Takes(t, type), 
         UNCHANGED <<hand, wire, browser, sending>>
  PROVE  /\ NothingSent
         /\ type = "response" =>
              /\ Head(inbox[t]).call \in Answering
              /\ Head(inbox[t]).session \in Sessions \cup {None}
              /\ Head(inbox[t]).call \in Telling(Head(inbox[t]).session)
         /\ type = "initiator" => Head(inbox[t]).of \in Initiating
<1>1. /\ \A x \in InboxMessages : Held(x)' => Held(x)
      /\ Held(Head(inbox[t])) /\ Head(inbox[t]) \in InboxMessages
  BY HeldByTakes DEF Takes
<1>2. NothingSent
  BY <1>1, FlowKept, AwaitedFlow DEF NothingSent, Sent, OnWire, InHand
<1>3. ASSUME type = "response"
      PROVE  /\ Head(inbox[t]).call \in Answering
             /\ Head(inbox[t]).session \in Sessions \cup {None}
             /\ Head(inbox[t]).call \in Telling(Head(inbox[t]).session)
  <2>1. PICK m \in InboxMessages : m = Head(inbox[t])
    BY <1>1
  <2>2. m.call \in Calls /\ m.session \in Sessions \cup {None} /\ m = Answered(m.call, m.session)
    BY <1>3, <2>1, MessageFields DEF Takes
  <2> QED BY <1>1, <2>1, <2>2 DEF Answering, Telling
<1>4. ASSUME type = "initiator" PROVE Head(inbox[t]).of \in Initiating
  <2>1. PICK m \in InboxMessages : m = Head(inbox[t])
    BY <1>1
  <2>2. m.of \in Callers /\ m = Initiator(m.of)
    BY <1>4, <2>1, MessageFields DEF Takes
  <2> QED BY <1>1, <2>1, <2>2 DEF Initiating
<1> QED BY <1>2, <1>3, <1>4

LEMMA FlowSession ==
  ASSUME TypeOK, NEW t \in Targets,
         \/ TakeResponse(t) \/ TakeEvent(t) \/ TakeInitiator(t) \/ PageWake(t) \/ SessionTick(t)
         \/ InitEnds(t) \/ HandPage(t) \/ Written(t) \/ WriterGone(t) \/ EndDrive(t) \/ Exit(t)
         \/ End(t)
         \/ \E c \in Callers : NavigationRequest(t, c) \/ NavigationResult(t, c)
  PROVE  NothingSent
<1> USE DEF routerVars, wireVars, targetVars, navVars, callerVars, chromeVars
<1>0. CASE Written(t)
  <2>1. UNCHANGED <<inbox, hand, browser>> /\ sending[t] \in Awaited
        /\ wire' = Append(wire, sending[t]) /\ sending' = [sending EXCEPT ![t] = None]
    BY <1>0, AwaitedFlow DEF Written
  <2>2. OnWire' = OnWire \cup {sending[t]} /\ Awaited' \subseteq Awaited
    BY <2>1, WireFlow, AwaitedFlow
  <2> QED BY <2>1, <2>2, FlowSame DEF NothingSent, Sent
<1>1. CASE WriterGone(t)
  <2>1. UNCHANGED <<inbox, hand, browser, wire>> /\ sending' = [sending EXCEPT ![t] = None]
    BY <1>1 DEF WriterGone
  <2> QED BY <2>1, FlowSame, AwaitedFlow DEF NothingSent, Sent, OnWire
<1>2. CASE \/ PageWake(t) \/ SessionTick(t) \/ InitEnds(t) \/ HandPage(t) \/ EndDrive(t)
           \/ \E c \in Callers : NavigationRequest(t, c) \/ NavigationResult(t, c)
  <2>1. UNCHANGED <<inbox, hand, wire, browser, sending>>
    BY <1>2 DEF PageWake, SessionTick, InitEnds, HandPage, EndDrive, NavigationRequest,
                NavigationResult
  <2> QED BY <2>1, FlowSame, AwaitedFlow DEF NothingSent, Sent, OnWire
<1>3. CASE TakeResponse(t) \/ TakeEvent(t) \/ TakeInitiator(t) \/ Exit(t) \/ End(t)
  <2>1. UNCHANGED <<hand, wire, browser, sending>>
    BY <1>3 DEF TakeResponse, TakeEvent, TakeInitiator, Exit, End
  <2>2. CASE TakeResponse(t) \/ TakeEvent(t) \/ TakeInitiator(t)
    BY <2>1, <2>2, FlowTaken DEF TakeResponse, TakeEvent, TakeInitiator
  <2>3. CASE Exit(t) \/ End(t)
    <3>1. \A x \in InboxMessages : Held(x)' => Held(x)
      <4>1. CASE inbox[t] # <<>> /\ inbox' = [inbox EXCEPT ![t] = Tail(@)]
        BY <2>1, <4>1, HeldByTakes
      <4>2. CASE inbox' = inbox
        BY <2>1, <4>2 DEF Held
      <4>3. CASE inbox' = [inbox EXCEPT ![t] = <<>>]
        <5>1. inbox \in [Targets -> Seq(InboxMessages)] /\ DOMAIN <<>> = {}
          BY DEF TypeOK
        <5>2. \A s \in Targets : inbox'[s] = IF s = t THEN <<>> ELSE inbox[s]
          BY <4>3, <5>1
        <5> QED BY <2>1, <5>1, <5>2 DEF Held
      <4> QED BY <2>3, <4>1, <4>2, <4>3 DEF Exit, End
    <3> QED BY <2>1, <3>1, FlowKept, AwaitedFlow DEF NothingSent, Sent, OnWire, InHand
  <2> QED BY <1>3, <2>2, <2>3
<1> QED BY <1>0, <1>1, <1>2, <1>3
-----------------------------------------------------------------------------
(* The tables of the router.                                               *)

(* The task of a target is spawned with its entry.                         *)
Spawned ==
  \A t \in Targets : /\ phase[t] \in {"drive", "select", "exit"} => t \in sessions
                     /\ <<"created", t>> \notin facts => phase[t] = "none"

(* A task reports a session of its target and does so before its end, and  *)
(* its entry outlives the report.                                          *)
Reported ==
  \A t \in Targets : \A i \in DOMAIN lifecycle :
    /\ \A s \in Sessions : lifecycle[i] = Attached(t, s) =>
         t \in sessions /\ phase[t] # "none" /\ link[s].at = t
    /\ lifecycle[i] = Detached(t) =>
         /\ phase[t] = "ended"
         /\ \A j \in DOMAIN lifecycle, s \in Sessions : i < j => lifecycle[j] # Attached(t, s)

(* Chrome answers the attach call of a target with a session of it. *)
Linked ==
  \A s \in Sessions :
    /\ link[s].st = "free" => link[s].at = None
    /\ \A t \in Targets : link[s].by = Call("attach", t, t) => link[s].at = t
    /\ \A call \in Telling(s) : call.slot \in Targets /\ link[s].at = call.slot

(* What TablesAgree says of the entries but for those of ended tasks. *)
Registered ==
  /\ known = sessions
  /\ \A t \in Targets : /\ named[t] # None => t \in sessions /\ bySession[named[t]] = t
                        /\ t \in sessions => parked[t] = None
  /\ \A s \in Sessions : bySession[s] # None =>
       /\ link[s].at = bySession[s]
       /\ \/ named[bySession[s]] = s
          \/ \E r \in Sessions \ {s} : link[r].at = bySession[s]

(* What it says of those. *)
Ending == \A t \in Targets : t \in sessions /\ phase[t] = "ended" => Leaving(t)

TablesInv == Spawned /\ Reported /\ Linked /\ Registered

LEMMA TablesInit == Init => TablesInv /\ Ending
<1> SUFFICES ASSUME Init PROVE TablesInv /\ Ending
  OBVIOUS
<1>1. /\ \A s \in Sessions : Telling(s) = {}
      /\ \A t \in Targets : phase[t] \in {"select", "none"}
      /\ lifecycle = <<>> /\ DOMAIN lifecycle = {}
  BY NamesAssumption DEF Init, Telling, Held, NoHand
<1>2. \A s \in Sessions, t \in Targets : bySession[s] = t <=> named[t] = s
  BY DEF Init
<1>3. /\ named \in [Targets -> Sessions \cup {None}] /\ bySession \in [Sessions -> Targets \cup {None}]
      /\ sessions = Ready /\ known = Ready /\ \A t \in Targets : named[t] # None <=> t \in Ready
      /\ \A t \in Targets : parked[t] = None
  BY DEF Init
<1>4. \A s \in Sessions :
        /\ bySession[s] = None => /\ link[s].at = None /\ link[s].by = None
        /\ bySession[s] # None =>
             /\ link[s].at = bySession[s] /\ link[s].st = "open"
             /\ link[s].by = Call("attach", bySession[s], bySession[s])
  BY DEF Init
<1>5. \A t \in Targets : Call("attach", t, t) # None
  BY CallTypes, CallsAssumption DEF OwnKinds
<1>6. \A t, u : Call("attach", t, t) = Call("attach", u, u) => t = u
  BY DEF Call
<1>7. Linked
  <2>1. ASSUME NEW s \in Sessions
        PROVE  /\ link[s].st = "free" => link[s].at = None
               /\ \A t \in Targets : link[s].by = Call("attach", t, t) => link[s].at = t
    <3>1. CASE bySession[s] = None
      <4>1. link[s].at = None /\ link[s].by = None
        BY <1>4, <2>1, <3>1
      <4> QED BY <1>5, <4>1
    <3>2. CASE bySession[s] # None
      <4>1. /\ link[s].at = bySession[s] /\ link[s].st = "open"
            /\ link[s].by = Call("attach", bySession[s], bySession[s])
        BY <1>4, <2>1, <3>2
      <4> QED BY <1>6, <4>1
    <3> QED BY <3>1, <3>2
  <2> QED BY <1>1, <2>1 DEF Linked
<1>8. Registered
  <2>1. \A t \in Targets : named[t] # None => bySession[named[t]] = t
    BY <1>2, <1>3
  <2>2. \A s \in Sessions : bySession[s] # None => link[s].at = bySession[s] /\ named[bySession[s]] = s
    <3>1. \A s \in Sessions : bySession[s] # None => bySession[s] \in Targets
      BY <1>3
    <3>2. ASSUME NEW s \in Sessions, bySession[s] # None PROVE named[bySession[s]] = s
      BY <1>2, <3>1, <3>2
    <3> QED BY <1>4, <3>2
  <2> QED BY <1>3, <2>1, <2>2 DEF Registered
<1>9. Spawned
  BY NamesAssumption DEF Init, Spawned
<1>10. Reported /\ Ending
  BY <1>1 DEF Reported, Ending
<1> QED BY <1>7, <1>8, <1>9, <1>10 DEF TablesInv

(* The steps that say nothing new of the sessions of Chrome.               *)
LEMMA LinkedKept ==
  ASSUME Linked,
         \A s \in Sessions : /\ link'[s].at = link[s].at /\ link'[s].by = link[s].by
                             /\ link'[s].st = "free" => link[s].st = "free",
         \A s \in Sessions : \A call \in Telling(s)' :
           call \in Telling(s) \/ (call.slot \in Targets /\ link[s].at = call.slot)
  PROVE  Linked'
BY DEF Linked

(* The steps that leave the tables and the lifecycle channel alone.        *)
LEMMA TablesKept ==
  ASSUME Typed, TablesInv,
         UNCHANGED <<known, sessions, named, bySession, lifecycle>>,
         \A t \in Targets : \/ phase'[t] = phase[t]
                            \/ /\ phase[t] \in {"drive", "select", "exit"}
                               /\ phase'[t] \in {"drive", "select", "exit"},
         \A t \in known : parked'[t] = parked[t] \/ parked'[t] = None,
         facts \subseteq facts',
         \A s \in Sessions : /\ link'[s].at = link[s].at /\ link'[s].by = link[s].by
                             /\ link'[s].st = "free" => link[s].st = "free",
         \A s \in Sessions : \A call \in Telling(s)' :
           call \in Telling(s) \/ (call.slot \in Targets /\ link[s].at = call.slot)
  PROVE  TablesInv'
<1>1. Linked'
  BY LinkedKept DEF TablesInv
<1>2. Spawned'
  BY DEF TablesInv, Spawned
<1>3. Reported'
  BY DEF TablesInv, Reported
<1>4. Registered'
  <2>1. \A s \in Sessions : bySession[s] # None =>
          /\ link'[s].at = bySession[s]
          /\ \/ named[bySession[s]] = s
             \/ \E r \in Sessions \ {s} : link'[r].at = bySession[s]
    BY DEF TablesInv, Registered
  <2> QED BY <2>1 DEF TablesInv, Registered
<1> QED BY <1>1, <1>2, <1>3, <1>4 DEF TablesInv

LEMMA TablesReport ==
  ASSUME Typed, TablesInv, NEW t \in Targets, NEW m \in LifecycleMessages,
         \/ m = Detached(t) /\ phase'[t] = "ended"
         \/ \E s \in Sessions : /\ m = Attached(t, s) /\ link[s].at = t
                                /\ phase'[t] \in {"drive", "select"},
         TrySend(m), phase[t] \in {"select", "exit"},
         \A u \in Targets \ {t} : phase'[u] = phase[u],
         \A s \in Sessions : Telling(s)' \subseteq Telling(s),
         UNCHANGED <<known, sessions, named, bySession, parked, facts, link>>
  PROVE  TablesInv'
<1>1. Spawned' /\ Registered' /\ Linked'
  <2>1. Linked'
    BY LinkedKept DEF TablesInv
  <2>2. Spawned' /\ Registered'
    BY DEF TablesInv, Spawned, Registered
  <2> QED BY <2>1, <2>2
<1>2. lifecycle \in Seq(LifecycleMessages) /\ phase'[t] # "none"
  BY DEF Typed, TypeOK
<1>3. \A i \in DOMAIN lifecycle : lifecycle[i] # Detached(t)
  BY DEF TablesInv, Reported
<1>4. \A u \in Targets : /\ phase[u] # "none" => phase'[u] # "none"
                         /\ u # t => phase'[u] = phase[u]
  BY <1>2
<1>5. CASE lifecycle' = lifecycle
  BY <1>1, <1>3, <1>4, <1>5 DEF TablesInv, Reported
<1>6. CASE lifecycle' = Append(lifecycle, m)
  <2>1. /\ DOMAIN lifecycle' = 1 .. Len(lifecycle) + 1 /\ DOMAIN lifecycle = 1 .. Len(lifecycle)
        /\ Len(lifecycle) \in Nat
        /\ \A i \in DOMAIN lifecycle : lifecycle'[i] = lifecycle[i]
        /\ lifecycle'[Len(lifecycle) + 1] = m
    BY <1>2, <1>6
  <2>2. t \in sessions /\ sessions' = sessions /\ link' = link
    BY DEF TablesInv, Spawned
  <2>3. SUFFICES ASSUME NEW u \in Targets, NEW i \in DOMAIN lifecycle'
                 PROVE  /\ \A s \in Sessions : lifecycle'[i] = Attached(u, s) =>
                             u \in sessions /\ phase'[u] # "none" /\ link[s].at = u
                        /\ lifecycle'[i] = Detached(u) =>
                             /\ phase'[u] = "ended"
                             /\ \A j \in DOMAIN lifecycle', s \in Sessions :
                                  i < j => lifecycle'[j] # Attached(u, s)
    BY <1>1, <2>2 DEF TablesInv, Reported
  <2>4. \A s \in Sessions : m = Attached(u, s) =>
          u = t /\ link[s].at = u /\ phase'[u] \in {"drive", "select"}
    BY DEF Attached, Detached
  <2>5. m = Detached(u) => u = t /\ phase'[u] = "ended"
    BY DEF Attached, Detached
  <2>6. CASE i = Len(lifecycle) + 1
    <3>1. \A j \in DOMAIN lifecycle' : ~ (i < j)
      BY <2>1, <2>6
    <3> QED BY <1>2, <2>1, <2>2, <2>4, <2>5, <2>6, <3>1
  <2>7. CASE i \in DOMAIN lifecycle
    <3>1. /\ \A s \in Sessions : lifecycle[i] = Attached(u, s) =>
               u \in sessions /\ phase[u] # "none" /\ link[s].at = u
          /\ lifecycle[i] = Detached(u) =>
               /\ phase[u] = "ended" /\ u # t
               /\ \A j \in DOMAIN lifecycle, s \in Sessions : i < j => lifecycle[j] # Attached(u, s)
      BY <1>3, <2>7 DEF TablesInv, Reported
    <3>2. \A j \in DOMAIN lifecycle' : j \in DOMAIN lifecycle \/ lifecycle'[j] = m
      BY <2>1
    <3> QED BY <1>4, <2>1, <2>4, <2>7, <3>1, <3>2
  <2> QED BY <2>1, <2>6, <2>7
<1> QED BY <1>5, <1>6 DEF TrySend

(* The router takes the oldest message of the lifecycle channel.           *)
LEMMA TakenReport ==
  ASSUME Typed, TablesInv, lifecycle # <<>>, lifecycle' = Tail(lifecycle)
  PROVE  /\ DOMAIN lifecycle = 1 .. Len(lifecycle) /\ Len(lifecycle) \in Nat \ {0}
         /\ DOMAIN lifecycle' = 1 .. Len(lifecycle) - 1
         /\ \A i \in DOMAIN lifecycle' : /\ lifecycle'[i] = lifecycle[i + 1]
                                         /\ i + 1 \in DOMAIN lifecycle /\ 1 < i + 1
         /\ \A i, j \in DOMAIN lifecycle' : i < j => i + 1 < j + 1
         /\ 1 \in DOMAIN lifecycle /\ lifecycle[1] = Head(lifecycle)
         /\ Head(lifecycle) \in LifecycleMessages
<1>1. lifecycle \in Seq(LifecycleMessages)
  BY DEF Typed, TypeOK
<1>2. /\ DOMAIN lifecycle = 1 .. Len(lifecycle) /\ Len(lifecycle) \in Nat \ {0}
      /\ DOMAIN lifecycle' = 1 .. Len(lifecycle) - 1
      /\ \A i \in DOMAIN lifecycle' : lifecycle'[i] = lifecycle[i + 1]
      /\ lifecycle[1] = Head(lifecycle) /\ Head(lifecycle) \in LifecycleMessages
  BY <1>1
<1>3. \A i \in DOMAIN lifecycle' : i + 1 \in DOMAIN lifecycle /\ 1 < i + 1
  BY <1>2
<1>4. \A i, j \in DOMAIN lifecycle' : i < j => i + 1 < j + 1
  BY <1>2
<1>5. 1 \in DOMAIN lifecycle
  BY <1>2
<1> QED BY <1>2, <1>3, <1>4, <1>5

(* The session s of t is registered. *)
LEMMA RegisteredNames ==
  ASSUME Typed, Registered, NEW t \in sessions, NEW s \in Sessions, link[s].at = t,
         bySession' = [bySession EXCEPT ![s] = t], Named(t, s),
         \A r \in Sessions : link'[r].at = link[r].at,
         UNCHANGED <<known, sessions, parked>>
  PROVE  Registered'
<1>1. /\ named \in [Targets -> Sessions \cup {None}] /\ bySession \in [Sessions -> Targets \cup {None}]
      /\ t \in Targets /\ t # None /\ s # None
  BY NamesAssumption DEF Typed, TypeOK
<1>2. named' = [named EXCEPT ![t] = s]
  BY DEF Named
<1>3. ASSUME NEW u \in Targets, named'[u] # None PROVE u \in sessions /\ bySession'[named'[u]] = u
  <2>1. CASE u = t
    BY <1>1, <1>2, <2>1
  <2>2. CASE u # t
    <3>1. named'[u] = named[u] /\ u \in sessions /\ bySession[named[u]] = u /\ named[u] \in Sessions
      BY <1>1, <1>2, <1>3, <2>2 DEF Registered
    <3>2. named[u] # s
      BY <1>1, <2>2, <3>1, NamesAssumption DEF Registered
    <3> QED BY <1>1, <3>1, <3>2
  <2> QED BY <2>1, <2>2
<1>4. ASSUME NEW r \in Sessions, bySession'[r] # None
      PROVE  /\ link[r].at = bySession'[r]
             /\ \/ named'[bySession'[r]] = r
                \/ \E x \in Sessions \ {r} : link[x].at = bySession'[r]
  <2>1. CASE r = s
    BY <1>1, <1>2, <2>1
  <2>2. CASE r # s
    <3>1. /\ bySession'[r] = bySession[r] /\ link[r].at = bySession[r] /\ bySession[r] \in Targets
          /\ \/ named[bySession[r]] = r
             \/ \E x \in Sessions \ {r} : link[x].at = bySession[r]
      BY <1>1, <1>4, <2>2 DEF Registered
    <3>2. CASE bySession[r] = t
      BY <2>2, <3>1, <3>2
    <3>3. CASE bySession[r] # t
      BY <1>1, <1>2, <3>1, <3>3
    <3> QED BY <3>2, <3>3
  <2> QED BY <2>1, <2>2
<1>5. \A u \in Targets : u \in sessions => parked[u] = None
  BY DEF Registered
<1> QED BY <1>3, <1>4, <1>5 DEF Registered

(* The entry of t goes, and with it the session it names.                  *)
LEMMA RegisteredForgets ==
  ASSUME Typed, Registered, NEW t \in Targets, Unregister(t), UNCHANGED <<parked, link>>
  PROVE  Registered'
<1>1. /\ named \in [Targets -> Sessions \cup {None}] /\ bySession \in [Sessions -> Targets \cup {None}]
  BY DEF Typed, TypeOK
<1>2. /\ known' = known \ {t} /\ sessions' = sessions \ {t}
      /\ \A u \in Targets : named'[u] = IF u = t THEN None ELSE named[u]
      /\ \A s \in Sessions : bySession'[s] = IF s = named[t] THEN None ELSE bySession[s]
  BY <1>1 DEF Unregister
<1>3. ASSUME NEW u \in Targets, named'[u] # None PROVE u \in sessions' /\ bySession'[named'[u]] = u
  <2>1. /\ u # t /\ named'[u] = named[u] /\ u \in sessions /\ bySession[named[u]] = u
        /\ named[u] \in Sessions
    BY <1>1, <1>2, <1>3 DEF Registered
  <2>2. named[u] # named[t]
    <3>1. named[u] # None
      BY <1>3, <2>1
    <3> QED BY <2>1, <3>1 DEF Registered
  <2> QED BY <1>2, <2>1, <2>2
<1>4. ASSUME NEW s \in Sessions, bySession'[s] # None
      PROVE  /\ link[s].at = bySession'[s]
             /\ \/ named'[bySession'[s]] = s
                \/ \E r \in Sessions \ {s} : link[r].at = bySession'[s]
  <2>1. /\ s # named[t] /\ bySession'[s] = bySession[s] /\ link[s].at = bySession[s]
        /\ bySession[s] \in Targets
        /\ \/ named[bySession[s]] = s
           \/ \E r \in Sessions \ {s} : link[r].at = bySession[s]
    BY <1>1, <1>2, <1>4 DEF Registered
  <2>2. named[bySession[s]] = s => bySession[s] # t
    BY <2>1
  <2> QED BY <1>2, <2>1, <2>2
<1>5. known' = sessions' /\ \A u \in Targets : u \in sessions' => parked[u] = None
  BY <1>2 DEF Registered
<1> QED BY <1>3, <1>4, <1>5 DEF Registered

LEMMA TablesRouter ==
  ASSUME Typed, TablesInv, Router PROVE TablesInv'
<1> USE DEF routerVars, wireVars, targetVars, navVars, callerVars, chromeVars, Free
<1>0. TypeOK /\ link \in [Sessions -> Link]
  BY DEF Typed, TypeOK
<1>1. ASSUME NEW t \in Targets, OnTargetCreated(t) PROVE TablesInv'
  <2>1. phase[t] = "none"
    BY <1>1 DEF OnTargetCreated, TablesInv, Spawned
  <2>2. phase' = [phase EXCEPT ![t] = "drive"] /\ parked' = [parked EXCEPT ![t] = None]
        /\ known' = known \cup {t} /\ sessions' = sessions \cup {t}
        /\ facts' = facts \cup {<<"created", t>>} /\ UNCHANGED <<lifecycle, named, bySession, link>>
    BY <1>1 DEF OnTargetCreated
  <2>3. phase \in [Targets -> {"none", "drive", "select", "exit", "ended"}]
        /\ parked \in [Targets -> Callers \cup {None}] /\ known \subseteq Targets
    BY DEF Typed, TypeOK
  <2>4. Spawned' /\ Registered'
    BY <2>2, <2>3 DEF TablesInv, Spawned, Registered
  <2>5. Reported'
    BY <2>1, <2>2, <2>3 DEF TablesInv, Reported
  <2>6. Linked'
    BY <1>0, <1>1, <2>2, FlowTargetCreated, LinkedKept DEF TablesInv
  <2> QED BY <2>4, <2>5, <2>6 DEF TablesInv
<1>2. ASSUME NEW s \in Sessions, OnAttachedToTarget(s) PROVE TablesInv'
  <2>1. facts = facts' /\ UNCHANGED <<known, sessions, lifecycle, phase, parked>>
    BY <1>2 DEF OnAttachedToTarget
  <2>2. /\ link[s].st = "quiet" /\ link' = [link EXCEPT ![s].st = "open"]
        /\ \A r \in Sessions : /\ link'[r].at = link[r].at /\ link'[r].by = link[r].by
                               /\ link'[r].st = "free" => link[r].st = "free"
    BY <1>0, <1>2 DEF OnAttachedToTarget, Link
  <2>3. Linked'
    BY <1>0, <1>2, <2>2, FlowRouter, LinkedKept DEF TablesInv, NothingSent
  <2>4. Spawned' /\ Reported'
    BY <2>1, <2>2 DEF TablesInv, Spawned, Reported
  <2>5. Registered'
    <3>1. CASE link[s].at \in known
      <4>1. bySession' = [bySession EXCEPT ![s] = link[s].at] /\ Named(link[s].at, s)
        BY <1>2, <3>1 DEF OnAttachedToTarget
      <4>2. link[s].at \in sessions
        BY <3>1 DEF TablesInv, Registered
      <4> QED BY <2>1, <2>2, <4>1, <4>2, RegisteredNames DEF TablesInv
    <3>2. CASE link[s].at \notin known
      <4>1. UNCHANGED <<bySession, named>>
        BY <1>2, <3>2 DEF OnAttachedToTarget
      <4>2. \A r \in Sessions : bySession[r] # None =>
              /\ link'[r].at = bySession[r]
              /\ \/ named[bySession[r]] = r
                 \/ \E x \in Sessions \ {r} : link'[x].at = bySession[r]
        BY <2>2 DEF TablesInv, Registered
      <4> QED BY <2>1, <4>1, <4>2 DEF TablesInv, Registered
    <3> QED BY <3>1, <3>2
  <2> QED BY <2>3, <2>4, <2>5 DEF TablesInv
<1>3. CASE OnSessionAttached
  <2>1. PICK t, s : t = Head(lifecycle)[2] /\ s = Head(lifecycle)[3]
    OBVIOUS
  <2>2. /\ lifecycle # <<>> /\ Head(lifecycle)[1] = "attached"
        /\ bySession' = [bySession EXCEPT ![s] = t] /\ Named(t, s)
        /\ lifecycle' = Tail(lifecycle) /\ UNCHANGED <<known, sessions, facts, phase, parked, link>>
    BY <1>3, <2>1 DEF OnSessionAttached
  <2>3. t \in Targets /\ s \in Sessions /\ lifecycle[1] = Attached(t, s) /\ 1 \in DOMAIN lifecycle
    BY <2>1, <2>2, TakenReport, LifecycleFields
  <2>4. t \in sessions /\ link[s].at = t
    BY <2>3 DEF TablesInv, Reported
  <2>5. Registered'
    BY <2>2, <2>3, <2>4, RegisteredNames DEF TablesInv
  <2>6. Linked'
    BY <1>0, <1>3, <2>2, FlowRouter, LinkedKept DEF TablesInv, NothingSent
  <2>7. Spawned' /\ Reported'
    BY <2>2, TakenReport DEF TablesInv, Spawned, Reported
  <2> QED BY <2>5, <2>6, <2>7 DEF TablesInv
<1>4. CASE OnDetached
  <2>1. PICK t : t = Head(lifecycle)[2]
    OBVIOUS
  <2>2. /\ lifecycle # <<>> /\ Head(lifecycle)[1] = "detached" /\ RemoveSession(t)
        /\ lifecycle' = Tail(lifecycle) /\ UNCHANGED <<facts, phase, parked, link>>
    BY <1>4, <2>1 DEF OnDetached
  <2>3. t \in Targets /\ lifecycle[1] = Detached(t) /\ 1 \in DOMAIN lifecycle
    BY <2>1, <2>2, TakenReport, LifecycleFields
  <2>4. /\ phase[t] = "ended"
        /\ \A j \in DOMAIN lifecycle, s \in Sessions : 1 < j => lifecycle[j] # Attached(t, s)
    BY <2>3 DEF TablesInv, Reported
  <2>5. Linked'
    BY <1>0, <1>4, <2>2, FlowRouter, LinkedKept DEF TablesInv, NothingSent
  <2>6. sessions' = sessions \ {t} /\ Spawned'
    <3>1. sessions' = sessions \ {t}
      BY <2>2 DEF RemoveSession, Unregister
    <3> QED BY <2>2, <2>4, <3>1 DEF TablesInv, Spawned
  <2>7. Registered'
    <3>1. CASE t \in sessions
      BY <2>2, <2>3, <3>1, RegisteredForgets DEF RemoveSession, TablesInv
    <3>2. CASE t \notin sessions
      <4>1. UNCHANGED <<known, sessions, named, bySession>>
        BY <2>2, <3>2 DEF RemoveSession
      <4> QED BY <2>2, <4>1 DEF TablesInv, Registered
    <3> QED BY <3>1, <3>2
  <2>8. Reported'
    <3>1. \A i \in DOMAIN lifecycle', s \in Sessions : lifecycle'[i] # Attached(t, s)
      BY <2>2, <2>4, TakenReport
    <3> QED BY <2>2, <2>6, <3>1, TakenReport DEF TablesInv, Reported
  <2> QED BY <2>5, <2>6, <2>7, <2>8 DEF TablesInv
<1>5. ASSUME NEW call \in browser, OnResponse(call) PROVE TablesInv'
  <2>1. \A t \in known : parked'[t] = parked[t]
    <3>1. \/ parked' = parked
          \/ \E t \in Targets \ known : parked' = [parked EXCEPT ![t] = call.of]
      BY <1>5 DEF OnResponse, Executed, CreateFailed, TargetMade
    <3>2. known \subseteq Targets /\ parked \in [Targets -> Callers \cup {None}]
      BY DEF Typed, TypeOK
    <3> QED BY <3>1, <3>2
  <2>2. ASSUME NEW s \in Sessions, s \in AnswerOf(call)
        PROVE  call.slot \in Targets /\ link[s].at = call.slot
    <3>1. call.kind = "attach" /\ link[s].by = call
      BY <2>2, NamesAssumption DEF AnswerOf
    <3>2. call \in Calls
      BY <1>0 DEF TypeOK
    <3>3. PICK t \in Targets : call = Call("attach", t, t)
      BY <3>1, <3>2, CallFields DEF Calls, BrowserKinds, PageKinds, Navigating
    <3> QED BY <3>1, <3>3 DEF TablesInv, Linked, Call
  <2>3. \A s \in Sessions : \A k \in Telling(s)' :
          k \in Telling(s) \/ (k.slot \in Targets /\ link[s].at = k.slot)
    BY <1>0, <1>5, <2>2, FlowResponse
  <2>4. UNCHANGED <<known, sessions, named, bySession, lifecycle, phase, facts, link>>
    BY <1>5 DEF OnResponse
  <2> QED BY <2>1, <2>3, <2>4, TablesKept
<1>6. CASE RouterTick \/ RouterEnds
  <2>1. \A t \in known : parked'[t] = parked[t] \/ parked'[t] = None
    <3>1. known \subseteq Targets
      BY DEF Typed, TypeOK
    <3>2. CASE RouterTick
      BY <3>1, <3>2 DEF RouterTick, Evict
    <3>3. CASE RouterEnds
      BY <3>1, <3>3 DEF RouterEnds
    <3> QED BY <1>6, <3>2, <3>3
  <2>2. NothingSent
    BY <1>0, <1>6, FlowRouter
  <2>3. UNCHANGED <<known, sessions, named, bySession, lifecycle, phase, facts, link>>
    BY <1>6 DEF RouterTick, RouterEnds
  <2> QED BY <2>1, <2>2, <2>3, TablesKept DEF NothingSent
<1>7. CASE HandOver \/ \E c \in Callers : OnBrowserMessage(c)
  <2>1. \A s \in Sessions : Telling(s)' \subseteq Telling(s)
    BY <1>0, <1>7, FlowHandOver, FlowBrowserMessage
  <2>2. UNCHANGED <<known, sessions, named, bySession, lifecycle, phase, facts, link, parked>>
    BY <1>7 DEF HandOver, OnBrowserMessage
  <2> QED BY <2>1, <2>2, TablesKept
<1>8. CASE \/ \E t \in Targets : OnTargetGone(t)
           \/ \E s \in Sessions : OnDetachedFromTarget(s) \/ OnSessionEvent(s)
  <2>1. NothingSent
    BY <1>0, <1>8, FlowRouter
  <2>2. UNCHANGED <<known, sessions, named, bySession, lifecycle, phase, parked>> /\ facts \subseteq facts'
    BY <1>8 DEF OnTargetGone, OnDetachedFromTarget, OnSessionEvent
  <2>3. \A r \in Sessions : /\ link'[r].at = link[r].at /\ link'[r].by = link[r].by
                            /\ link'[r].st = "free" => link[r].st = "free"
    <3>1. CASE link' = link
      BY <3>1
    <3>2. CASE \E s \in Sessions : link' = [link EXCEPT ![s].st = "closed"]
      BY <1>0, <3>2 DEF Link
    <3> QED BY <1>8, <3>1, <3>2 DEF OnTargetGone, OnDetachedFromTarget, OnSessionEvent
  <2> QED BY <2>1, <2>2, <2>3, TablesKept DEF NothingSent
<1> QED BY <1>1, <1>2, <1>3, <1>4, <1>5, <1>6, <1>7, <1>8 DEF Router

LEMMA TablesChrome ==
  ASSUME Typed, TablesInv, Chrome PROVE TablesInv'
<1> USE DEF routerVars, wireVars, targetVars, navVars, callerVars, chromeVars
<1>1. PICK call \in browser, t \in Targets, s \in Sessions : Attaches(call, t, s)
  BY DEF Chrome
<1>2. /\ link' = [link EXCEPT ![s] = [at |-> t, by |-> call, st |-> "quiet"]] /\ link[s].st = "free"
      /\ call = Call("attach", t, t) \/ call.kind = "browser"
      /\ UNCHANGED <<known, sessions, named, bySession, lifecycle, phase, facts, parked>>
  BY <1>1 DEF Attaches
<1>3. \A r \in Sessions : link'[r] = IF r = s THEN [at |-> t, by |-> call, st |-> "quiet"] ELSE link[r]
  BY <1>2 DEF Typed, TypeOK
<1>4. link[s].at = None /\ None \notin Targets
  BY <1>2, NamesAssumption DEF TablesInv, Linked
<1>5. \A r \in Sessions, u \in Targets : link[r].at = u => link'[r].at = u
  BY <1>3, <1>4
<1>6. \A r \in Sessions : Telling(r)' \subseteq Telling(r)
  BY FlowAttaches DEF Typed, NothingSent
<1>7. Linked'
  <2>1. \A u \in Targets : call = Call("attach", u, u) => u = t
    BY <1>2 DEF Call
  <2>2. \A k \in Telling(s) : FALSE
    BY <1>4 DEF TablesInv, Linked
  <2> QED BY <1>3, <1>6, <2>1, <2>2 DEF TablesInv, Linked
<1>8. Spawned' /\ Reported'
  BY <1>2, <1>5 DEF TablesInv, Spawned, Reported
<1>9. Registered'
  <2>1. bySession \in [Sessions -> Targets \cup {None}]
    BY DEF Typed, TypeOK
  <2>2. \A r \in Sessions : bySession[r] # None =>
          /\ link'[r].at = bySession[r]
          /\ \/ named[bySession[r]] = r
             \/ \E x \in Sessions \ {r} : link'[x].at = bySession[r]
    BY <1>5, <2>1 DEF TablesInv, Registered
  <2> QED BY <1>2, <2>2 DEF TablesInv, Registered
<1> QED BY <1>7, <1>8, <1>9 DEF TablesInv

LEMMA TablesSession ==
  ASSUME Typed, TablesInv, NEW t \in Targets, Session(t) PROVE TablesInv'
<1> USE DEF routerVars, wireVars, targetVars, navVars, callerVars, chromeVars
<1>0. TypeOK /\ phase \in [Targets -> {"none", "drive", "select", "exit", "ended"}]
  BY DEF Typed, TypeOK
<1>1. CASE TakeResponse(t)
  <2>1. /\ Takes(t, "response") /\ phase[t] = "select" /\ phase' = [phase EXCEPT ![t] = "drive"]
        /\ UNCHANGED <<known, sessions, named, bySession, parked, facts, link, hand, wire,
                       browser, sending>>
    BY <1>1 DEF TakeResponse, Takes, StartDrive
  <2>2. PICK m : m = Head(inbox[t])
    OBVIOUS
  <2>3. /\ m.call \in Answering /\ m.session \in Sessions \cup {None}
        /\ m.call \in Telling(m.session)
        /\ \A s \in Sessions : Telling(s)' \subseteq Telling(s)
    BY <1>0, <2>1, <2>2, FlowTaken DEF NothingSent
  <2>4. \/ lifecycle' = lifecycle
        \/ /\ m.call \in pending[t] /\ m.session # None
           /\ TrySend(Attached(t, m.session))
    BY <1>1, <2>2 DEF TakeResponse, SessionResponse
  <2>5. CASE lifecycle' = lifecycle
    BY <1>0, <2>1, <2>3, <2>5, TablesKept
  <2>6. CASE /\ m.call \in pending[t] /\ m.session # None
             /\ TrySend(Attached(t, m.session))
    <3>1. m.call.slot = t
      BY <1>0, <2>6, CallFields DEF TypeOK
    <3>2. m.session \in Sessions /\ link[m.session].at = t
      BY <2>3, <2>6, <3>1 DEF TablesInv, Linked
    <3>3. Attached(t, m.session) \in LifecycleMessages /\ phase'[t] = "drive"
      BY <1>0, <2>1, <3>2, LifecycleFields
    <3>4. \A u \in Targets \ {t} : phase'[u] = phase[u]
      BY <1>0, <2>1
    <3> QED BY <2>1, <2>3, <2>6, <3>2, <3>3, <3>4, TablesReport
  <2> QED BY <2>4, <2>5, <2>6
<1>2. CASE End(t)
  <2>1. phase[t] = "exit" /\ phase' = [phase EXCEPT ![t] = "ended"] /\ TrySend(Detached(t))
        /\ UNCHANGED <<known, sessions, named, bySession, parked, facts, link>>
    BY <1>2 DEF End, ReportDetached
  <2>2. Detached(t) \in LifecycleMessages /\ phase'[t] = "ended"
    BY <1>0, <2>1, LifecycleFields
  <2>3. \A u \in Targets \ {t} : phase'[u] = phase[u]
    BY <1>0, <2>1
  <2>4. NothingSent
    BY <1>0, <1>2, FlowSession
  <2> QED BY <2>1, <2>2, <2>3, <2>4, TablesReport DEF NothingSent
<1>3. CASE \/ TakeEvent(t) \/ TakeInitiator(t) \/ PageWake(t) \/ SessionTick(t)
           \/ InitEnds(t) \/ EndDrive(t) \/ Exit(t)
  <2>1. /\ phase[t] \in {"select", "drive"}
        /\ \E p \in {"drive", "select", "exit"} : phase' = [phase EXCEPT ![t] = p]
    BY <1>3 DEF TakeEvent, TakeInitiator, Takes, PageWake, SessionTick, InitEnds, EndDrive, Exit,
                StartDrive, Driving
  <2>2. UNCHANGED <<known, sessions, named, bySession, parked, facts, lifecycle, link>>
    BY <1>3 DEF TakeEvent, TakeInitiator, PageWake, SessionTick, InitEnds, EndDrive, Exit
  <2>3. NothingSent
    BY <1>0, <1>3, FlowSession
  <2> QED BY <1>0, <2>1, <2>2, <2>3, TablesKept DEF NothingSent
<1>4. CASE \/ HandPage(t) \/ Written(t) \/ WriterGone(t)
           \/ \E c \in Callers : NavigationRequest(t, c) \/ NavigationResult(t, c)
  <2>1. UNCHANGED <<known, sessions, named, bySession, parked, facts, lifecycle, phase, link>>
    BY <1>4 DEF HandPage, Written, WriterGone, NavigationRequest, NavigationResult
  <2>2. NothingSent
    BY <1>0, <1>4, FlowSession
  <2> QED BY <2>1, <2>2, TablesKept DEF NothingSent
<1>5. CASE \E call \in work[t] : Submit(t, call)
  <2>1. UNCHANGED <<known, sessions, named, bySession, parked, facts, lifecycle, phase, link>>
    BY <1>5 DEF Submit
  <2>2. \A s \in Sessions : Telling(s)' = Telling(s)
    BY <1>0, <1>5, FlowSubmit
  <2> QED BY <2>1, <2>2, TablesKept
<1> QED BY <1>1, <1>2, <1>3, <1>4, <1>5 DEF Session

LEMMA TablesNext == Typed /\ TablesInv /\ [Next]_vars => TablesInv'
<1> SUFFICES ASSUME Typed, TablesInv, [Next]_vars PROVE TablesInv'
  OBVIOUS
<1>1. CASE UNCHANGED vars \/ Asks
  <2>1. UNCHANGED <<inbox, hand, known, sessions, named, bySession, lifecycle, phase, parked,
                    facts, link>>
    BY <1>1 DEF vars, routerVars, wireVars, chromeVars, Asks, AskBrowser, AskPage
  <2> QED BY <2>1, FlowSame, TablesKept
<1>2. CASE WriterTakes \/ WriterCloses
  <2>1. UNCHANGED <<known, sessions, named, bySession, lifecycle, phase, parked, facts, link>>
    BY <1>2 DEF routerVars, chromeVars, WriterTakes, WriterCloses
  <2> QED BY <1>2, <2>1, FlowWriter, TablesKept DEF NothingSent, Typed
<1> QED BY <1>1, <1>2, TablesRouter, TablesChrome, TablesSession DEF Next

(* Once a task leaves it stays so as long as its entry is there.           *)
LEMMA LeavingNext ==
  ASSUME Typed, TablesInv, [Next]_vars, NEW t \in Targets, Leaving(t), t \in sessions'
  PROVE  Leaving(t)'
<1> USE DEF routerVars, wireVars, targetVars, navVars, callerVars, chromeVars
<1>0. TypeOK /\ phase \in [Targets -> {"none", "drive", "select", "exit", "ended"}]
  BY DEF Typed, TypeOK
<1>1. phase[t] \in {"exit", "ended"}
  BY DEF Leaving
<1>2. ASSUME phase'[t] = phase[t], running' = running \/ ~running', lost \subseteq lost',
             \A i \in DOMAIN lifecycle : lifecycle[i] = Detached(t) =>
               \E j \in DOMAIN lifecycle' : lifecycle'[j] = Detached(t)
      PROVE  Leaving(t)'
  BY <1>2 DEF Leaving
<1>3. ASSUME phase'[t] = phase[t], running' = running \/ ~running', lost \subseteq lost',
             UNCHANGED lifecycle
      PROVE  Leaving(t)'
  BY <1>3 DEF Leaving
<1>4. ASSUME NEW m \in LifecycleMessages, TrySend(m), phase'[t] = phase[t], running' = running,
             lost \subseteq lost'
      PROVE  Leaving(t)'
  <2>1. \A i \in DOMAIN lifecycle : i \in DOMAIN lifecycle' /\ lifecycle'[i] = lifecycle[i]
    <3>1. lifecycle \in Seq(LifecycleMessages)
      BY <1>0 DEF TypeOK
    <3> QED BY <1>4, <3>1 DEF TrySend
  <2> QED BY <1>2, <1>4, <2>1
<1>5. CASE UNCHANGED vars \/ Asks \/ WriterTakes \/ WriterCloses \/ Chrome
  BY <1>3, <1>5 DEF vars, Asks, AskBrowser, AskPage, WriterTakes, WriterCloses, Chrome, Attaches
<1>6. CASE OnSessionAttached \/ OnDetached
  <2>1. /\ lifecycle # <<>> /\ lifecycle' = Tail(lifecycle) /\ UNCHANGED <<running, lost, phase>>
    BY <1>6 DEF OnSessionAttached, OnDetached
  <2>2. lifecycle[1] # Detached(t)
    <3>1. /\ lifecycle[1] = Head(lifecycle) /\ Head(lifecycle) \in LifecycleMessages
      BY <2>1, TakenReport
    <3>2. CASE OnSessionAttached
      BY <3>1, <3>2, LifecycleFields DEF OnSessionAttached, Detached
    <3>3. CASE OnDetached /\ Head(lifecycle) = Detached(t)
      BY <3>3 DEF OnDetached, RemoveSession, Unregister, Detached
    <3> QED BY <1>6, <3>1, <3>2, <3>3
  <2>3. \A i \in DOMAIN lifecycle : i # 1 => i - 1 \in DOMAIN lifecycle' /\ lifecycle'[i - 1] = lifecycle[i]
    <3>1. lifecycle \in Seq(LifecycleMessages)
      BY <1>0 DEF TypeOK
    <3> QED BY <2>1, <3>1
  <2> QED BY <1>2, <2>1, <2>2, <2>3
<1>7. CASE Router /\ ~ (OnSessionAttached \/ OnDetached)
  <2>1. UNCHANGED <<lifecycle, lost>> /\ (running' = running \/ ~running')
    BY <1>7 DEF Router, HandOver, OnBrowserMessage, OnTargetCreated, OnAttachedToTarget,
                OnTargetGone, OnDetachedFromTarget, OnSessionEvent, OnResponse, RouterTick,
                RouterEnds
  <2>2. phase'[t] = phase[t]
    <3>1. CASE UNCHANGED phase
      BY <3>1
    <3>2. ASSUME NEW u \in Targets, OnTargetCreated(u) PROVE phase'[t] = phase[t]
      <4>1. phase[u] = "none" /\ phase' = [phase EXCEPT ![u] = "drive"]
        BY <3>2 DEF OnTargetCreated, TablesInv, Spawned
      <4> QED BY <1>0, <1>1, <4>1
    <3> QED BY <1>7, <3>1, <3>2 DEF Router, HandOver, OnBrowserMessage, OnAttachedToTarget,
                OnTargetGone, OnDetachedFromTarget, OnSessionEvent, OnResponse, RouterTick,
                RouterEnds
  <2> QED BY <1>3, <2>1, <2>2
<1>8. ASSUME NEW u \in Targets, Session(u) PROVE Leaving(t)'
  <2>1. CASE TakeResponse(u)
    <3>1. /\ phase[u] = "select" /\ phase' = [phase EXCEPT ![u] = "drive"]
          /\ UNCHANGED <<running, lost>> /\ inbox[u] # <<>> /\ Head(inbox[u]).type = "response"
      BY <2>1 DEF TakeResponse, Takes, StartDrive
    <3>2. phase'[t] = phase[t]
      BY <1>0, <1>1, <3>1
    <3>3. \/ lifecycle' = lifecycle
          \/ Head(inbox[u]).session # None /\ TrySend(Attached(u, Head(inbox[u]).session))
      BY <2>1 DEF TakeResponse, SessionResponse
    <3>4. Head(inbox[u]).session \in Sessions \cup {None}
      <4>1. Takes(u, "response") /\ UNCHANGED <<hand, wire, browser, sending>>
        BY <2>1 DEF TakeResponse
      <4> QED BY <1>0, <4>1, FlowTaken
    <3> QED BY <1>3, <1>4, <3>1, <3>2, <3>3, <3>4, LifecycleFields
  <2>2. CASE End(u)
    <3>1. /\ TrySend(Detached(u)) /\ running' = running /\ lost \subseteq lost'
          /\ lost' = IF running /\ Len(lifecycle) = LifecycleCapacity THEN lost \cup {u} ELSE lost
          /\ phase[u] = "exit" /\ phase' = [phase EXCEPT ![u] = "ended"]
      BY <2>2 DEF End, ReportDetached
    <3>2. CASE u # t
      BY <1>0, <1>4, <3>1, <3>2, LifecycleFields
    <3>3. CASE u = t
      <4>1. phase'[t] = "ended"
        BY <1>0, <3>1, <3>3
      <4>2. CASE running /\ Len(lifecycle) < LifecycleCapacity
        <5>1. /\ lifecycle' = Append(lifecycle, Detached(t)) /\ lifecycle \in Seq(LifecycleMessages)
          BY <1>0, <3>1, <3>3, <4>2 DEF TrySend, TypeOK
        <5>2. /\ Len(lifecycle) + 1 \in DOMAIN lifecycle'
              /\ lifecycle'[Len(lifecycle) + 1] = Detached(t)
          BY <5>1
        <5> QED BY <4>1, <5>2 DEF Leaving
      <4>3. CASE running /\ ~ (Len(lifecycle) < LifecycleCapacity)
        <5>1. Len(lifecycle) = LifecycleCapacity
          BY <1>0, <4>3, CapacitiesAssumption DEF TypeOK
        <5> QED BY <3>1, <3>3, <4>1, <4>3, <5>1 DEF Leaving
      <4>4. CASE ~running
        BY <3>1, <4>1, <4>4 DEF Leaving
      <4> QED BY <4>2, <4>3, <4>4
    <3> QED BY <3>2, <3>3
  <2>3. CASE \/ TakeEvent(u) \/ TakeInitiator(u) \/ PageWake(u) \/ SessionTick(u)
             \/ InitEnds(u) \/ EndDrive(u) \/ Exit(u)
    <3>1. /\ phase[u] \in {"select", "drive"}
          /\ \E p \in {"drive", "select", "exit"} : phase' = [phase EXCEPT ![u] = p]
      BY <2>3 DEF TakeEvent, TakeInitiator, Takes, PageWake, SessionTick, InitEnds, EndDrive,
                  Exit, StartDrive, Driving
    <3>2. UNCHANGED <<lifecycle, lost, running>>
      BY <2>3 DEF TakeEvent, TakeInitiator, PageWake, SessionTick, InitEnds, EndDrive, Exit
    <3> QED BY <1>0, <1>1, <1>3, <3>1, <3>2
  <2>4. CASE \/ HandPage(u) \/ Written(u) \/ WriterGone(u)
             \/ \E c \in Callers : NavigationRequest(u, c) \/ NavigationResult(u, c)
             \/ \E call \in work[u] : Submit(u, call)
    <3>1. UNCHANGED <<lifecycle, lost, running, phase>>
      BY <2>4 DEF HandPage, Written, WriterGone, NavigationRequest, NavigationResult, Submit
    <3> QED BY <1>3, <3>1
  <2> QED BY <1>8, <2>1, <2>2, <2>3, <2>4 DEF Session
<1> QED BY <1>5, <1>6, <1>7, <1>8 DEF Next

(* A task ends on its way out. *)
LEMMA EndedBefore ==
  ASSUME Typed, [Next]_vars, NEW t \in Targets, phase'[t] = "ended"
  PROVE  phase[t] = "ended" \/ phase[t] = "exit"
<1> USE DEF routerVars, wireVars, targetVars, navVars, callerVars, chromeVars
<1>0. phase \in [Targets -> {"none", "drive", "select", "exit", "ended"}]
  BY DEF Typed, TypeOK
<1>1. \/ UNCHANGED phase
      \/ \E u \in Targets, p \in {"drive", "select", "exit"} : phase' = [phase EXCEPT ![u] = p]
      \/ \E u \in Targets : phase[u] = "exit" /\ phase' = [phase EXCEPT ![u] = "ended"]
  <2>1. CASE UNCHANGED vars \/ Asks \/ WriterTakes \/ WriterCloses \/ Chrome
    BY <2>1 DEF vars, Asks, AskBrowser, AskPage, WriterTakes, WriterCloses, Chrome, Attaches
  <2>2. CASE Router
    BY <2>2 DEF Router, HandOver, OnSessionAttached, OnDetached, OnBrowserMessage,
                OnTargetCreated, OnAttachedToTarget, OnTargetGone, OnDetachedFromTarget,
                OnSessionEvent, OnResponse, RouterTick, RouterEnds
  <2>3. ASSUME NEW u \in Targets, Session(u)
        PROVE  \/ UNCHANGED phase
               \/ \E p \in {"drive", "select", "exit"} : phase' = [phase EXCEPT ![u] = p]
               \/ phase[u] = "exit" /\ phase' = [phase EXCEPT ![u] = "ended"]
    BY <2>3 DEF Session, TakeResponse, TakeEvent, TakeInitiator, PageWake, SessionTick, InitEnds,
                HandPage, Written, WriterGone, EndDrive, Exit, End, Submit, NavigationRequest,
                NavigationResult, StartDrive
  <2> QED BY <2>1, <2>2, <2>3 DEF Next
<1> QED BY <1>0, <1>1

LEMMA EndingNext == Typed /\ TablesInv /\ Ending /\ [Next]_vars => Ending'
<1> SUFFICES ASSUME Typed, TablesInv, Ending, [Next]_vars, NEW t \in Targets,
                    t \in sessions', phase'[t] = "ended"
             PROVE  Leaving(t)'
  BY DEF Ending
<1>1. CASE phase[t] = "exit"
  BY <1>1, LeavingNext DEF Leaving
<1>2. CASE phase[t] = "ended" /\ t \in sessions
  BY <1>2, LeavingNext DEF Ending
<1>3. t \in sessions \/ phase'[t] # "ended" \/ phase[t] = "exit"
  <2>1. ASSUME NEW u \in Targets, OnTargetCreated(u), t \notin sessions, phase[t] = "ended"
        PROVE  FALSE
    <3>1. phase[u] = "none" /\ sessions' = sessions \cup {u}
      BY <2>1 DEF OnTargetCreated, TablesInv, Spawned
    <3> QED BY <2>1, <3>1
  <2>2. sessions' \subseteq sessions \/ \E u \in Targets : OnTargetCreated(u)
    <3> USE DEF routerVars, wireVars, targetVars, navVars, callerVars, chromeVars
    <3>1. CASE UNCHANGED vars \/ Asks \/ WriterTakes \/ WriterCloses \/ Chrome
      BY <3>1 DEF vars, Asks, AskBrowser, AskPage, WriterTakes, WriterCloses, Chrome, Attaches
    <3>2. CASE Router
      BY <3>2 DEF Router, HandOver, OnSessionAttached, OnDetached, OnBrowserMessage,
                  OnAttachedToTarget, OnTargetGone, OnDetachedFromTarget, OnSessionEvent,
                  OnResponse, RouterTick, RouterEnds, RemoveSession, Unregister
    <3>3. ASSUME NEW u \in Targets, Session(u) PROVE UNCHANGED sessions
      BY <3>3 DEF Session, TakeResponse, TakeEvent, TakeInitiator, PageWake, SessionTick,
                  InitEnds, HandPage, Written, WriterGone, EndDrive, Exit, End, Submit,
                  NavigationRequest, NavigationResult
    <3> QED BY <3>1, <3>2, <3>3 DEF Next
  <2> QED BY <2>1, <2>2, EndedBefore
<1> QED BY <1>1, <1>2, <1>3, EndedBefore

LEMMA TablesParts == TablesAgree <=> Registered /\ Ending
BY DEF TablesAgree, Registered, Ending

(* A target is known and has an entry together, its entry names a session  *)
(* that leads back to it, and a session leads to no target but the one     *)
(* Chrome made it for, in whatever order Chrome's event, the answer to the *)
(* call and the report of the session arrive or fail to, and whichever     *)
(* further sessions of the target Chrome makes (register_session_id,       *)
(* remove_session).  An entry outlives its task only until its Detached is *)
(* read, or when that was lost; no initiator stays parked beside an entry. *)
THEOREM TablesStayTogether == Spec => []TablesAgree
<1>1. Typed /\ TablesInv /\ Ending /\ [Next]_vars => (Typed /\ TablesInv /\ Ending)'
  BY TypedNext, TablesNext, EndingNext
<1>2. Init => Typed /\ TablesInv /\ Ending
  BY TypedInit, TablesInit
<1>3. TablesInv /\ Ending => TablesAgree
  BY TablesParts DEF TablesInv
<1> QED BY <1>1, <1>2, <1>3, PTL DEF Spec
-----------------------------------------------------------------------------
(* Who asked for what is under way. *)

AskedFor(call) ==
  \/ call.kind \in OwnKinds
  \/ call.kind = "renavigate" /\ asked[call.of] = [kind |-> "navigate", at |-> call.slot]
  \/ asked[call.of] = [kind |-> call.kind, at |-> call.slot]

Pursued  == Sent \cup awaiting \cup InHand \cup UNION {work[t] \cup pending[t] : t \in Targets}
Promised == Initiating \cup {c \in Callers : \E t \in Targets : c \in {parked[t], initiator[t]}}

Authentic ==
  /\ \A call \in Pursued : AskedFor(call)
  /\ \A c \in Promised : asked[c].kind = "create"
  /\ \A c \in Callers : navs[c] # "none" \/ watch[c] # "none" => asked[c].kind = "navigate"

LEMMA AuthenticInit == Init => Authentic
<1> SUFFICES ASSUME Init PROVE Authentic
  OBVIOUS
<1>1. Answering = {} /\ Initiating = {} /\ InHand = {} /\ OnWire = {}
  BY NamesAssumption DEF Init, Answering, Initiating, InHand, OnWire, Held, NoHand
<1>2. Pursued = {}
  BY <1>1, NamesAssumption DEF Init, Pursued, Sent, Awaited
<1>3. Promised = {}
  BY <1>1, NamesAssumption DEF Init, Promised
<1> QED BY <1>2, <1>3 DEF Init, Authentic

LEMMA PursuedType ==
  ASSUME TypeOK
  PROVE  /\ Pursued \subseteq Calls /\ Promised \subseteq Callers
         /\ \A call \in Calls : call.kind \in BrowserKinds \cup PageKinds \cup Navigating \cup OwnKinds
         /\ \A call \in Calls : call.kind \in OwnKinds \/ call.of \in Callers
<1>1. Pursued \subseteq Calls
  BY SentType, CallTypes DEF Pursued, InHand, TypeOK
<1>2. \A call \in Calls : call \in RouterCalls \/ \E t \in Targets : call \in SessionCalls(t)
  BY DEF Calls
<1>3. Promised \subseteq Callers
  BY DEF Promised, Initiating
<1> QED BY <1>1, <1>2, <1>3, CallFields

LEMMA AskedFields ==
  ASSUME TypeOK, NEW c \in Callers
  PROVE  /\ asked[c] = [kind |-> asked[c].kind, at |-> asked[c].at]
         /\ asked[c].kind \notin {"renavigate"} \cup OwnKinds
<1>1. asked[c] \in {[kind |-> "none", at |-> None]}
                  \cup {[kind |-> k, at |-> None] : k \in BrowserKinds}
                  \cup {[kind |-> k, at |-> t] : k \in PageKinds, t \in Targets}
  BY DEF TypeOK
<1> QED BY <1>1 DEF BrowserKinds, PageKinds, OwnKinds

LEMMA AuthenticKept ==
  ASSUME Typed, Authentic, UNCHANGED asked,
         \A call \in Sent' \cup awaiting' \cup InHand' : call \in Pursued \/ AskedFor(call),
         \A t \in Targets : \A call \in work'[t] \cup pending'[t] : call \in Pursued \/ AskedFor(call),
         \A c \in Initiating' : c \in Promised \/ asked[c].kind = "create",
         \A t \in Targets : \A c \in Callers \cap {parked'[t], initiator'[t]} :
           c \in Promised \/ asked[c].kind = "create",
         \A c \in Callers : navs'[c] # "none" => navs[c] # "none" \/ asked[c].kind = "navigate",
         \A c \in Callers : watch'[c] # "none" => watch[c] # "none" \/ asked[c].kind = "navigate"
  PROVE  Authentic'
<1>1. \A call \in Pursued' : call \in Pursued \/ AskedFor(call)
  BY DEF Pursued
<1>2. \A c \in Promised' : c \in Promised \/ asked[c].kind = "create"
  BY DEF Promised
<1>3. \A call : AskedFor(call)' <=> AskedFor(call)
  BY DEF AskedFor
<1>4. \A call \in Pursued' : AskedFor(call)'
  BY <1>1, <1>3 DEF Authentic
<1> QED BY <1>2, <1>4 DEF Authentic

LEMMA PursuedParts ==
  /\ Sent \subseteq Pursued /\ awaiting \subseteq Pursued /\ InHand \subseteq Pursued
  /\ \A t \in Targets : work[t] \subseteq Pursued /\ pending[t] \subseteq Pursued
  /\ Initiating \subseteq Promised
  /\ \A t \in Targets : Callers \cap {parked[t], initiator[t]} \subseteq Promised
BY DEF Pursued, Promised

(* A step after which less is under way. *)
LEMMA AuthenticLess ==
  ASSUME Typed, Authentic, UNCHANGED asked, NothingSent, awaiting' \subseteq awaiting,
         \A t \in Targets : work'[t] \subseteq work[t] /\ pending'[t] \subseteq pending[t],
         \A t \in Targets : {parked'[t], initiator'[t]} \subseteq {parked[t], initiator[t], None},
         \A c \in Callers : navs'[c] # "none" => navs[c] # "none",
         \A c \in Callers : watch'[c] # "none" => watch[c] # "none"
  PROVE  Authentic'
<1>1. \A t \in Targets : Callers \cap {parked'[t], initiator'[t]} \subseteq {parked[t], initiator[t]}
  BY NamesAssumption
<1> QED BY <1>1, AuthenticKept, PursuedParts DEF NothingSent

LEMMA AuthenticAsks ==
  ASSUME Typed, Authentic, Asks PROVE Authentic'
<1> USE DEF routerVars, wireVars, navVars, targetVars, chromeVars
<1>1. PICK c \in Callers : (\E a : asked' = [asked EXCEPT ![c] = a]) /\ outcome[c] = "idle"
  BY DEF Asks, AskBrowser, AskPage
<1>2. asked[c].kind = "none" /\ \A d \in Callers : d # c => asked'[d] = asked[d]
  BY <1>1 DEF Typed, TypeOK, Waiting
<1>3. UNCHANGED <<inbox, hand, wire, browser, sending, awaiting, work, pending, parked, initiator,
                navs, watch>>
  BY DEF Asks, AskBrowser, AskPage
<1>4. Pursued' = Pursued /\ Promised' = Promised
  BY <1>3, FlowSame DEF Pursued, Promised, Sent, OnWire, Awaited
<1>5. ASSUME NEW call \in Pursued PROVE AskedFor(call)'
  <2>1. call \in Calls /\ AskedFor(call)
    BY PursuedType DEF Authentic, Typed
  <2>2. call.kind \in OwnKinds \/ (call.of \in Callers /\ call.of # c)
    <3>1. call.kind # "none" /\ (call.kind \in OwnKinds \/ call.of \in Callers)
      BY <2>1, PursuedType DEF BrowserKinds, PageKinds, Navigating, OwnKinds, Typed
    <3> QED BY <1>2, <2>1, <3>1 DEF AskedFor
  <2> QED BY <1>2, <2>1, <2>2 DEF AskedFor
<1>6. \A d \in Promised : asked'[d].kind = "create"
  BY <1>2, PursuedType DEF Authentic, Typed
<1>7. \A d \in Callers : navs[d] # "none" \/ watch[d] # "none" => asked'[d].kind = "navigate"
  BY <1>2 DEF Authentic
<1> QED BY <1>3, <1>4, <1>5, <1>6, <1>7 DEF Authentic

LEMMA AuthenticRouter ==
  ASSUME Typed, Authentic, Router PROVE Authentic'
<1> USE DEF routerVars, wireVars, targetVars, navVars, callerVars, chromeVars
<1>1. CASE HandOver
  <2>1. UNCHANGED <<asked, work, pending, parked, initiator, navs, watch>>
    BY <1>1 DEF HandOver
  <2> QED BY <1>1, <2>1, FlowHandOver, AuthenticKept, PursuedParts DEF Typed
<1>2. ASSUME NEW c \in Callers, OnBrowserMessage(c) PROVE Authentic'
  <2>1. UNCHANGED <<asked, awaiting, work, pending, parked, initiator, navs, watch>>
    BY <1>2 DEF OnBrowserMessage
  <2>2. AskedFor(Call(asked[c].kind, c, None))
    BY <1>2 DEF OnBrowserMessage, Typed, TypeOK, Waiting, AskedFor, Call, BrowserKinds
  <2> QED BY <1>2, <2>1, <2>2, FlowBrowserMessage, AuthenticKept, PursuedParts DEF Typed
<1>3. ASSUME NEW t \in Targets, OnTargetCreated(t) PROVE Authentic'
  <2>1. /\ UNCHANGED <<asked, awaiting, pending, initiator, navs, watch>>
        /\ parked' = [parked EXCEPT ![t] = None] /\ work' = [work EXCEPT ![t] = {Call("attach", t, t)}]
    BY <1>3 DEF OnTargetCreated
  <2>2. AskedFor(Call("attach", t, t))
    BY DEF AskedFor, Call, OwnKinds
  <2>3. \A s \in Targets : /\ work'[s] \subseteq work[s] \cup {Call("attach", t, t)}
                           /\ parked'[s] \in {parked[s], None}
    BY <2>1 DEF Typed, TypeOK
  <2>4. \A s \in Targets : Callers \cap {parked'[s], initiator'[s]} \subseteq {parked[s], initiator[s]}
    BY <2>1, <2>3, NamesAssumption
  <2> QED BY <1>3, <2>1, <2>2, <2>3, <2>4, FlowTargetCreated, AuthenticKept, PursuedParts DEF Typed
<1>4. ASSUME NEW call \in browser, OnResponse(call) PROVE Authentic'
  <2>1. /\ UNCHANGED <<asked, work, pending, initiator, navs, watch>> /\ awaiting' \subseteq awaiting
        /\ \/ parked' = parked
           \/ call \in awaiting /\ call.kind = "create"
              /\ \E t \in Targets : parked' = [parked EXCEPT ![t] = call.of]
    BY <1>4 DEF OnResponse, Executed, CreateFailed, TargetMade
  <2>2. ASSUME call \in awaiting, call.kind = "create" PROVE call.of \in Callers /\ asked[call.of].kind = "create"
    <3>1. call \in RouterCalls /\ call.of \in Callers
      BY <2>2, CallFields DEF Typed, TypeOK
    <3>2. AskedFor(call)
      BY <2>2, PursuedParts DEF Authentic
    <3> QED BY <2>2, <3>1, <3>2 DEF AskedFor, OwnKinds
  <2>3. \A s \in Targets : \/ parked'[s] = parked[s]
                           \/ call \in awaiting /\ call.kind = "create" /\ parked'[s] = call.of
    BY <2>1 DEF Typed, TypeOK
  <2>4. \A s \in Targets : \A c \in Callers \cap {parked'[s], initiator'[s]} :
          c \in Promised \/ asked[c].kind = "create"
    BY <2>1, <2>2, <2>3, PursuedParts
  <2> QED BY <1>4, <2>1, <2>2, <2>4, FlowResponse, AuthenticKept, PursuedParts DEF Typed
<1>5. ASSUME \/ \E t \in Targets : OnTargetGone(t)
             \/ \E s \in Sessions : \/ OnAttachedToTarget(s) \/ OnDetachedFromTarget(s)
                                    \/ OnSessionEvent(s)
             \/ OnSessionAttached \/ OnDetached \/ RouterTick \/ RouterEnds
      PROVE  Authentic'
  <2>1. NothingSent
    BY <1>5, FlowRouter DEF Typed
  <2>2. UNCHANGED <<asked, work, pending, initiator, navs, watch>>
    BY <1>5 DEF OnAttachedToTarget, OnTargetGone, OnDetachedFromTarget, OnSessionEvent,
                OnSessionAttached, OnDetached, RouterTick, RouterEnds
  <2>3. awaiting' \subseteq awaiting /\ \A t \in Targets : parked'[t] \in {parked[t], None}
    <3>1. CASE RouterTick
      BY <3>1 DEF RouterTick, Evict
    <3>2. CASE RouterEnds
      BY <3>2 DEF RouterEnds
    <3>3. CASE UNCHANGED <<awaiting, parked>>
      BY <3>3
    <3> QED BY <1>5, <3>1, <3>2, <3>3
            DEF OnAttachedToTarget, OnTargetGone, OnDetachedFromTarget, OnSessionEvent,
                OnSessionAttached, OnDetached
  <2> QED BY <2>1, <2>2, <2>3, AuthenticLess
<1> QED BY <1>1, <1>2, <1>3, <1>4, <1>5 DEF Router

LEMMA StartDriveWork ==
  ASSUME Typed, NEW t \in Targets, StartDrive(t)
  PROVE  /\ \A s \in Targets : \A call \in work'[s] :
              \/ call \in work[s]
              \/ s = t /\ \E c \in channel[t] : call = Call(asked[c].kind, c, t)
         /\ channel'[t] = {} /\ \A s \in Targets \ {t} : channel'[s] = channel[s] /\ work'[s] = work[s]
         /\ phase'[t] = "drive" /\ \A s \in Targets \ {t} : phase'[s] = phase[s]
BY DEF StartDrive, Typed, TypeOK

LEMMA AuthenticDrive ==
  ASSUME Typed, Authentic, NEW t \in Targets, StartDrive(t),
         UNCHANGED <<asked, awaiting, parked>>, NothingSent,
         \A s \in Targets : pending'[s] \subseteq pending[s],
         \A s \in Targets : initiator'[s] = initiator[s] \/ initiator'[s] \in Initiating,
         \A c \in Callers : navs'[c] # "none" => navs[c] # "none",
         \A c \in Callers : watch'[c] # "none" => watch[c] # "none"
  PROVE  Authentic'
<1>1. \A c \in channel[t] : AskedFor(Call(asked[c].kind, c, t))
  <2>1. \A c \in channel[t] : c \in Callers /\ asked[c].at = t
    BY DEF Typed, TypeOK, Waiting
  <2> QED BY <2>1, AskedFields DEF Typed, AskedFor, Call
<1>2. \A s \in Targets : \A call \in work'[s] \cup pending'[s] : call \in Pursued \/ AskedFor(call)
  BY <1>1, StartDriveWork, PursuedParts
<1>3. \A s \in Targets : Callers \cap {parked'[s], initiator'[s]} \subseteq Promised
  BY PursuedParts
<1> QED BY <1>2, <1>3, AuthenticKept, PursuedParts DEF NothingSent

LEMMA AuthenticSession ==
  ASSUME Typed, Authentic, NEW t \in Targets, Session(t) PROVE Authentic'
<1> USE DEF routerVars, wireVars, targetVars, navVars, callerVars, chromeVars
<1>0. /\ pending \in [Targets -> SUBSET Calls] /\ work \in [Targets -> SUBSET Calls]
      /\ initiator \in [Targets -> Callers \cup {None}]
      /\ navs \in [Callers -> {"none", "open", "responded", "navigated"}]
      /\ watch \in [Callers -> {"none", "queued", "active", "loaded", "late"}]
      /\ TypeOK
  BY DEF Typed, TypeOK
<1>1. ASSUME TakeResponse(t) PROVE Authentic'
  <2>1. NothingSent /\ StartDrive(t) /\ UNCHANGED <<asked, awaiting, parked, initiator, watch>>
    BY <1>0, <1>1, FlowSession DEF TakeResponse
  <2>2. \A s \in Targets : pending'[s] \subseteq pending[s]
    BY <1>0, <1>1 DEF TakeResponse
  <2>3. \A c \in Callers : navs'[c] # "none" => navs[c] # "none"
    <3>1. \/ navs' = navs
          \/ \E c : navs' = [navs EXCEPT ![c] = "none"]
          \/ \E c : navs[c] \in {"open", "responded"} /\ navs' = [navs EXCEPT ![c] = "responded"]
      BY <1>1 DEF TakeResponse, SessionResponse
    <3> QED BY <1>0, <3>1
  <2> QED BY <2>1, <2>2, <2>3, AuthenticDrive
<1>2. CASE TakeEvent(t)
  <2>1. NothingSent /\ StartDrive(t) /\ UNCHANGED <<asked, awaiting, parked, pending, initiator, navs>>
    BY <1>0, <1>2, FlowSession DEF TakeEvent
  <2>2. \A c \in Callers : watch'[c] # "none" => watch[c] # "none"
    <3>1. watch' = watch \/ \E c \in Callers : watch[c] = "active" /\ watch' = [watch EXCEPT ![c] = "loaded"]
      BY <1>2 DEF TakeEvent
    <3> QED BY <1>0, <3>1
  <2> QED BY <2>1, <2>2, AuthenticDrive
<1>3. CASE TakeInitiator(t)
  <2>1. NothingSent /\ StartDrive(t) /\ UNCHANGED <<asked, awaiting, parked, pending, watch, navs>>
    BY <1>0, <1>3, FlowSession DEF TakeInitiator
  <2>2. Head(inbox[t]).of \in Initiating
    BY <1>0, <1>3, FlowTaken DEF TakeInitiator
  <2>3. \A s \in Targets : initiator'[s] = initiator[s] \/ initiator'[s] \in Initiating
    BY <1>0, <1>3, <2>2 DEF TakeInitiator
  <2> QED BY <2>1, <2>3, AuthenticDrive
<1>4. CASE PageWake(t)
  <2>1. NothingSent /\ StartDrive(t)
        /\ UNCHANGED <<asked, awaiting, parked, pending, watch, navs, initiator>>
    BY <1>0, <1>4, FlowSession DEF PageWake
  <2> QED BY <2>1, AuthenticDrive
<1>5. CASE SessionTick(t)
  <2>1. NothingSent /\ StartDrive(t) /\ UNCHANGED <<asked, awaiting, parked, initiator>>
    BY <1>0, <1>5, FlowSession DEF SessionTick
  <2>2. PICK S \in SUBSET pending[t],
             W \in SUBSET {c \in Callers : asked[c].at = t /\ watch[c] = "active"} :
          /\ EvictStale(t, S)
          /\ watch' = [c \in Callers |-> IF c \in W THEN "late" ELSE watch[c]]
    BY <1>5 DEF SessionTick
  <2>3. \A s \in Targets : pending'[s] \subseteq pending[s]
    BY <1>0, <2>2 DEF EvictStale
  <2>4. \A c \in Callers : navs'[c] # "none" => navs[c] # "none"
    BY <2>2 DEF EvictStale
  <2>5. \A c \in Callers : watch'[c] # "none" => watch[c] # "none"
    BY <2>2
  <2> QED BY <2>1, <2>3, <2>4, <2>5, AuthenticDrive
<1>6. CASE \/ HandPage(t) \/ WriterGone(t) \/ EndDrive(t) \/ Exit(t) \/ End(t)
           \/ \E c \in Callers : NavigationResult(t, c)
  <2>1. NothingSent /\ UNCHANGED <<asked, awaiting, parked, work>>
    BY <1>0, <1>6, FlowSession DEF HandPage, WriterGone, EndDrive, Exit, End, NavigationResult
  <2>2. \A s \in Targets : /\ pending'[s] \subseteq pending[s]
                           /\ initiator'[s] \in {initiator[s], None}
    BY <1>0, <1>6 DEF HandPage, WriterGone, EndDrive, Exit, End, NavigationResult
  <2>3. \A c \in Callers : navs'[c] # "none" => navs[c] # "none"
    <3>1. CASE \E c \in Callers : NavigationResult(t, c)
      <4>1. PICK c \in Callers : NavigationResult(t, c)
        BY <3>1
      <4>2. \/ navs' = navs
            \/ navs' = [navs EXCEPT ![c] = "none"]
            \/ navs[c] = "open" /\ navs' = [navs EXCEPT ![c] = "navigated"]
        BY <4>1 DEF NavigationResult
      <4> QED BY <1>0, <4>2
    <3>2. CASE WriterGone(t)
      <4>1. navs' = navs \/ \E c : navs' = [navs EXCEPT ![c] = "none"]
        BY <3>2 DEF WriterGone
      <4> QED BY <1>0, <4>1
    <3>3. CASE HandPage(t) \/ EndDrive(t) \/ Exit(t) \/ End(t)
      BY <1>0, <3>3 DEF HandPage, EndDrive, Exit, End
    <3> QED BY <1>6, <3>1, <3>2, <3>3
  <2>4. \A c \in Callers : watch'[c] # "none" => watch[c] # "none"
    BY <1>0, <1>6 DEF HandPage, WriterGone, EndDrive, Exit, End, NavigationResult
  <2> QED BY <2>1, <2>2, <2>3, <2>4, AuthenticLess
<1>7. ASSUME NEW call \in work[t], Submit(t, call) PROVE Authentic'
  <2>1. call \in Calls /\ call \in Pursued /\ AskedFor(call) /\ call \in SessionCalls(t)
    BY <1>0, PursuedParts, PursuedType DEF Authentic, TypeOK
  <2>2. UNCHANGED <<asked, awaiting, parked, initiator, pending, navs>>
    BY <1>7 DEF Submit
  <2>3. \A s \in Targets : work'[s] \subseteq work[s]
    BY <1>0, <1>7 DEF Submit
  <2>4. call.kind = "navigate" => call.of \in Callers /\ asked[call.of].kind = "navigate"
    BY <2>1, PursuedType, <1>0 DEF AskedFor, OwnKinds
  <2>6. \A c \in Callers : watch'[c] # "none" => watch[c] # "none" \/ asked[c].kind = "navigate"
    <3>1. \/ watch' = watch
          \/ call.kind = "navigate" /\ watch' = [watch EXCEPT ![call.of] = "queued"]
      BY <1>7 DEF Submit, Watched
    <3> QED BY <1>0, <2>4, <3>1
  <2>7. /\ Sent' \subseteq Sent \cup {call} /\ Initiating' = Initiating /\ InHand' = InHand
    BY <1>0, <1>7, FlowSubmit
  <2> QED BY <2>1, <2>2, <2>3, <2>6, <2>7, AuthenticKept, PursuedParts
<1>9. CASE InitEnds(t)
  <2>1. NothingSent /\ UNCHANGED <<asked, awaiting, parked, pending, navs, watch>>
    BY <1>0, <1>9, FlowSession DEF InitEnds
  <2>2. \A s \in Targets : /\ work'[s] \subseteq work[s] \cup {Call("close", t, t)}
                           /\ initiator'[s] \in {initiator[s], None}
    BY <1>0, <1>9 DEF InitEnds
  <2>3. AskedFor(Call("close", t, t))
    BY DEF AskedFor, Call, OwnKinds
  <2>4. \A s \in Targets : Callers \cap {parked'[s], initiator'[s]} \subseteq {parked[s], initiator[s]}
    BY <2>1, <2>2, NamesAssumption
  <2> QED BY <2>1, <2>2, <2>3, <2>4, AuthenticKept, PursuedParts DEF NothingSent
<1>10. CASE Written(t)
  <2>1. NothingSent /\ UNCHANGED <<asked, awaiting, parked, initiator, watch, work>>
    BY <1>0, <1>10, FlowSession DEF Written
  <2>2. PICK call : call = sending[t]
    OBVIOUS
  <2>3. call \in Pursued /\ call \in Calls
    BY <1>0, <1>10, <2>2, AwaitedFlow, PursuedParts DEF Written, Sent
  <2>4. \A s \in Targets : pending'[s] \subseteq pending[s] \cup {call}
    BY <1>0, <1>10, <2>2 DEF Written
  <2>5. call.kind = "navigate" => call.of \in Callers /\ asked[call.of].kind = "navigate"
    <3>1. AskedFor(call)
      BY <2>3 DEF Authentic
    <3> QED BY <1>0, <2>3, <3>1, PursuedType DEF AskedFor, OwnKinds
  <2>6. \A c \in Callers : navs'[c] # "none" => navs[c] # "none" \/ asked[c].kind = "navigate"
    <3>1. \/ navs' = navs
          \/ call.kind = "navigate" /\ navs' = [navs EXCEPT ![call.of] = "open"]
      BY <1>10, <2>2 DEF Written
    <3> QED BY <1>0, <2>5, <3>1
  <2> QED BY <2>1, <2>3, <2>4, <2>6, AuthenticKept, PursuedParts DEF NothingSent
<1>8. ASSUME NEW c \in Callers, NavigationRequest(t, c) PROVE Authentic'
  <2>1. NothingSent /\ UNCHANGED <<asked, awaiting, parked, pending, initiator, navs>>
    BY <1>0, <1>8, FlowSession DEF NavigationRequest
  <2>2. asked[c].at = t /\ watch[c] = "queued" /\ watch' = [watch EXCEPT ![c] = "active"]
        /\ work' = [work EXCEPT ![t] = @ \cup {Call("renavigate", c, t)}]
    BY <1>8 DEF NavigationRequest, Watching
  <2>3. asked[c] = [kind |-> "navigate", at |-> t]
    BY <1>0, <2>2, AskedFields DEF Authentic
  <2>4. AskedFor(Call("renavigate", c, t))
    BY <2>3 DEF AskedFor, Call
  <2>5. \A s \in Targets : work'[s] \subseteq work[s] \cup {Call("renavigate", c, t)}
    BY <1>0, <2>2
  <2>6. \A d \in Callers : watch'[d] # "none" => watch[d] # "none"
    BY <1>0, <2>2
  <2> QED BY <2>1, <2>4, <2>5, <2>6, AuthenticKept, PursuedParts DEF NothingSent
<1> QED BY <1>1, <1>2, <1>3, <1>4, <1>5, <1>6, <1>7, <1>8, <1>9, <1>10 DEF Session

LEMMA AuthenticNext == Typed /\ Authentic /\ [Next]_vars => Authentic'
<1> SUFFICES ASSUME Typed, Authentic, [Next]_vars PROVE Authentic'
  OBVIOUS
<1> USE DEF routerVars, wireVars, targetVars, navVars, callerVars, chromeVars
<1>1. CASE UNCHANGED vars
  <2>1. NothingSent
    BY <1>1, FlowSame DEF vars, NothingSent, Sent, OnWire, Awaited
  <2> QED BY <1>1, <2>1, AuthenticLess DEF vars
<1>2. CASE WriterTakes \/ WriterCloses
  <2>1. UNCHANGED <<asked, awaiting, work, pending, parked, initiator, navs, watch>>
    BY <1>2 DEF WriterTakes, WriterCloses
  <2> QED BY <1>2, <2>1, FlowWriter, AuthenticLess DEF Typed
<1>3. CASE Chrome
  <2>1. UNCHANGED <<asked, awaiting, work, pending, parked, initiator, navs, watch>>
    BY <1>3 DEF Chrome, Attaches
  <2> QED BY <1>3, <2>1, FlowAttaches, AuthenticLess DEF Typed
<1> QED BY <1>1, <1>2, <1>3, AuthenticAsks, AuthenticRouter, AuthenticSession DEF Next
-----------------------------------------------------------------------------
(* A navigation ends well only when it is complete.                        *)

AnsweredFor(c) == \E k \in Navigating : Call(k, c, asked[c].at) \in answered

(* The record of a navigation says what has come, and an answer on its way *)
(* was given.                                                              *)
Recorded ==
  /\ \A c \in Callers : navs[c] = "responded" => AnsweredFor(c)
  /\ \A c \in Callers : navs[c] = "navigated" \/ watch[c] = "loaded" => c \in loaded
  /\ \A call \in Answering : call.kind \in Navigating => call \in answered

NavigationInv == Recorded /\ NavigationComplete

LEMMA NavigationInit == Init => NavigationInv
BY NamesAssumption
   DEF Init, NavigationInv, Recorded, NavigationComplete, Answering, Held, NoHand, Outcomes

(* A caller that ends well in this step asked for no navigation or has a   *)
(* complete one.                                                           *)
LEMMA NavigationKept ==
  ASSUME Typed, NavigationInv, UNCHANGED asked, answered \subseteq answered', loaded \subseteq loaded',
         \A call \in Answering' : call \in Answering \/ (call.kind \in Navigating => call \in answered'),
         \A c \in Callers : navs'[c] = "responded" => navs[c] = "responded" \/ AnsweredFor(c),
         \A c \in Callers : navs'[c] = "navigated" => navs[c] = "navigated" \/ c \in loaded,
         \A c \in Callers : watch'[c] = "loaded" => watch[c] = "loaded" \/ c \in loaded',
         \A c \in Callers : outcome'[c] = "ok" =>
           \/ outcome[c] = "ok"
           \/ asked[c].kind # "navigate"
           \/ c \in loaded /\ AnsweredFor(c)
  PROVE  NavigationInv'
<1>1. \A c \in Callers : AnsweredFor(c) => AnsweredFor(c)'
  BY DEF AnsweredFor
<1>2. Recorded'
  BY <1>1 DEF NavigationInv, Recorded
<1>3. \A c \in Callers : asked[c].kind = "navigate" /\ outcome'[c] = "ok" => c \in loaded /\ AnsweredFor(c)
  BY DEF NavigationInv, NavigationComplete, AnsweredFor
<1>4. NavigationComplete'
  BY <1>1, <1>3 DEF NavigationComplete, AnsweredFor
<1> QED BY <1>2, <1>4 DEF NavigationInv

(* A call of a session that asks for a navigation.                         *)
LEMMA NavigatingCall ==
  ASSUME Typed, Authentic, NEW call \in Pursued, call.kind \in Navigating
  PROVE  call.of \in Callers /\ call = Call(call.kind, call.of, asked[call.of].at)
<1>1. call \in Calls /\ AskedFor(call)
  BY PursuedType DEF Typed, Authentic
<1>2. \/ call \in RouterCalls
      \/ \E t \in Targets : call \in SessionCalls(t)
  BY <1>1 DEF Calls
<1>3. PICK t \in Targets : call \in SessionCalls(t)
  BY <1>2, CallFields DEF BrowserKinds, Navigating
<1>4. call.of \in Callers /\ call = Call(call.kind, call.of, t) /\ call.slot = t
  BY <1>3, CallFields DEF Navigating, OwnKinds
<1>5. asked[call.of].at = t
  BY <1>1, <1>4 DEF AskedFor, Navigating, OwnKinds
<1> QED BY <1>4, <1>5

(* A call of another kind asks for no navigation.                          *)
LEMMA OtherCall ==
  ASSUME Typed, Authentic, NEW call \in Pursued, call.kind \in {"command", "browser", "create"}
  PROVE  asked[call.of].kind # "navigate"
<1>1. AskedFor(call)
  BY DEF Authentic
<1> QED BY <1>1 DEF AskedFor, OwnKinds

LEMMA ResolvedOk ==
  ASSUME TypeOK, NEW S, NEW o \in Outcomes, outcome' = Resolved(S, o), NEW c \in Callers, outcome'[c] = "ok"
  PROVE  outcome[c] = "ok" \/ (c \in S /\ o = "ok")
<1>1. outcome \in [Callers -> Outcomes]
  BY DEF TypeOK
<1> QED BY <1>1, ResolvedType

LEMMA NavigationRouter ==
  ASSUME Typed, Authentic, NavigationInv, Router PROVE NavigationInv'
<1> USE DEF routerVars, wireVars, targetVars, navVars, callerVars, chromeVars
<1>0. TypeOK /\ {"cancelled", "failed", "ok", "timeout"} \subseteq Outcomes
  BY DEF Typed, Outcomes
<1>1. UNCHANGED <<asked, navs, watch, loaded>>
  BY DEF Router, HandOver, OnBrowserMessage, OnTargetCreated, OnAttachedToTarget, OnTargetGone,
         OnDetachedFromTarget, OnSessionEvent, OnSessionAttached, OnDetached, RouterTick,
         RouterEnds, OnResponse
<1>2. ASSUME NEW call \in browser, OnResponse(call) PROVE NavigationInv'
  <2>1. answered' = answered \cup {k \in {call} : k.kind \in Navigating}
    BY <1>2 DEF OnResponse
  <2>2. Answering' \subseteq Answering \cup {call}
    BY <1>0, <1>2, FlowResponse
  <2>3. ASSUME NEW c \in Callers, outcome'[c] = "ok", outcome[c] # "ok" PROVE asked[c].kind # "navigate"
    <3>1. outcome \in [Callers -> Outcomes] /\ "cancelled" \in Outcomes
      BY <1>0 DEF TypeOK
    <3>2. CASE \E S : outcome' = Resolved(S, "cancelled") \/ outcome' = Resolved(S, "failed")
      BY <1>0, <2>3, <3>2, ResolvedOk
    <3>3. CASE call \in awaiting /\ call.kind = "browser" /\ outcome' = Resolved({call.of}, "ok")
      <4>1. c = call.of
        BY <1>0, <2>3, <3>3, ResolvedOk
      <4> QED BY <3>3, <4>1, OtherCall, PursuedParts
    <3>4. CASE outcome' = outcome
      BY <2>3, <3>4
    <3> QED BY <1>2, <3>2, <3>3, <3>4
            DEF OnResponse, Executed, CreateFailed, TargetMade, Send, SendNothing
  <2> QED BY <1>1, <2>1, <2>2, <2>3, NavigationKept
<1>3. ASSUME ~ \E call \in browser : OnResponse(call) PROVE NavigationInv'
  <2>1. answered' = answered
    BY <1>3 DEF Router, HandOver, OnBrowserMessage, OnTargetCreated, OnAttachedToTarget, OnTargetGone,
         OnDetachedFromTarget, OnSessionEvent, OnSessionAttached, OnDetached, RouterTick, RouterEnds
  <2>2. Answering' \subseteq Answering
    BY <1>0, <1>3, FlowHandOver, FlowBrowserMessage, FlowTargetCreated, FlowRouter
       DEF Router, NothingSent
  <2>3. outcome' = outcome \/ \E S : \E o \in {"cancelled", "failed", "timeout"} : outcome' = Resolved(S, o)
    <3>1. CASE HandOver
      BY <3>1 DEF HandOver, HandToSession, HandToWriter
    <3>2. ASSUME NEW c \in Callers, OnBrowserMessage(c)
          PROVE  outcome' = outcome
                 \/ \E S : \E o \in {"cancelled", "failed", "timeout"} : outcome' = Resolved(S, o)
      BY <3>2 DEF OnBrowserMessage
    <3>3. ASSUME \/ \E t \in Targets : OnTargetCreated(t) \/ OnTargetGone(t)
                 \/ \E s \in Sessions : \/ OnAttachedToTarget(s) \/ OnDetachedFromTarget(s)
                                        \/ OnSessionEvent(s)
          PROVE  outcome' = outcome
                 \/ \E S : \E o \in {"cancelled", "failed", "timeout"} : outcome' = Resolved(S, o)
      <4>1. outcome' = outcome \/ \E m : outcome' = Resolved(InitiatorsIn(<<m>>), "cancelled")
        BY <3>3 DEF OnTargetCreated, OnAttachedToTarget, OnTargetGone, OnDetachedFromTarget,
                    OnSessionEvent, Send, SendNothing
      <4> QED BY <4>1
    <3>4. CASE OnSessionAttached \/ OnDetached
      BY <3>4 DEF OnSessionAttached, OnDetached
    <3>5. CASE RouterTick \/ RouterEnds
      BY <3>5 DEF RouterTick, RouterEnds, Evict
    <3> QED BY <1>3, <3>1, <3>2, <3>3, <3>4, <3>5 DEF Router
  <2>4. \A c \in Callers : outcome'[c] = "ok" => outcome[c] = "ok"
    BY <1>0, <2>3, ResolvedOk
  <2> QED BY <1>1, <2>1, <2>2, <2>4, NavigationKept
<1> QED BY <1>2, <1>3

LEMMA NavigationSession ==
  ASSUME Typed, Authentic, NavigationInv, NEW t \in Targets, Session(t) PROVE NavigationInv'
<1> USE DEF routerVars, wireVars, targetVars, navVars, callerVars, chromeVars
<1>0. /\ navs \in [Callers -> {"none", "open", "responded", "navigated"}]
      /\ watch \in [Callers -> {"none", "queued", "active", "loaded", "late"}]
      /\ TypeOK /\ {"cancelled", "failed", "ok", "timeout"} \subseteq Outcomes
  BY DEF Typed, TypeOK, Outcomes
<1>1. ASSUME TakeResponse(t) PROVE NavigationInv'
  <2>0. PICK call : call = Head(inbox[t]).call
    OBVIOUS
  <2>1. NothingSent /\ call \in Answering /\ UNCHANGED <<asked, answered, loaded, watch>>
    BY <1>0, <1>1, <2>0, FlowSession, FlowTaken DEF TakeResponse
  <2>2. call \in Pursued
    BY <2>1, PursuedParts DEF Sent
  <2>3. call.kind \in Navigating => call.of \in Callers /\ AnsweredFor(call.of)
    BY <2>1, <2>2, NavigatingCall DEF NavigationInv, Recorded, AnsweredFor
  <2>4. \/ UNCHANGED <<navs, outcome>>
        \/ call.kind = "command" /\ outcome' = Resolved({call.of}, "ok") /\ UNCHANGED navs
        \/ /\ call.kind \in Navigating /\ navs[call.of] = "navigated"
           /\ outcome' = Resolved({call.of}, "ok") /\ navs' = [navs EXCEPT ![call.of] = "none"]
        \/ /\ call.kind \in Navigating /\ UNCHANGED outcome
           /\ navs' = [navs EXCEPT ![call.of] = "responded"]
    BY <1>1, <2>0 DEF TakeResponse, SessionResponse
  <2>5. \A c \in Callers : /\ navs'[c] = "responded" => navs[c] = "responded" \/ AnsweredFor(c)
                           /\ navs'[c] = "navigated" => navs[c] = "navigated"
    BY <1>0, <2>3, <2>4
  <2>6. ASSUME NEW c \in Callers, outcome'[c] = "ok", outcome[c] # "ok"
        PROVE  asked[c].kind # "navigate" \/ (c \in loaded /\ AnsweredFor(c))
    <3>1. c = call.of /\ (call.kind = "command" \/ (call.kind \in Navigating /\ navs[c] = "navigated"))
      BY <1>0, <2>4, <2>6, ResolvedOk
    <3> QED BY <2>2, <2>3, <3>1, OtherCall DEF NavigationInv, Recorded
  <2> QED BY <2>1, <2>5, <2>6, NavigationKept DEF NothingSent
<1>2. CASE TakeEvent(t)
  <2>1. NothingSent /\ UNCHANGED <<asked, answered, navs, outcome>>
    BY <1>0, <1>2, FlowSession DEF TakeEvent
  <2>2. loaded \subseteq loaded' /\ \A c \in Callers : watch'[c] = "loaded" => watch[c] = "loaded" \/ c \in loaded'
    <3>1. \/ UNCHANGED <<watch, loaded>>
          \/ \E c \in Callers : watch' = [watch EXCEPT ![c] = "loaded"] /\ loaded' = loaded \cup {c}
      BY <1>2 DEF TakeEvent
    <3> QED BY <1>0, <3>1
  <2> QED BY <2>1, <2>2, NavigationKept DEF NothingSent
<1>3. CASE TakeInitiator(t) \/ PageWake(t) \/ EndDrive(t) \/ \E c \in Callers : NavigationRequest(t, c)
  <2>1. NothingSent /\ UNCHANGED <<asked, answered, navs, loaded, outcome>>
    BY <1>0, <1>3, FlowSession DEF TakeInitiator, PageWake, EndDrive, NavigationRequest
  <2>2. \A c \in Callers : watch'[c] = "loaded" => watch[c] = "loaded"
    BY <1>0, <1>3 DEF TakeInitiator, PageWake, EndDrive, NavigationRequest
  <2> QED BY <2>1, <2>2, NavigationKept DEF NothingSent
<1>4. CASE SessionTick(t) \/ InitEnds(t) \/ WriterGone(t) \/ Exit(t) \/ End(t)
  <2>1. NothingSent /\ UNCHANGED <<asked, answered, loaded>>
    BY <1>0, <1>4, FlowSession DEF SessionTick, InitEnds, WriterGone, Exit, End
  <2>2. \A c \in Callers : navs'[c] \in {navs[c], "none"} /\ watch'[c] \in {watch[c], "none", "late"}
    <3>1. CASE WriterGone(t)
      <4>1. /\ navs' = navs \/ \E c : navs' = [navs EXCEPT ![c] = "none"]
            /\ watch' = watch
        BY <3>1 DEF WriterGone
      <4> QED BY <1>0, <4>1
    <3> QED BY <1>4, <3>1 DEF SessionTick, InitEnds, EvictStale, Exit, End
  <2>3. outcome' = outcome \/ \E S : \E o \in {"timeout", "failed", "cancelled"} : outcome' = Resolved(S, o)
    BY <1>4 DEF SessionTick, InitEnds, WriterGone, EvictStale, Exit, End
  <2>4. \A c \in Callers : outcome'[c] = "ok" => outcome[c] = "ok"
    BY <1>0, <2>3, ResolvedOk
  <2> QED BY <2>1, <2>2, <2>4, NavigationKept DEF NothingSent
<1>5. CASE HandPage(t)
  <2>1. NothingSent /\ UNCHANGED <<asked, answered, loaded, navs, watch>>
    BY <1>0, <1>5, FlowSession DEF HandPage
  <2>2. ASSUME NEW c \in Callers, outcome'[c] = "ok", outcome[c] # "ok" PROVE asked[c].kind # "navigate"
    <3>1. c = initiator[t]
      BY <1>0, <1>5, <2>2, ResolvedOk DEF HandPage
    <3> QED BY <2>2, <3>1, PursuedParts DEF Authentic
  <2> QED BY <2>1, <2>2, NavigationKept DEF NothingSent
<1>6. ASSUME NEW call \in work[t], Submit(t, call) PROVE NavigationInv'
  <2>1. Answering' = Answering /\ UNCHANGED <<asked, answered, loaded, navs, outcome>>
    BY <1>0, <1>6, FlowSubmit DEF Submit
  <2>2. \/ watch' = watch
        \/ watch' = [watch EXCEPT ![call.of] = "queued"]
    BY <1>6 DEF Submit, Watched
  <2>3. \A c \in Callers : watch'[c] \in {watch[c], "queued"}
    BY <1>0, <2>2
  <2> QED BY <2>1, <2>3, NavigationKept
<1>8. CASE Written(t)
  <2>1. NothingSent /\ UNCHANGED <<asked, answered, loaded, watch, outcome>>
    BY <1>0, <1>8, FlowSession DEF Written
  <2>2. navs' = navs \/ \E c : navs' = [navs EXCEPT ![c] = "open"]
    BY <1>8 DEF Written
  <2>3. \A c \in Callers : navs'[c] \in {navs[c], "open"}
    BY <1>0, <2>2
  <2> QED BY <2>1, <2>3, NavigationKept DEF NothingSent
<1>7. ASSUME NEW c \in Callers, NavigationResult(t, c) PROVE NavigationInv'
  <2>1. NothingSent /\ UNCHANGED <<asked, answered, loaded>>
    BY <1>0, <1>7, FlowSession DEF NavigationResult
  <2>2. watch' = [watch EXCEPT ![c] = "none"]
    BY <1>7 DEF NavigationResult
  <2>3. \/ UNCHANGED <<navs, outcome>>
        \/ /\ watch[c] = "loaded" /\ navs[c] = "responded"
           /\ navs' = [navs EXCEPT ![c] = "none"] /\ outcome' = Resolved({c}, "ok")
        \/ /\ watch[c] = "loaded" /\ navs' = [navs EXCEPT ![c] = "navigated"] /\ UNCHANGED outcome
        \/ navs' = [navs EXCEPT ![c] = "none"] /\ outcome' = Resolved({c}, "timeout")
    BY <1>7 DEF NavigationResult
  <2>4. \A d \in Callers : /\ navs'[d] = "responded" => navs[d] = "responded"
                           /\ navs'[d] = "navigated" => navs[d] = "navigated" \/ d \in loaded
    BY <1>0, <2>3 DEF NavigationInv, Recorded
  <2>5. \A d \in Callers : watch'[d] \in {watch[d], "none"}
    BY <1>0, <2>2
  <2>6. \A d \in Callers : outcome'[d] = "ok" => outcome[d] = "ok" \/ (d \in loaded /\ AnsweredFor(d))
    BY <1>0, <2>3, ResolvedOk DEF NavigationInv, Recorded
  <2> QED BY <2>1, <2>4, <2>5, <2>6, NavigationKept DEF NothingSent
<1> QED BY <1>1, <1>2, <1>3, <1>4, <1>5, <1>6, <1>7, <1>8 DEF Session

LEMMA NavigationAsks ==
  ASSUME Typed, Authentic, NavigationInv, Asks PROVE NavigationInv'
<1> USE DEF routerVars, wireVars, navVars, targetVars, chromeVars
<1>1. PICK c \in Callers : \E a : \E o \in {"waiting", "failed"} :
        /\ asked' = [asked EXCEPT ![c] = a] /\ outcome[c] = "idle"
        /\ outcome' = [outcome EXCEPT ![c] = o]
  <2>1. ASSUME NEW c \in Callers, NEW kind \in BrowserKinds, AskBrowser(c, kind)
        PROVE  \E a : \E o \in {"waiting", "failed"} :
               /\ asked' = [asked EXCEPT ![c] = a] /\ outcome[c] = "idle"
               /\ outcome' = [outcome EXCEPT ![c] = o]
    BY <2>1 DEF AskBrowser
  <2>2. ASSUME NEW c \in Callers, NEW kind \in PageKinds, NEW t \in Targets, AskPage(c, kind, t)
        PROVE  \E a : \E o \in {"waiting", "failed"} :
               /\ asked' = [asked EXCEPT ![c] = a] /\ outcome[c] = "idle"
               /\ outcome' = [outcome EXCEPT ![c] = o]
    BY <2>2 DEF AskPage
  <2> QED BY <2>1, <2>2 DEF Asks
<1>2. /\ asked[c].kind = "none" /\ \A d \in Callers : d # c => asked'[d] = asked[d] /\ outcome'[d] = outcome[d]
      /\ outcome'[c] # "ok"
  BY <1>1 DEF Typed, TypeOK, Waiting
<1>3. UNCHANGED <<inbox, hand, answered, loaded, navs, watch>>
  BY DEF Asks, AskBrowser, AskPage
<1>4. navs[c] = "none"
  BY <1>2 DEF Authentic
<1>5. \A d \in Callers : d # c => (AnsweredFor(d)' <=> AnsweredFor(d))
  BY <1>2, <1>3 DEF AnsweredFor
<1>6. Answering' = Answering
  BY <1>3, FlowSame
<1>7. Recorded'
  BY <1>3, <1>4, <1>5, <1>6 DEF NavigationInv, Recorded
<1>8. NavigationComplete'
  BY <1>2, <1>3 DEF NavigationInv, NavigationComplete
<1> QED BY <1>7, <1>8 DEF NavigationInv

LEMMA NavigationNext == Typed /\ Authentic /\ NavigationInv /\ [Next]_vars => NavigationInv'
<1> SUFFICES ASSUME Typed, Authentic, NavigationInv, [Next]_vars PROVE NavigationInv'
  OBVIOUS
<1> USE DEF routerVars, wireVars, targetVars, navVars, callerVars, chromeVars
<1>1. CASE UNCHANGED vars \/ WriterTakes \/ WriterCloses \/ Chrome
  <2>1. UNCHANGED <<asked, answered, loaded, navs, watch, outcome, inbox, hand>>
    BY <1>1 DEF vars, WriterTakes, WriterCloses, Chrome, Attaches
  <2> QED BY <2>1, FlowSame, NavigationKept
<1> QED BY <1>1, NavigationAsks, NavigationRouter, NavigationSession DEF Next

(* A goto of the parallel handler is answered with success only when       *)
(* Chrome has answered one of its Page.navigate calls and its watcher has  *)
(* seen the lifecycle complete, whichever came first, and however the      *)
(* answers were delayed in the inboxes, given up by the tick or cut off by *)
(* the end of a task (on_response, on_navigation_lifecycle_completed).     *)
THEOREM GotoCompletes == Spec => []NavigationComplete
<1>1. NavigationInv => NavigationComplete
  BY DEF NavigationInv
<1> QED BY <1>1, TypedInit, TypedNext, AuthenticInit, AuthenticNext, NavigationInit, NavigationNext,
           PTL DEF Spec
-----------------------------------------------------------------------------
(* Every call is submitted once.                                           *)

(* What a session has still to submit has not left its task, nor has any   *)
(* call of a caller whose message is still in the channel of a page.       *)
Fresh ==
  /\ \A t \in Targets : \A call \in work[t] : call \notin Sent
  /\ \A t \in Targets : \A c \in channel[t] :
       /\ watch[c] = "none"
       /\ \A k \in PageKinds \cup Navigating : Call(k, c, t) \notin Sent \cup work[t]
  /\ \A t \in Targets, c \in Callers :
       /\ watch[c] = "queued" => Call("navigate", c, t) \notin work[t]
       /\ watch[c] = "queued" \/ Call("navigate", c, t) \in work[t] =>
            Call("renavigate", c, t) \notin Sent \cup work[t]
  /\ \A t \in Targets :
       /\ <<"created", t>> \notin facts => Call("attach", t, t) \notin Sent
       /\ stage[t] = "chain" => Call("close", t, t) \notin Sent \cup work[t]

LEMMA FreshInit == Init => Fresh
<1> SUFFICES ASSUME Init PROVE Fresh
  OBVIOUS
<1>1. Sent = {}
  BY NamesAssumption DEF Init, Sent, Answering, OnWire, Awaited, Held, NoHand
<1> QED BY <1>1 DEF Init, Fresh

(* The calls of the router are never those of a session. *)
LEMMA CallsDiffer ==
  /\ \A t \in Targets : \A c, k : Call(k, c, t) \in RouterCalls => k \in BrowserKinds /\ t = None
  /\ \A t \in Targets : SessionCalls(t) \cap RouterCalls = {}
  /\ \A k, l, c, d, t, s : Call(k, c, t) = Call(l, d, s) => k = l /\ c = d /\ t = s
<1>1. \A k, l, c, d, t, s : Call(k, c, t) = Call(l, d, s) => k = l /\ c = d /\ t = s
  BY DEF Call
<1>2. \A t \in Targets : \A c, k : Call(k, c, t) \in RouterCalls => k \in BrowserKinds /\ t = None
  BY <1>1 DEF RouterCalls
<1>3. \A t \in Targets : SessionCalls(t) \cap RouterCalls = {}
  BY CallFields, NamesAssumption
<1> QED BY <1>1, <1>2, <1>3

LEMMA FreshKept ==
  ASSUME Typed, Fresh,
         \A call \in Sent' : call \in Sent \/ call \in RouterCalls,
         \A t \in Targets : work'[t] \subseteq work[t] /\ channel'[t] \subseteq channel[t],
         \A c \in Callers : watch'[c] = "queued" => watch[c] = "queued",
         \A c \in Callers : watch[c] = "none" => watch'[c] = "none",
         \A t \in Targets : stage'[t] = "chain" => stage[t] = "chain",
         facts \subseteq facts'
  PROVE  Fresh'
<1>1. \A t \in Targets : \A call \in work'[t] : call \notin Sent'
  BY CallsDiffer DEF Fresh, Typed, TypeOK
<1>2. \A t \in Targets : \A c, k : k \notin BrowserKinds => (Call(k, c, t) \in Sent' => Call(k, c, t) \in Sent)
  BY CallsDiffer
<1>3. {"attach", "close", "renavigate", "navigate", "command"} \cap BrowserKinds = {}
  BY DEF BrowserKinds
<1>4. (PageKinds \cup Navigating) \cap BrowserKinds = {}
  BY DEF BrowserKinds, PageKinds, Navigating
<1>5. \A t \in Targets : channel'[t] \subseteq Callers
  BY DEF Typed, TypeOK
<1>6. \A t \in Targets : \A c \in channel'[t] :
       /\ watch'[c] = "none"
       /\ \A k \in PageKinds \cup Navigating : Call(k, c, t) \notin Sent' \cup work'[t]
  BY <1>2, <1>4, <1>5 DEF Fresh
<1>7. \A t \in Targets, c \in Callers :
       /\ watch'[c] = "queued" => Call("navigate", c, t) \notin work'[t]
       /\ watch'[c] = "queued" \/ Call("navigate", c, t) \in work'[t] =>
            Call("renavigate", c, t) \notin Sent' \cup work'[t]
  BY <1>2, <1>3 DEF Fresh
<1>8. \A t \in Targets :
       /\ <<"created", t>> \notin facts' => Call("attach", t, t) \notin Sent'
       /\ stage'[t] = "chain" => Call("close", t, t) \notin Sent' \cup work'[t]
  BY <1>2, <1>3 DEF Fresh
<1> QED BY <1>1, <1>6, <1>7, <1>8 DEF Fresh

LEMMA FreshDrive ==
  ASSUME Typed, Fresh, NEW t \in Targets, StartDrive(t), NothingSent,
         \A c \in Callers : watch'[c] = "queued" => watch[c] = "queued",
         \A c \in Callers : watch[c] = "none" => watch'[c] = "none",
         UNCHANGED <<facts, stage>>
  PROVE  Fresh'
<1>1. \A s \in Targets : channel[s] \subseteq Callers
      /\ \A c \in channel[s] : asked[c].at = s /\ asked[c].kind \in PageKinds
  BY DEF Typed, TypeOK, Waiting
<1>2. /\ \A s \in Targets : \A call \in work'[s] :
              \/ call \in work[s]
              \/ s = t /\ \E c \in channel[t] : call = Call(asked[c].kind, c, t)
      /\ channel'[t] = {} /\ \A s \in Targets \ {t} : channel'[s] = channel[s] /\ work'[s] = work[s]
  BY StartDriveWork
<1>3. Sent' \subseteq Sent
  BY DEF NothingSent
<1>4. \A s \in Targets : \A call \in work'[s] : call \notin Sent'
  BY <1>1, <1>2, <1>3 DEF Fresh
<1>5. \A s \in Targets : \A c \in channel'[s] :
       /\ watch'[c] = "none"
       /\ \A k \in PageKinds \cup Navigating : Call(k, c, s) \notin Sent' \cup work'[s]
  BY <1>1, <1>2, <1>3 DEF Fresh
<1>6. "renavigate" \notin PageKinds /\ "renavigate" \in Navigating /\ "navigate" \in Navigating
  BY DEF PageKinds, Navigating
<1>7. \A s \in Targets, c \in Callers : Call("renavigate", c, s) \in work'[s] => Call("renavigate", c, s) \in work[s]
  BY <1>1, <1>2, <1>6, CallsDiffer
<1>8. \A s \in Targets, c \in Callers : Call("navigate", c, s) \in work'[s] =>
        Call("navigate", c, s) \in work[s] \/ c \in channel[s]
  BY <1>2, CallsDiffer
<1>9. \A s \in Targets, c \in Callers :
       /\ watch'[c] = "queued" => Call("navigate", c, s) \notin work'[s]
       /\ watch'[c] = "queued" \/ Call("navigate", c, s) \in work'[s] =>
            Call("renavigate", c, s) \notin Sent' \cup work'[s]
  BY <1>3, <1>6, <1>7, <1>8 DEF Fresh
<1>10. \A s \in Targets :
       /\ <<"created", s>> \notin facts' => Call("attach", s, s) \notin Sent'
       /\ stage'[s] = "chain" => Call("close", s, s) \notin Sent' \cup work'[s]
  <2>1. \A s \in Targets : Call("close", s, s) \in work'[s] => Call("close", s, s) \in work[s]
    BY <1>1, <1>2, CallsDiffer DEF PageKinds
  <2> QED BY <1>3, <2>1 DEF Fresh
<1> QED BY <1>4, <1>5, <1>9, <1>10 DEF Fresh

LEMMA FreshAsks ==
  ASSUME Typed, Authentic, Fresh, Asks PROVE Fresh'
<1> USE DEF routerVars, wireVars, navVars, targetVars, chromeVars
<1>1. UNCHANGED <<inbox, hand, wire, browser, sending, work, watch, facts, stage>>
  BY DEF Asks, AskBrowser, AskPage
<1>2. Sent' = Sent
  BY <1>1, FlowSame DEF Sent, OnWire, Awaited
<1>3. CASE channel' = channel
  BY <1>1, <1>2, <1>3, FreshKept
<1>4. ASSUME NEW c \in Callers, NEW t \in Targets, outcome[c] = "idle",
             channel' = [channel EXCEPT ![t] = @ \cup {c}]
      PROVE  Fresh'
  <2>1. asked[c].kind = "none" /\ watch[c] = "none"
    BY <1>4 DEF Typed, Waiting, Authentic
  <2>2. ASSUME NEW k \in PageKinds \cup Navigating PROVE Call(k, c, t) \notin Sent \cup work[t]
    <3>1. ~ AskedFor(Call(k, c, t))
      BY <2>1 DEF AskedFor, Call, PageKinds, Navigating, OwnKinds
    <3> QED BY <3>1, PursuedParts DEF Authentic
  <2>3. \A s \in Targets : \A d \in channel'[s] : d \in channel[s] \/ (s = t /\ d = c)
    BY <1>4 DEF Typed, TypeOK
  <2>4. \A s \in Targets : \A d \in channel'[s] :
       /\ watch[d] = "none"
       /\ \A k \in PageKinds \cup Navigating : Call(k, d, s) \notin Sent \cup work[s]
    BY <2>1, <2>2, <2>3 DEF Fresh
  <2> QED BY <1>1, <1>2, <2>4 DEF Fresh
<1> QED BY <1>3, <1>4 DEF Asks, AskBrowser, AskPage

LEMMA FreshRouter ==
  ASSUME Typed, Fresh, Router PROVE Fresh'
<1> USE DEF routerVars, wireVars, targetVars, navVars, callerVars, chromeVars
<1>0. TypeOK /\ InHand \subseteq RouterCalls
  BY DEF Typed, InHand
<1>1. UNCHANGED <<channel, watch, stage>>
  BY DEF Router, HandOver, OnBrowserMessage, OnTargetCreated, OnAttachedToTarget, OnTargetGone,
         OnDetachedFromTarget, OnSessionEvent, OnSessionAttached, OnDetached, RouterTick,
         RouterEnds, OnResponse
<1>2. \A call \in Sent' : call \in Sent \/ call \in RouterCalls
  BY <1>0, FlowHandOver, FlowBrowserMessage, FlowTargetCreated, FlowResponse, FlowRouter
     DEF Router, NothingSent
<1>3. facts \subseteq facts'
  BY DEF Router, HandOver, OnBrowserMessage, OnTargetCreated, OnAttachedToTarget, OnTargetGone,
         OnDetachedFromTarget, OnSessionEvent, OnSessionAttached, OnDetached, RouterTick,
         RouterEnds, OnResponse
<1>4. CASE work' = work
  BY <1>1, <1>2, <1>3, <1>4, FreshKept
<1>5. ASSUME NEW t \in Targets, OnTargetCreated(t) PROVE Fresh'
  <2>1. <<"created", t>> \notin facts /\ work' = [work EXCEPT ![t] = {Call("attach", t, t)}]
    BY <1>5 DEF OnTargetCreated
  <2>2. Sent' \subseteq Sent
    BY <1>0, <1>5, FlowTargetCreated
  <2>3. \A s \in Targets : \A call \in work'[s] : call \in work[s] \/ (s = t /\ call = Call("attach", t, t))
    BY <2>1 DEF Typed, TypeOK
  <2>4. "attach" \notin PageKinds \cup Navigating \cup {"close"}
    BY DEF PageKinds, Navigating
  <2>5. \A s \in Targets : \A c, k : k # "attach" /\ Call(k, c, s) \in work'[s] => Call(k, c, s) \in work[s]
    BY <2>3, CallsDiffer
  <2>6. \A s \in Targets : \A call \in work'[s] : call \notin Sent'
    BY <2>1, <2>2, <2>3 DEF Fresh
  <2>7. \A s \in Targets : \A c \in channel[s] : \A k \in PageKinds \cup Navigating :
          Call(k, c, s) \notin Sent' \cup work'[s]
    BY <2>2, <2>4, <2>5 DEF Fresh
  <2>8. \A s \in Targets, c \in Callers :
       /\ watch[c] = "queued" => Call("navigate", c, s) \notin work'[s]
       /\ watch[c] = "queued" \/ Call("navigate", c, s) \in work'[s] =>
            Call("renavigate", c, s) \notin Sent' \cup work'[s]
    BY <2>2, <2>5 DEF Fresh
  <2>9. \A s \in Targets :
          /\ <<"created", s>> \notin facts' => Call("attach", s, s) \notin Sent'
          /\ stage[s] = "chain" => Call("close", s, s) \notin Sent' \cup work'[s]
    BY <1>3, <2>2, <2>4, <2>5 DEF Fresh
  <2> QED BY <1>1, <2>6, <2>7, <2>8, <2>9 DEF Fresh
<1> QED BY <1>4, <1>5
        DEF Router, HandOver, OnBrowserMessage, OnAttachedToTarget, OnTargetGone,
            OnDetachedFromTarget, OnSessionEvent, OnSessionAttached, OnDetached, RouterTick,
            RouterEnds, OnResponse

LEMMA FreshSession ==
  ASSUME Typed, Spawned, Authentic, Fresh, NEW t \in Targets, Session(t) PROVE Fresh'
<1> USE DEF routerVars, wireVars, targetVars, navVars, callerVars, chromeVars
<1>0. /\ work \in [Targets -> SUBSET Calls] /\ channel \in [Targets -> SUBSET Callers]
      /\ watch \in [Callers -> {"none", "queued", "active", "loaded", "late"}]
      /\ TypeOK
  BY DEF Typed, TypeOK
<1>1. CASE TakeResponse(t) \/ TakeEvent(t) \/ TakeInitiator(t) \/ PageWake(t) \/ SessionTick(t)
  <2>1. NothingSent /\ StartDrive(t) /\ UNCHANGED <<facts, stage>>
    BY <1>0, <1>1, FlowSession DEF TakeResponse, TakeEvent, TakeInitiator, PageWake, SessionTick
  <2>2. \A c \in Callers : watch'[c] = watch[c]
                           \/ (watch[c] = "active" /\ watch'[c] \in {"loaded", "late"})
    <3>1. CASE SessionTick(t)
      BY <3>1 DEF SessionTick
    <3>2. CASE watch' = watch
      BY <3>2
    <3>3. CASE \E c \in Callers : watch[c] = "active" /\ watch' = [watch EXCEPT ![c] = "loaded"]
      BY <1>0, <3>3
    <3> QED BY <1>1, <3>1, <3>2, <3>3 DEF TakeResponse, TakeEvent, TakeInitiator, PageWake
  <2> QED BY <2>1, <2>2, FreshDrive
<1>2. CASE \/ HandPage(t) \/ Written(t) \/ WriterGone(t) \/ EndDrive(t) \/ Exit(t) \/ End(t)
           \/ \E c \in Callers : NavigationResult(t, c)
  <2>1. NothingSent /\ UNCHANGED <<facts, work, stage>>
    BY <1>0, <1>2, FlowSession
       DEF HandPage, Written, WriterGone, EndDrive, Exit, End, NavigationResult
  <2>2. \A s \in Targets : channel'[s] \subseteq channel[s]
    BY <1>0, <1>2 DEF HandPage, Written, WriterGone, EndDrive, Exit, End, NavigationResult
  <2>3. \A c \in Callers : watch'[c] \in {watch[c], "none"}
    BY <1>0, <1>2 DEF HandPage, Written, WriterGone, EndDrive, Exit, End, NavigationResult
  <2> QED BY <2>1, <2>2, <2>3, FreshKept DEF NothingSent
<1>3. ASSUME NEW call \in work[t], Submit(t, call) PROVE Fresh'
  <2>1. /\ work' = [work EXCEPT ![t] = @ \ {call}] /\ UNCHANGED <<channel, facts, stage>>
        /\ phase[t] = "drive"
        /\ watch' = IF call.kind = "navigate" THEN [watch EXCEPT ![call.of] = "queued"] ELSE watch
    BY <1>3 DEF Submit, Driving, Watched
  <2>2. Sent' \subseteq Sent \cup {call}
    BY <1>0, <1>3, FlowSubmit
  <2>3. call \in SessionCalls(t) /\ call.slot = t
    BY <1>0, CallFields DEF TypeOK
  <2>4. \A s \in Targets : \A other \in work'[s] : other \in work[s] /\ other # call
    <3>1. \A s \in Targets : \A other \in work[s] : other.slot = s
      BY <1>0, CallFields DEF TypeOK
    <3> QED BY <1>0, <2>1, <2>3, <3>1
  <2>5. \A s \in Targets : \A other \in work'[s] : other \notin Sent'
    BY <2>2, <2>4 DEF Fresh
  <2>6. ASSUME NEW s \in Targets, NEW c \in channel[s] 
        PROVE  /\ watch'[c] = "none"
               /\ \A k \in PageKinds \cup Navigating : Call(k, c, s) \notin Sent' \cup work'[s]
    <3>1. c \in Callers /\ watch[c] = "none" /\ asked[c].at = s
      BY <1>0 DEF Fresh, Typed, Waiting
    <3>2. \A k \in PageKinds \cup Navigating : Call(k, c, s) # call
      BY <2>3, CallsDiffer, CallFields DEF Fresh, Call
    <3>3. call.kind = "navigate" => call.of # c
      <4>1. SUFFICES ASSUME call.kind = "navigate", call.of = c PROVE FALSE
        OBVIOUS
      <4>2. AskedFor(call)
        BY PursuedParts DEF Authentic
      <4>3. s = t
        BY <2>3, <3>1, <4>1, <4>2 DEF AskedFor, OwnKinds
      <4>4. call = Call("navigate", c, t)
        BY <2>3, <4>1, CallFields DEF OwnKinds
      <4> QED BY <3>2, <4>3, <4>4 DEF Navigating
    <3>4. watch'[c] = "none"
      BY <1>0, <2>1, <3>1, <3>3
    <3> QED BY <2>2, <2>4, <3>2, <3>4 DEF Fresh
  <2>7. ASSUME NEW s \in Targets, NEW c \in Callers
        PROVE  /\ watch'[c] = "queued" => Call("navigate", c, s) \notin work'[s]
               /\ watch'[c] = "queued" \/ Call("navigate", c, s) \in work'[s] =>
                    Call("renavigate", c, s) \notin Sent' \cup work'[s]
    <3>1. CASE call = Call("navigate", c, t)
      <4>0. call.kind = "navigate" /\ AskedFor(call) /\ call.of = c
        BY <3>1, PursuedParts DEF Authentic, Call
      <4>1. asked[c].at = t
        BY <2>3, <4>0 DEF AskedFor, OwnKinds
      <4>2. CASE s = t
        <5>1. Call("renavigate", c, s) \notin Sent \cup work[s] /\ Call("renavigate", c, s) # call
          BY <3>1, <4>2, CallsDiffer DEF Fresh
        <5> QED BY <2>2, <2>4, <3>1, <4>2, <5>1
      <4>3. CASE s # t
        <5>1. ~ AskedFor(Call("navigate", c, s)) /\ ~ AskedFor(Call("renavigate", c, s))
          BY <4>1, <4>3 DEF AskedFor, Call, OwnKinds
        <5>2. Call("navigate", c, s) \notin work[s] /\ Call("renavigate", c, s) \notin Sent \cup work[s]
          BY <5>1, PursuedParts DEF Authentic
        <5>3. Call("renavigate", c, s) # call
          BY <3>1, CallsDiffer
        <5> QED BY <2>2, <2>4, <5>2, <5>3
      <4> QED BY <4>2, <4>3
    <3>2. CASE call # Call("navigate", c, t)
      <4>1. call.kind = "navigate" => call.of # c
        BY <2>3, <3>2, CallFields DEF OwnKinds
      <4>2. watch'[c] = watch[c]
        BY <1>0, <2>1, <4>1
      <4>3. ASSUME watch[c] = "queued" \/ Call("navigate", c, s) \in work[s]
            PROVE  Call("renavigate", c, s) \notin Sent \cup work[s] \cup {call}
        <5>1. Call("renavigate", c, s) \notin Sent \cup work[s]
          BY <4>3 DEF Fresh
        <5>2. Call("renavigate", c, s) = call => s = t
          BY <2>3 DEF Call
        <5> QED BY <5>1, <5>2
      <4> QED BY <2>2, <2>4, <4>2, <4>3 DEF Fresh
    <3> QED BY <3>1, <3>2
  <2>8. ASSUME NEW s \in Targets, <<"created", s>> \notin facts PROVE Call("attach", s, s) \notin Sent'
    <3>1. phase[s] = "none"
      BY <2>8 DEF Spawned
    <3>2. s # t
      BY <2>1, <3>1
    <3>3. Call("attach", s, s) # call
      BY <2>3, <3>2 DEF Call
    <3> QED BY <2>2, <2>8, <3>3 DEF Fresh
  <2>9. ASSUME NEW s \in Targets, stage[s] = "chain"
        PROVE  Call("close", s, s) \notin Sent' \cup work'[s]
    <3>1. Call("close", s, s) \notin Sent \cup work[s]
      BY <2>9 DEF Fresh
    <3>2. Call("close", s, s) # call
      BY <2>3, <3>1 DEF Call
    <3> QED BY <2>2, <2>4, <3>1, <3>2
  <2> QED BY <2>1, <2>5, <2>6, <2>7, <2>8, <2>9 DEF Fresh
<1>4. ASSUME NEW c \in Callers, NavigationRequest(t, c) PROVE Fresh'
  <2>1. /\ watch[c] = "queued" /\ asked[c].at = t
        /\ watch' = [watch EXCEPT ![c] = "active"] /\ UNCHANGED <<channel, facts, stage>>
        /\ work' = [work EXCEPT ![t] = @ \cup {Call("renavigate", c, t)}]
    BY <1>4 DEF NavigationRequest, Watching
  <2>2. Sent' \subseteq Sent
    BY <1>0, <1>4, FlowSession DEF NothingSent
  <2>3. \A s \in Targets : \A call \in work'[s] : call \in work[s] \/ (s = t /\ call = Call("renavigate", c, t))
    BY <1>0, <2>1
  <2>4. \A s \in Targets : \A call \in work'[s] : call \notin Sent'
    BY <2>1, <2>2, <2>3 DEF Fresh
  <2>5. \A s \in Targets : \A d, k : (d # c \/ k # "renavigate") /\ Call(k, d, s) \in work'[s] => Call(k, d, s) \in work[s]
    BY <2>3, CallsDiffer
  <2>6. \A s \in Targets : \A d \in channel[s] : d \in Callers /\ d # c
    BY <1>0, <2>1 DEF Fresh
  <2>7. \A d \in Callers : d # c => watch'[d] = watch[d]
    BY <2>1
  <2>8. \A s \in Targets : \A d \in channel[s] :
          /\ watch'[d] = "none"
          /\ \A k \in PageKinds \cup Navigating : Call(k, d, s) \notin Sent' \cup work'[s]
    BY <2>2, <2>5, <2>6, <2>7 DEF Fresh
  <2>9. \A s \in Targets, d \in Callers \ {c} :
       /\ watch'[d] = "queued" => Call("navigate", d, s) \notin work'[s]
       /\ watch'[d] = "queued" \/ Call("navigate", d, s) \in work'[s] =>
            Call("renavigate", d, s) \notin Sent' \cup work'[s]
    BY <2>2, <2>5, <2>7 DEF Fresh
  <2>10. watch'[c] = "active" /\ \A s \in Targets : Call("navigate", c, s) \notin work'[s]
    BY <1>0, <2>1, <2>5 DEF Fresh
  <2>11. \A s \in Targets :
           /\ <<"created", s>> \notin facts' => Call("attach", s, s) \notin Sent'
           /\ stage'[s] = "chain" => Call("close", s, s) \notin Sent' \cup work'[s]
    BY <2>1, <2>2, <2>5 DEF Fresh
  <2> QED BY <2>1, <2>4, <2>8, <2>9, <2>10, <2>11 DEF Fresh
<1>5. CASE InitEnds(t)
  <2>1. /\ stage[t] = "chain" /\ UNCHANGED <<channel, facts, watch>>
        /\ \/ work' = work
           \/ work' = [work EXCEPT ![t] = @ \cup {Call("close", t, t)}]
        /\ \E st \in {"initialized", "closing"} : stage' = [stage EXCEPT ![t] = st]
    BY <1>5 DEF InitEnds
  <2>2. Sent' \subseteq Sent
    BY <1>0, <1>5, FlowSession DEF NothingSent
  <2>3. \A s \in Targets : \A call \in work'[s] :
          call \in work[s] \/ (s = t /\ call = Call("close", t, t))
    BY <1>0, <2>1
  <2>4. \A s \in Targets : \A call \in work'[s] : call \notin Sent'
    BY <2>1, <2>2, <2>3 DEF Fresh
  <2>5. \A s \in Targets : \A d, k : (s # t \/ k # "close") /\ Call(k, d, s) \in work'[s] =>
          Call(k, d, s) \in work[s]
    BY <2>3, CallsDiffer
  <2>6. "close" \notin PageKinds \cup Navigating
    BY DEF PageKinds, Navigating
  <2>7. \A s \in Targets : \A d \in channel[s] :
          /\ watch[d] = "none"
          /\ \A k \in PageKinds \cup Navigating : Call(k, d, s) \notin Sent' \cup work'[s]
    BY <2>2, <2>5, <2>6 DEF Fresh
  <2>8. \A s \in Targets, d \in Callers :
       /\ watch[d] = "queued" => Call("navigate", d, s) \notin work'[s]
       /\ watch[d] = "queued" \/ Call("navigate", d, s) \in work'[s] =>
            Call("renavigate", d, s) \notin Sent' \cup work'[s]
    BY <2>2, <2>5 DEF Fresh
  <2>9. \A s \in Targets : stage'[s] = "chain" => s # t /\ stage[s] = "chain"
    <3>1. stage \in [Targets -> Stages]
      BY <1>0 DEF TypeOK
    <3> QED BY <2>1, <3>1
  <2>10. \A s \in Targets :
           /\ <<"created", s>> \notin facts' => Call("attach", s, s) \notin Sent'
           /\ stage'[s] = "chain" => Call("close", s, s) \notin Sent' \cup work'[s]
    BY <2>1, <2>2, <2>5, <2>9 DEF Fresh
  <2> QED BY <2>1, <2>4, <2>7, <2>8, <2>10 DEF Fresh
<1> QED BY <1>1, <1>2, <1>3, <1>4, <1>5 DEF Session

LEMMA FreshNext == Typed /\ Spawned /\ Authentic /\ Fresh /\ [Next]_vars => Fresh'
<1> SUFFICES ASSUME Typed, Spawned, Authentic, Fresh, [Next]_vars PROVE Fresh'
  OBVIOUS
<1> USE DEF routerVars, wireVars, targetVars, navVars, callerVars, chromeVars
<1>1. CASE UNCHANGED vars \/ WriterTakes \/ WriterCloses \/ Chrome
  <2>1. UNCHANGED <<channel, watch, work, stage>> /\ facts \subseteq facts'
    BY <1>1 DEF vars, WriterTakes, WriterCloses, Chrome, Attaches
  <2>2. Sent' \subseteq Sent
    <3>1. CASE UNCHANGED vars
      BY <3>1, FlowSame DEF vars, Sent, OnWire, Awaited
    <3> QED BY <1>1, <3>1, FlowWriter, FlowAttaches DEF Typed, NothingSent
  <2> QED BY <2>1, <2>2, FreshKept
<1> QED BY <1>1, FreshAsks, FreshRouter, FreshSession DEF Next

-----------------------------------------------------------------------------
(* The routing table. *)

(* An answer on its way to a session has left the table, so that the       *)
(* session's pending call, which it will remove, leads nowhere any more.   *)
RoutesInv == RoutesPending /\ Answering \cap routes = {}

LEMMA RoutesInit == Init => RoutesInv
BY DEF Init, RoutesInv, RoutesPending

(* The steps that add no route.                                            *)
LEMMA RoutesKept ==
  ASSUME Typed, TablesInv, RoutesInv, [Next]_vars, routes' \subseteq routes,
         \A call \in routes' : call \notin Answering',
         \A call \in routes' : call.slot \in sessions => call.slot \in sessions',
         \A t \in Targets : \A call \in routes' :
           call \in pending[t] => call \in pending'[t] \/ Leaving(t)',
         \A t \in Targets : sending[t] # None =>
           sending'[t] = sending[t] \/ sending[t] \in pending'[t] \/ ~writer',
         ~writer => ~writer'
  PROVE  RoutesInv'
<1>1. \A call \in routes' : /\ call \in routes /\ call.slot \in Targets /\ call # None
                            /\ call.slot \in sessions /\ call.slot \in sessions'
  BY CallsAssumption DEF RoutesInv, RoutesPending, Typed, TypeOK
<1>2. ASSUME NEW call \in routes'
      PROVE  \/ call \in pending'[call.slot]
             \/ call = sending'[call.slot]
             \/ Leaving(call.slot)'
             \/ ~writer'
  <2>1. \/ call \in pending[call.slot]
        \/ call = sending[call.slot]
        \/ Leaving(call.slot)
        \/ ~writer
    BY <1>1 DEF RoutesInv, RoutesPending
  <2>2. Leaving(call.slot) => Leaving(call.slot)'
    <3>1. PICK t \in Targets : t = call.slot
      BY <1>1
    <3> QED BY <1>1, <3>1, LeavingNext
  <2> QED BY <1>1, <2>1, <2>2
<1>3. RoutesPending'
  BY <1>1, <1>2 DEF RoutesPending
<1> QED BY <1>3 DEF RoutesInv

LEMMA RoutesRouter ==
  ASSUME Typed, TablesInv, RoutesInv, [Next]_vars, Router PROVE RoutesInv'
<1> USE DEF routerVars, wireVars, targetVars, navVars, callerVars, chromeVars
<1>0. TypeOK /\ Answering \cap routes = {}
  BY DEF Typed, RoutesInv
<1>1. UNCHANGED <<pending, sending, writer>>
  BY DEF Router, HandOver, OnBrowserMessage, OnTargetCreated, OnAttachedToTarget, OnTargetGone,
         OnDetachedFromTarget, OnSessionEvent, OnSessionAttached, OnDetached, RouterTick,
         RouterEnds, OnResponse
<1>2. CASE \/ HandOver \/ \E c \in Callers : OnBrowserMessage(c)
           \/ \E t \in Targets : OnTargetCreated(t) \/ OnTargetGone(t)
           \/ \E s \in Sessions : \/ OnAttachedToTarget(s) \/ OnDetachedFromTarget(s)
                                  \/ OnSessionEvent(s)
           \/ OnSessionAttached \/ RouterTick \/ RouterEnds
  <2>1. Answering' \subseteq Answering
    BY <1>0, <1>2, FlowHandOver, FlowBrowserMessage, FlowTargetCreated, FlowRouter DEF NothingSent
  <2>2. routes' = routes /\ sessions \subseteq sessions'
    BY <1>2 DEF HandOver, OnBrowserMessage, OnTargetCreated, OnAttachedToTarget, OnTargetGone,
                OnDetachedFromTarget, OnSessionEvent, OnSessionAttached, RouterTick, RouterEnds
  <2> QED BY <1>0, <1>1, <2>1, <2>2, RoutesKept
<1>3. CASE OnDetached
  <2>1. Answering' \subseteq Answering
    BY <1>0, <1>3, FlowRouter DEF NothingSent
  <2>2. routes' \subseteq routes
        /\ \A call \in routes' : call.slot \in sessions => call.slot \in sessions'
    BY <1>3 DEF OnDetached, RemoveSession, Unregister
  <2> QED BY <1>0, <1>1, <2>1, <2>2, RoutesKept
<1>4. ASSUME NEW call \in browser, OnResponse(call) PROVE RoutesInv'
  <2>1. Answering' \subseteq Answering \cup {call}
    BY <1>0, <1>4, FlowResponse
  <2>2. routes' = routes \ {call} /\ UNCHANGED sessions
    BY <1>4 DEF OnResponse
  <2> QED BY <1>0, <1>1, <2>1, <2>2, RoutesKept
<1> QED BY <1>2, <1>3, <1>4 DEF Router

LEMMA RoutesSession ==
  ASSUME Typed, TablesInv, Fresh, RoutesInv, [Next]_vars, NEW t \in Targets, Session(t)
  PROVE  RoutesInv'
<1> USE DEF routerVars, wireVars, targetVars, navVars, callerVars, chromeVars
<1>0. /\ TypeOK /\ Answering \cap routes = {}
      /\ phase \in [Targets -> {"none", "drive", "select", "exit", "ended"}]
      /\ pending \in [Targets -> SUBSET Calls]
      /\ sending \in [Targets -> Calls \cup {None}]
      /\ \A s \in Targets : work[s] \subseteq SessionCalls(s)
  BY DEF Typed, TypeOK, RoutesInv
<1>1. CASE TakeResponse(t)
  <2>1. Answering' \subseteq Answering /\ Head(inbox[t]).call \in Answering
    <3>1. Takes(t, "response") /\ UNCHANGED <<hand, wire, browser, sending>>
      BY <1>1 DEF TakeResponse
    <3> QED BY <1>0, <3>1, FlowTaken DEF NothingSent
  <2>2. UNCHANGED <<routes, sessions, writer, sending>>
    BY <1>1 DEF TakeResponse
  <2>3. \/ pending' = [pending EXCEPT ![t] = @ \ {Head(inbox[t]).call}]
        \/ pending' = pending
    BY <1>1 DEF TakeResponse
  <2>4. \A s \in Targets : \A call \in routes' : call \in pending[s] => call \in pending'[s]
    BY <1>0, <2>1, <2>2, <2>3
  <2> QED BY <1>0, <2>1, <2>2, <2>4, RoutesKept
<1>2. CASE \/ TakeEvent(t) \/ TakeInitiator(t) \/ PageWake(t) \/ SessionTick(t)
           \/ InitEnds(t) \/ HandPage(t) \/ EndDrive(t) \/ Exit(t) \/ End(t)
           \/ \E c \in Callers : NavigationRequest(t, c) \/ NavigationResult(t, c)
  <2>1. Answering' \subseteq Answering
    BY <1>0, <1>2, FlowSession DEF NothingSent
  <2>2. UNCHANGED <<sessions, writer, sending>>
    BY <1>2 DEF TakeEvent, TakeInitiator, PageWake, SessionTick, InitEnds, HandPage, EndDrive,
                Exit, End, NavigationRequest, NavigationResult
  <2>3. routes' \subseteq routes
        /\ \A s \in Targets : \A call \in routes' :
             call \in pending[s] => call \in pending'[s] \/ Leaving(s)'
    <3>1. CASE SessionTick(t)
      <4>1. PICK S \in SUBSET pending[t] :
              pending' = [pending EXCEPT ![t] = @ \ S] /\ routes' = routes \ S
        BY <3>1 DEF SessionTick, EvictStale
      <4> QED BY <1>0, <4>1
    <3>2. CASE Exit(t)
      <4>1. /\ pending' = [pending EXCEPT ![t] = {}] /\ UNCHANGED routes
            /\ phase' = [phase EXCEPT ![t] = "exit"]
        BY <3>2 DEF Exit
      <4>2. Leaving(t)'
        BY <1>0, <4>1 DEF Leaving
      <4>3. \A s \in Targets \ {t} : pending'[s] = pending[s]
        BY <1>0, <4>1
      <4> QED BY <4>1, <4>2, <4>3
    <3>3. CASE UNCHANGED <<routes, pending>>
      BY <3>3
    <3> QED BY <1>2, <3>1, <3>2, <3>3
            DEF TakeEvent, TakeInitiator, PageWake, InitEnds, HandPage, EndDrive, End,
                NavigationRequest, NavigationResult
  <2> QED BY <1>0, <2>1, <2>2, <2>3, RoutesKept
<1>3. CASE Written(t) \/ WriterGone(t)
  <2>1. Answering' \subseteq Answering
    BY <1>0, <1>3, FlowSession DEF NothingSent
  <2>2. UNCHANGED <<routes, sessions, writer>> /\ sending' = [sending EXCEPT ![t] = None]
    BY <1>3 DEF Written, WriterGone
  <2>3. \/ pending' = [pending EXCEPT ![t] = @ \cup {sending[t]}]
        \/ ~writer' /\ pending' = pending
    BY <1>3 DEF Written, WriterGone
  <2>4. \A s \in Targets : /\ pending[s] \subseteq pending'[s]
                           /\ s # t => sending'[s] = sending[s]
    BY <1>0, <2>2, <2>3
  <2>5. sending[t] \in pending'[t] \/ ~writer'
    BY <1>0, <2>3
  <2> QED BY <1>0, <2>1, <2>2, <2>4, <2>5, RoutesKept
<1>4. ASSUME NEW call \in work[t], Submit(t, call) PROVE RoutesInv'
  <2>1. Answering' = Answering
    BY <1>0, <1>4, FlowSubmit
  <2>2. call \notin Answering /\ call.slot = t
    BY <1>0, CallFields DEF Fresh, Sent
  <2>3. /\ routes' = routes \cup {call} /\ phase[t] = "drive" /\ sending[t] = None
        /\ sending' = [sending EXCEPT ![t] = call]
        /\ UNCHANGED <<sessions, writer, pending>>
    BY <1>4 DEF Submit, Driving
  <2>4. t \in sessions /\ sending'[t] = call
    BY <1>0, <2>3 DEF TablesInv, Spawned
  <2>5. ASSUME NEW other \in routes'
        PROVE  /\ other.slot \in sessions'
               /\ \/ other \in pending'[other.slot]
                  \/ other = sending'[other.slot]
                  \/ Leaving(other.slot)'
                  \/ ~writer'
    <3>1. CASE other = call
      BY <2>2, <2>3, <2>4, <3>1
    <3>2. CASE other \in routes
      <4>1. /\ other.slot \in sessions /\ other.slot \in Targets /\ other # None
            /\ \/ other \in pending[other.slot]
               \/ other = sending[other.slot]
               \/ Leaving(other.slot)
               \/ ~writer
        BY <1>0, <3>2, CallsAssumption DEF RoutesInv, RoutesPending, TypeOK
      <4>2. PICK s \in Targets : s = other.slot
        BY <4>1
      <4>3. Leaving(s) => Leaving(s)'
        BY <2>3, <4>1, <4>2, LeavingNext
      <4>4. other = sending[s] => s # t /\ sending'[s] = sending[s]
        BY <1>0, <2>3, <4>1
      <4> QED BY <2>3, <4>1, <4>2, <4>3, <4>4
    <3> QED BY <2>3, <3>1, <3>2
  <2>6. RoutesPending'
    BY <2>5 DEF RoutesPending
  <2> QED BY <1>0, <2>1, <2>2, <2>3, <2>6 DEF RoutesInv
<1> QED BY <1>1, <1>2, <1>3, <1>4 DEF Session

LEMMA RoutesNext == Typed /\ TablesInv /\ Fresh /\ RoutesInv /\ [Next]_vars => RoutesInv'
<1> SUFFICES ASSUME Typed, TablesInv, Fresh, RoutesInv, [Next]_vars PROVE RoutesInv'
  OBVIOUS
<1> USE DEF routerVars, wireVars, targetVars, navVars, callerVars, chromeVars
<1>1. CASE UNCHANGED vars \/ WriterTakes \/ WriterCloses \/ Asks \/ Chrome
  <2>1. UNCHANGED <<routes, sessions, pending, sending, inbox, hand>> /\ (~writer => ~writer')
    <3>1. CASE Asks
      BY <3>1 DEF Asks, AskBrowser, AskPage
    <3>2. CASE UNCHANGED vars \/ WriterTakes \/ Chrome
      <4>1. UNCHANGED <<routes, sessions, pending, sending, inbox, hand, writer>>
        BY <3>2 DEF vars, WriterTakes, Chrome, Attaches
      <4> QED BY <4>1
    <3>3. CASE WriterCloses
      BY <3>3 DEF WriterCloses
    <3> QED BY <1>1, <3>1, <3>2, <3>3
  <2>2. Answering' = Answering
    BY <2>1, FlowSame
  <2> QED BY <2>1, <2>2, RoutesKept DEF RoutesInv
<1> QED BY <1>1, RoutesRouter, RoutesSession DEF Next

(* A route leads to a registered session that has the call pending or is   *)
(* awaiting the writer for it: between alloc_call_id and the insertion     *)
(* into its pending it is in neither table but in the task's own hands.    *)
(* The exceptions are a task on its way out of the tables (its Detached    *)
(* to come, to be read or lost) and a writer that is gone; the answer of a *)
(* call that was evicted finds no route.                                   *)
THEOREM RoutesLeadSomewhere == Spec => []RoutesPending
<1>1. Init => Typed /\ TablesInv /\ Authentic /\ Fresh /\ RoutesInv
  BY TypedInit, TablesInit, AuthenticInit, FreshInit, RoutesInit
<1>2. Typed /\ TablesInv /\ Authentic /\ Fresh /\ RoutesInv /\ [Next]_vars
        => (Typed /\ TablesInv /\ Authentic /\ Fresh /\ RoutesInv)'
  BY TypedNext, TablesNext, AuthenticNext, FreshNext, RoutesNext DEF TablesInv
<1>3. RoutesInv => RoutesPending
  BY DEF RoutesInv
<1> QED BY <1>1, <1>2, <1>3, PTL DEF Spec
=============================================================================
