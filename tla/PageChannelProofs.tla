------------------------- MODULE PageChannelProofs -------------------------
(***************************************************************************)
(* No message of a page is left in its channel unnoticed, none is          *)
(* processed whose future gave up before it was in, and a navigation       *)
(* awaits its own delay, for any number of futures and pages, any capacity *)
(* and any budget.                                                         *)
(*                                                                         *)
(* NoLostWakeUp speaks of the loop while it waits.  A page may be drained  *)
(* long before that, and messages reach it afterwards: Noticed says the    *)
(* same of every page the round is done with, whatever the loop does, and  *)
(* is kept by every step.  A sender leaves "pushed" only by notifying,     *)
(* and the permit is used up only by a step after which no page is done.   *)
(*                                                                         *)
(* Handed are the messages whose future came past the channel.  It only    *)
(* grows, and holds every message that is in a channel or processed.       *)
(*                                                                         *)
(* Counted is what the semaphore of a channel counts: messages and grants  *)
(* together never pass the capacity, which TypeOK says of the messages     *)
(* alone.  Awaited ties a delay that has run out to the part of the future *)
(* that awaited it.                                                        *)
(***************************************************************************)
EXTENDS PageChannel, SequenceTheorems, FiniteSetTheorems, TLAPS

Shape ==
  /\ chan \in [Pages -> Seq(Messages)]
  /\ stage \in [Callers -> Stages]
  /\ page \in [Callers -> Pages]
  /\ part \in [Callers -> Parts]
  /\ taken \subseteq Messages
  /\ unsent \subseteq Callers
  /\ \A p \in Pages \ open : chan[p] = << >>
  /\ loop = "waiting" => todo = {}

Unnoticed(p) ==
  \E i \in 1..Len(chan[p]) :
    /\ count[p] # Budget
    /\ stage[chan[p][i][1]] # "pushed"

Noticed == ~permit => \A p \in Pages \ todo : ~Unnoticed(p)

Past(c) == stage[c] \in {"pushed", "sent", "done"} /\ c \notin unsent

Handed ==
  {m \in Messages : \/ m[2] = part[m[1]] /\ Past(m[1])
                    \/ m[2] = "command" /\ part[m[1]] = "navigation"}

OnlyHanded ==
  /\ taken \subseteq Handed
  /\ \A p \in Pages : \A i \in 1..Len(chan[p]) : chan[p][i] \in Handed
  /\ \A c \in unsent : stage[c] = "done"

IInv == Shape /\ Noticed /\ OnlyHanded

-----------------------------------------------------------------------------
(* What a step does to the stages.                                         *)

LEMMA SetStage ==
  ASSUME Shape, NEW c \in Callers, NEW s \in Stages,
         stage' = [stage EXCEPT ![c] = s]
  PROVE  /\ stage' \in [Callers -> Stages]
         /\ stage'[c] = s
         /\ \A d \in Callers : d # c => stage'[d] = stage[d]
BY DEF Shape

LEMMA ReleaseStage ==
  ASSUME NEW p \in Pages, NEW st \in [Callers -> Stages], Release(p, st),
         \A c \in Callers : stage[c] = "parked" => st[c] = "parked"
  PROVE  /\ stage' \in [Callers -> Stages]
         /\ \A d \in Callers : st[d] = "pushed" => stage'[d] = "pushed"
<1>1. CASE stage' = st
  BY <1>1
<1>2. CASE \E c \in Parked(p) : stage' = [st EXCEPT ![c] = "granted"]
  BY <1>2 DEF Parked, Stages
<1> QED BY <1>1, <1>2 DEF Release

LEMMA MessageType ==
  ASSUME Shape, NEW c \in Callers
  PROVE  Message(c) \in Messages
BY DEF Shape, Message, Messages

(* A message that is pushed has a sender that is about to notify.          *)
LEMMA PushNoticed ==
  ASSUME IInv, NEW c \in Callers, Push(c), stage' = [stage EXCEPT ![c] = "pushed"],
         UNCHANGED <<permit, loopVars>>
  PROVE  /\ chan' \in [Pages -> Seq(Messages)]
         /\ Noticed'
<1> DEFINE q == page[c]
<1>1. /\ q \in Pages /\ chan[q] \in Seq(Messages) /\ Message(c) \in Messages
      /\ Message(c)[1] = c
  BY MessageType DEF IInv, Shape, Message
<1>2. /\ chan' = [p \in Pages |-> IF p = q THEN Append(chan[q], Message(c)) ELSE chan[p]]
      /\ chan' \in [Pages -> Seq(Messages)]
  <2>1. Append(chan[q], Message(c)) \in Seq(Messages)
    BY <1>1, AppendProperties
  <2>2. chan' = [chan EXCEPT ![q] = Append(chan[q], Message(c))]
    BY DEF Push
  <2>3. chan \in [Pages -> Seq(Messages)]
    BY DEF IInv, Shape
  <2> HIDE DEF q
  <2> QED BY <1>1, <2>1, <2>2, <2>3
<1>3. stage'[c] = "pushed" /\ \A d \in Callers : d # c => stage'[d] = stage[d]
  BY SetStage DEF IInv, Stages
<1>4. ASSUME ~permit, NEW p \in Pages \ todo, NEW i \in 1..Len(chan'[p]), count[p] # Budget
      PROVE  stage'[chan'[p][i][1]] = "pushed"
  <2>1. CASE i \in 1..Len(chan[p])
    <3>1. chan'[p][i] = chan[p][i]
      BY <1>1, <1>2, <2>1
    <3>2. stage[chan[p][i][1]] = "pushed"
      BY <1>4, <2>1 DEF IInv, Noticed, Unnoticed
    <3>3. chan[p][i] \in Messages
      BY <2>1 DEF IInv, Shape
    <3>4. chan[p][i][1] \in Callers
      BY <3>3 DEF Messages
    <3> QED BY <3>1, <3>2, <3>4, <1>3
  <2>2. CASE i \notin 1..Len(chan[p])
    <3>1. p = q /\ i = Len(chan[q]) + 1
      BY <1>1, <1>2, <1>4, <2>2
    <3>2. chan'[p][i] = Message(c)
      BY <1>1, <1>2, <3>1
    <3> QED BY <3>2, <1>1, <1>3
  <2> QED BY <2>1, <2>2
<1>5. Noticed'
  BY <1>4 DEF Noticed, Unnoticed, loopVars
<1> QED BY <1>2, <1>5

(* A step that leaves the channels alone and takes no sender from "pushed" *)
(* keeps what was noticed.                                                 *)
LEMMA NoticedStays ==
  ASSUME IInv, UNCHANGED <<chan, permit, count, todo>>,
         \A d \in Callers : stage[d] = "pushed" => stage'[d] = "pushed"
  PROVE  Noticed'
<1>1. ASSUME ~permit, NEW p \in Pages \ todo, NEW i \in 1..Len(chan[p]), count[p] # Budget
      PROVE  stage'[chan[p][i][1]] = "pushed"
  <2>1. stage[chan[p][i][1]] = "pushed"
    BY <1>1 DEF IInv, Noticed, Unnoticed
  <2>2. chan[p][i] \in Messages
    BY <1>1 DEF IInv, Shape
  <2>3. chan[p][i][1] \in Callers
    BY <2>2 DEF Messages
  <2> QED BY <2>1, <2>3
<1> QED BY <1>1 DEF Noticed, Unnoticed

-----------------------------------------------------------------------------
(* What was handed over stays so.                                          *)
LEMMA HandedGrows ==
  ASSUME Shape, UNCHANGED part,
         \A c \in Callers : Past(c) => Past(c)'
  PROVE  Handed \subseteq Handed'
BY DEF Handed, Messages

(* A step that neither gives up nor touches a channel.                     *)
LEMMA KeepsHanded ==
  ASSUME IInv, UNCHANGED <<taken, chan, unsent>>, Handed \subseteq Handed',
         \A c \in Callers : stage[c] = "done" => stage'[c] = "done"
  PROVE  OnlyHanded'
BY DEF IInv, Shape, OnlyHanded

(* The three steps that put a future past the channel or give it up.       *)
LEMMA PushHanded ==
  ASSUME IInv, NEW c \in Callers, Push(c), stage[c] \in {"new", "granted"},
         stage' = [stage EXCEPT ![c] = "pushed"],
         chan' \in [Pages -> Seq(Messages)],
         UNCHANGED <<part, taken, unsent>>
  PROVE  OnlyHanded'
<1> DEFINE q == page[c]
<1>1. /\ q \in Pages /\ chan[q] \in Seq(Messages) /\ Message(c) \in Messages
      /\ c \notin unsent
  BY MessageType DEF IInv, Shape, OnlyHanded
<1>2. stage'[c] = "pushed" /\ \A d \in Callers : d # c => stage'[d] = stage[d]
  BY SetStage DEF IInv, Stages
<1>3. Handed \subseteq Handed'
  BY <1>1, <1>2, HandedGrows DEF IInv, Past
<1>4. Message(c) \in Handed'
  BY <1>1, <1>2 DEF Handed, Message, Past
<1>5. ASSUME NEW p \in Pages, NEW i \in 1..Len(chan'[p])
      PROVE  chan'[p][i] \in Handed'
  <2>1. chan'[p] = IF p = q THEN Append(chan[q], Message(c)) ELSE chan[p]
    BY <1>1 DEF Push, IInv, Shape
  <2>2. CASE i \in 1..Len(chan[p])
    <3>1. chan'[p][i] = chan[p][i]
      BY <1>1, <2>1, <2>2
    <3> QED BY <3>1, <2>2, <1>3 DEF IInv, OnlyHanded
  <2>3. CASE i \notin 1..Len(chan[p])
    <3>1. chan'[p][i] = Message(c)
      BY <1>1, <2>1, <2>3
    <3> QED BY <3>1, <1>4
  <2> QED BY <2>2, <2>3
<1>6. \A d \in unsent' : stage'[d] = "done"
  BY <1>1, <1>2 DEF IInv, OnlyHanded, Shape
<1> QED BY <1>3, <1>5, <1>6 DEF IInv, OnlyHanded

LEMMA GiveUpKeeps ==
  ASSUME IInv, NEW c \in Callers, stage[c] \in {"new", "parked", "granted"},
         UNCHANGED <<part, chan, taken>>, unsent' = unsent \cup {c},
         stage'[c] = "done",
         \A d \in Callers : d # c /\ stage[d] \in {"pushed", "sent", "done"}
                             => stage'[d] = stage[d]
  PROVE  OnlyHanded'
<1>1. \A d \in Callers : Past(d) => Past(d)'
  BY DEF Past
<1>2. Handed \subseteq Handed'
  BY <1>1, HandedGrows DEF IInv
<1>3. \A d \in unsent' : stage'[d] = "done"
  BY DEF IInv, OnlyHanded, Shape
<1> QED BY <1>2, <1>3 DEF IInv, OnlyHanded

-----------------------------------------------------------------------------
(* The steps.                                                              *)

LEMMA InitInv == Init => IInv
<1> SUFFICES ASSUME Init PROVE IInv
  OBVIOUS
<1>1. Shape
  BY DEF Init, Shape, Stages, Parts
<1>2. Noticed
  BY DEF Init, Noticed
<1>3. OnlyHanded
  BY DEF Init, OnlyHanded
<1> QED BY <1>1, <1>2, <1>3 DEF IInv

LEMMA PushInv ==
  ASSUME IInv, NEW c \in Callers, TrySend(c) \/ SendGranted(c)
  PROVE  IInv'
<1>1. /\ Push(c) /\ stage' = [stage EXCEPT ![c] = "pushed"]
      /\ stage[c] \in {"new", "granted"}
      /\ UNCHANGED <<page, part, unsent, taken, permit, loopVars, open>> /\ page[c] \in open
  BY DEF TrySend, SendGranted, given, targetVars
<1>2. chan' \in [Pages -> Seq(Messages)] /\ Noticed'
  BY <1>1, PushNoticed
<1>3. OnlyHanded'
  BY <1>1, <1>2, PushHanded
<1>4. \A p \in Pages : p # page[c] => chan'[p] = chan[p]
  BY <1>1 DEF Push, IInv, Shape
<1>5. Shape'
  BY <1>1, <1>2, <1>4, SetStage DEF IInv, Shape, Stages, loopVars
<1> QED BY <1>2, <1>3, <1>5 DEF IInv

LEMMA ParkInv ==
  ASSUME IInv, NEW c \in Callers, Park(c)
  PROVE  IInv'
<1>1. /\ stage[c] = "new" /\ stage' = [stage EXCEPT ![c] = "parked"]
      /\ UNCHANGED <<page, part, chan, open, unsent, taken, permit, loop, todo, count>>
  BY DEF Park, given, loopVars, targetVars
<1>2. /\ stage' \in [Callers -> Stages] /\ stage'[c] = "parked"
      /\ \A d \in Callers : d # c => stage'[d] = stage[d]
  BY <1>1, SetStage DEF IInv, Stages
<1>3. Shape'
  BY <1>1, <1>2 DEF IInv, Shape
<1>4. Noticed'
  BY <1>1, <1>2, NoticedStays
<1>5. Handed \subseteq Handed'
  BY <1>1, <1>2, HandedGrows DEF IInv, Past
<1>6. OnlyHanded'
  BY <1>1, <1>2, <1>5, KeepsHanded
<1> QED BY <1>3, <1>4, <1>6 DEF IInv

(* The permit is there, so nothing more has to be shown of the channels.   *)
LEMMA NotifyInv ==
  ASSUME IInv, NEW c \in Callers, NotifyOne(c)
  PROVE  IInv'
<1>1. /\ stage[c] = "pushed" /\ stage' = [stage EXCEPT ![c] = "sent"] /\ permit' = TRUE
      /\ UNCHANGED <<page, part, chan, open, unsent, taken, loop, todo, count>>
  BY DEF NotifyOne, given, channelVars, loopVars, targetVars
<1>2. /\ stage' \in [Callers -> Stages] /\ stage'[c] = "sent"
      /\ \A d \in Callers : d # c => stage'[d] = stage[d]
  BY <1>1, SetStage DEF IInv, Stages
<1>3. Shape'
  BY <1>1, <1>2 DEF IInv, Shape
<1>4. Noticed'
  BY <1>1 DEF Noticed
<1>5. Handed \subseteq Handed'
  BY <1>1, <1>2, HandedGrows DEF IInv, Past
<1>6. OnlyHanded'
  BY <1>1, <1>2, <1>5, KeepsHanded
<1> QED BY <1>3, <1>4, <1>6 DEF IInv

LEMMA FinishSentInv ==
  ASSUME IInv, NEW c \in Callers, NEW how, FinishSent(c, how)
  PROVE  IInv'
<1>1. /\ stage[c] = "sent" /\ stage' = [stage EXCEPT ![c] = "done"]
      /\ UNCHANGED <<page, part, chan, open, unsent, taken, permit, loop, todo, count>>
  BY DEF FinishSent, Finish, given, channelVars, loopVars, targetVars
<1>2. /\ stage' \in [Callers -> Stages] /\ stage'[c] = "done"
      /\ \A d \in Callers : d # c => stage'[d] = stage[d]
  BY <1>1, SetStage DEF IInv, Stages
<1>3. Shape'
  BY <1>1, <1>2 DEF IInv, Shape
<1>4. Noticed'
  BY <1>1, <1>2, NoticedStays
<1>5. Handed \subseteq Handed'
  BY <1>1, <1>2, HandedGrows DEF IInv, Past
<1>6. OnlyHanded'
  BY <1>1, <1>2, <1>5, KeepsHanded
<1> QED BY <1>3, <1>4, <1>6 DEF IInv

LEMMA GiveUpInv ==
  ASSUME IInv, NEW c \in Callers, NEW how, GiveUp(c, how),
         stage[c] \in {"new", "parked", "granted"}
  PROVE  IInv'
<1>1. /\ stage' = [stage EXCEPT ![c] = "done"] /\ unsent' = unsent \cup {c}
      /\ UNCHANGED <<page, part, chan, open, taken, permit, loop, todo, count>>
  BY DEF GiveUp, Finish, given, loopVars, targetVars
<1>2. /\ stage' \in [Callers -> Stages] /\ stage'[c] = "done"
      /\ \A d \in Callers : d # c => stage'[d] = stage[d]
  BY <1>1, SetStage DEF IInv, Stages
<1>3. Shape'
  BY <1>1, <1>2 DEF IInv, Shape
<1>4. Noticed'
  BY <1>1, <1>2, NoticedStays
<1>5. OnlyHanded'
  BY <1>1, <1>2, GiveUpKeeps
<1> QED BY <1>3, <1>4, <1>5 DEF IInv

LEMMA CancelInv ==
  ASSUME IInv, NEW c \in Callers, Cancel(c)
  PROVE  IInv'
<1>1. CASE stage[c] \in {"new", "parked"} /\ GiveUp(c, "cancelled")
  BY <1>1, GiveUpInv
<1>2. CASE FinishSent(c, "cancelled")
  BY <1>2, FinishSentInv
<1>3. CASE /\ stage[c] = "granted"
           /\ Finish(c, "cancelled")
           /\ Release(page[c], [stage EXCEPT ![c] = "done"])
           /\ unsent' = unsent \cup {c}
           /\ UNCHANGED <<chan, open, permit, loopVars, targetVars>>
  <2> DEFINE st == [stage EXCEPT ![c] = "done"]
  <2>1. /\ st \in [Callers -> Stages] /\ st[c] = "done"
        /\ \A d \in Callers : d # c => st[d] = stage[d]
    BY DEF IInv, Shape, Stages
  <2>2. Release(page[c], st) /\ page[c] \in Pages
    BY <1>3 DEF IInv, Shape
  <2>3. UNCHANGED <<page, part, chan, open, taken, permit, loop, todo, count>>
    BY <1>3 DEF Finish, given, loopVars, targetVars
  <2> HIDE DEF st
  <2>4. /\ stage' \in [Callers -> Stages]
        /\ \A d \in Callers : st[d] # "parked" => stage'[d] = st[d]
    <3>1. CASE stage' = st
      BY <3>1, <2>1
    <3>2. CASE \E d \in Parked(page[c]) : stage' = [st EXCEPT ![d] = "granted"]
      <4>1. PICK d \in Callers : stage[d] = "parked" /\ stage' = [st EXCEPT ![d] = "granted"]
        BY <3>2 DEF Parked
      <4>2. d # c
        BY <4>1, <1>3
      <4> QED BY <4>1, <4>2, <2>1 DEF Stages
    <3> QED BY <3>1, <3>2, <2>2 DEF Release
  <2>5. /\ stage'[c] = "done"
        /\ \A d \in Callers : d # c /\ stage[d] # "parked" => stage'[d] = stage[d]
    BY <2>1, <2>4
  <2>6. Shape'
    BY <1>3, <2>3, <2>4 DEF IInv, Shape
  <2>7. \A d \in Callers : stage[d] = "pushed" => stage'[d] = "pushed"
    BY <1>3, <2>5
  <2>8. Noticed'
    BY <2>3, <2>7, NoticedStays
  <2>9. OnlyHanded'
    BY <1>3, <2>3, <2>5, GiveUpKeeps
  <2> QED BY <2>6, <2>8, <2>9 DEF IInv
<1> QED BY <1>1, <1>2, <1>3 DEF Cancel

(* The command of an HttpFuture counts as handed over; its navigation is   *)
(* not yet, and nothing of it is in a channel.                             *)
LEMMA NavigationInv ==
  ASSUME IInv, NEW c \in Callers, NavigationNext(c)
  PROVE  IInv'
<1>1. /\ stage[c] = "sent" /\ stage' = [stage EXCEPT ![c] = "new"]
      /\ part[c] = "command" /\ part' = [part EXCEPT ![c] = "navigation"]
      /\ UNCHANGED <<page, chan, open, unsent, taken, permit, loop, todo, count>>
  BY DEF NavigationNext, given, channelVars, loopVars
<1>2. /\ stage' \in [Callers -> Stages] /\ stage'[c] = "new"
      /\ \A d \in Callers : d # c => stage'[d] = stage[d]
  BY <1>1, SetStage DEF IInv, Stages
<1>3. /\ part' \in [Callers -> Parts] /\ part'[c] = "navigation"
      /\ \A d \in Callers : d # c => part'[d] = part[d]
  BY <1>1 DEF IInv, Shape, Parts
<1>4. Shape'
  BY <1>1, <1>2, <1>3 DEF IInv, Shape
<1>5. Noticed'
  BY <1>1, <1>2, NoticedStays
<1>6. Handed \subseteq Handed'
  <2> SUFFICES ASSUME NEW m \in Handed PROVE m \in Handed'
    OBVIOUS
  <2>1. m \in Messages /\ m[1] \in Callers
    BY DEF Handed, Messages
  <2>2. CASE m[1] = c
    <3>1. m[2] = "command"
      BY <2>2, <1>1 DEF Handed
    <3> QED BY <2>1, <2>2, <3>1, <1>3 DEF Handed
  <2>3. CASE m[1] # c
    BY <2>1, <2>3, <1>1, <1>2, <1>3 DEF Handed, Past
  <2> QED BY <2>2, <2>3
<1>7. OnlyHanded'
  BY <1>1, <1>2, <1>6, KeepsHanded
<1> QED BY <1>4, <1>5, <1>7 DEF IInv

LEMMA PollInv ==
  ASSUME IInv, NEW c \in Callers, Poll(c)
  PROVE  IInv'
<1>1. CASE TrySend(c) \/ SendGranted(c)
  BY <1>1, PushInv
<1>2. CASE Park(c)
  BY <1>2, ParkInv
<1>3. CASE NotifyOne(c)
  BY <1>3, NotifyInv
<1>4. CASE SendClosed(c)
  BY <1>4, GiveUpInv DEF SendClosed
<1>5. CASE TimeoutParked(c)
  BY <1>5, GiveUpInv DEF TimeoutParked
<1>6. CASE TimeoutSent(c)
  BY <1>6, FinishSentInv DEF TimeoutSent
<1>7. CASE NavigationNext(c)
  BY <1>7, NavigationInv
<1>8. CASE Ready(c)
  BY <1>8, FinishSentInv DEF Ready
<1> QED BY <1>1, <1>2, <1>3, <1>4, <1>5, <1>6, <1>7, <1>8 DEF Poll

(* A message is taken from a page the round is not done with.              *)
LEMMA ReceiveInv ==
  ASSUME IInv, NEW p \in Pages, Receive(p)
  PROVE  IInv'
<1>1. /\ p \in todo /\ chan[p] # << >> /\ chan[p] \in Seq(Messages)
      /\ taken' = taken \cup {Head(chan[p])}
      /\ chan' = [chan EXCEPT ![p] = Tail(chan[p])]
      /\ count' = [count EXCEPT ![p] = count[p] + 1]
      /\ Release(p, stage) /\ loop = "round"
      /\ UNCHANGED <<page, part, open, unsent, permit, loop, todo>> /\ p \in open
  BY DEF Receive, given, IInv, Shape
<1>2. /\ Head(chan[p]) \in Messages /\ Tail(chan[p]) \in Seq(Messages)
      /\ Head(chan[p]) = chan[p][1] /\ 1 \in 1..Len(chan[p])
      /\ Len(Tail(chan[p])) = Len(chan[p]) - 1
      /\ \A i \in 1..Len(Tail(chan[p])) : Tail(chan[p])[i] = chan[p][i + 1] /\ i + 1 \in 1..Len(chan[p])
  BY <1>1, HeadTailProperties, EmptySeq
<1>3. /\ chan' \in [Pages -> Seq(Messages)] /\ chan'[p] = Tail(chan[p])
      /\ \A q \in Pages : q # p => chan'[q] = chan[q] /\ count'[q] = count[q]
  <2>1. \A q \in Pages : q # p => count'[q] = count[q]
    BY <1>1
  <2>2. chan \in [Pages -> Seq(Messages)]
    BY DEF IInv, Shape
  <2> QED BY <1>1, <1>2, <2>1, <2>2
<1>4. /\ stage' \in [Callers -> Stages]
      /\ \A d \in Callers : stage[d] # "parked" => stage'[d] = stage[d]
  BY <1>1 DEF Release, Parked, IInv, Shape, Stages
<1>5. Shape'
  BY <1>1, <1>2, <1>3, <1>4 DEF IInv, Shape
<1>6. Noticed'
  <2>1. ASSUME ~permit, NEW q \in Pages \ todo, NEW i \in 1..Len(chan[q]), count[q] # Budget
        PROVE  stage'[chan[q][i][1]] = "pushed"
    <3>1. stage[chan[q][i][1]] = "pushed"
      BY <2>1 DEF IInv, Noticed, Unnoticed
    <3>2. chan[q][i] \in Messages
      BY <2>1 DEF IInv, Shape
    <3>3. chan[q][i][1] \in Callers
      BY <3>2 DEF Messages
    <3> QED BY <3>1, <3>3, <1>4
  <2>2. \A q \in Pages \ todo : q # p
    BY <1>1
  <2> QED BY <2>1, <2>2, <1>1, <1>3 DEF Noticed, Unnoticed
<1>7. Handed \subseteq Handed'
  BY <1>1, <1>4, HandedGrows DEF IInv, Past
<1>8. OnlyHanded'
  <2>1. taken' \subseteq Handed
    BY <1>1, <1>2 DEF IInv, OnlyHanded
  <2>2. \A q \in Pages : \A i \in 1..Len(chan'[q]) : chan'[q][i] \in Handed
    <3> SUFFICES ASSUME NEW q \in Pages, NEW i \in 1..Len(chan'[q])
                 PROVE  chan'[q][i] \in Handed
      OBVIOUS
    <3>1. CASE q = p
      BY <3>1, <1>2, <1>3 DEF IInv, OnlyHanded
    <3>2. CASE q # p
      BY <3>2, <1>3 DEF IInv, OnlyHanded
    <3> QED BY <3>1, <3>2
  <2>3. \A c \in unsent' : stage'[c] = "done"
    BY <1>1, <1>4 DEF IInv, OnlyHanded, Shape
  <2> QED BY <1>7, <2>1, <2>2, <2>3 DEF OnlyHanded
<1> QED BY <1>5, <1>6, <1>8 DEF IInv

(* The steps that leave the stages alone.                                  *)
LEMMA SameStageHanded ==
  ASSUME IInv, UNCHANGED <<stage, part, unsent, taken, chan>>
  PROVE  OnlyHanded'
<1>1. Handed \subseteq Handed'
  BY HandedGrows DEF IInv, Past
<1> QED BY <1>1, KeepsHanded

LEMMA LoopInv ==
  ASSUME IInv, Loop \/ OtherEvent
  PROVE  IInv'
<1>1. CASE \E p \in Pages : Receive(p)
  BY <1>1, ReceiveInv
<1>2. ASSUME NEW p \in Pages, Drained(p) PROVE IInv'
  <2>1. /\ p \in open => chan[p] = << >> \/ count[p] = Budget
        /\ todo' = todo \ {p} /\ loop = "round"
        /\ UNCHANGED <<page, stage, part, open, unsent, taken, chan, permit, loop, count>>
    BY <1>2 DEF Drained, futureVars, channelVars, targetVars, given
  <2>2. chan[p] = << >> \/ count[p] = Budget
    BY <2>1, <1>2 DEF IInv, Shape
  <2>3. ~Unnoticed(p)
    BY <2>2 DEF Unnoticed
  <2>4. Noticed'
    BY <2>1, <2>3 DEF IInv, Noticed, Unnoticed
  <2>5. Shape'
    BY <2>1 DEF IInv, Shape
  <2>6. OnlyHanded'
    BY <2>1, SameStageHanded
  <2> QED BY <2>4, <2>5, <2>6 DEF IInv
<1>3. CASE Wait
  <2>1. UNCHANGED <<page, stage, part, open, unsent, taken, chan, permit, todo, count>> /\ todo = {}
    BY <1>3 DEF Wait, futureVars, channelVars, targetVars, given
  <2>2. Noticed'
    BY <2>1 DEF IInv, Noticed, Unnoticed
  <2>3. Shape'
    BY <2>1 DEF IInv, Shape
  <2>4. OnlyHanded'
    BY <2>1, SameStageHanded
  <2> QED BY <2>2, <2>3, <2>4 DEF IInv
<1>4. CASE NextRound
  <2>1. /\ todo' = Pages /\ loop' = "round"
        /\ UNCHANGED <<page, stage, part, open, unsent, taken, chan>>
    BY <1>4 DEF NextRound, futureVars, channelVars, targetVars, given
  <2>2. Noticed'
    BY <2>1 DEF Noticed
  <2>3. Shape'
    BY <2>1 DEF IInv, Shape
  <2>4. OnlyHanded'
    BY <2>1, SameStageHanded
  <2> QED BY <2>2, <2>3, <2>4 DEF IInv
<1> QED BY <1>1, <1>2, <1>3, <1>4 DEF Loop, Notified, OtherEvent

LEMMA CloseInv ==
  ASSUME IInv, NEW p \in Pages, Close(p)
  PROVE  IInv'
<1>1. /\ chan' = [chan EXCEPT ![p] = << >>] /\ open' = open \ {p}
      /\ UNCHANGED <<page, stage, part, unsent, taken, permit, loop, todo, count>>
  BY DEF Close, futureVars, loopVars, given
<1>2. /\ chan' \in [Pages -> Seq(Messages)]
      /\ \A q \in Pages : chan'[q] = IF q = p THEN << >> ELSE chan[q]
  BY <1>1 DEF IInv, Shape
<1>3. Shape'
  BY <1>1, <1>2 DEF IInv, Shape
<1>4. Noticed'
  BY <1>1, <1>2 DEF IInv, Noticed, Unnoticed
<1>5. Handed \subseteq Handed'
  BY <1>1, HandedGrows DEF IInv, Past
<1>6. OnlyHanded'
  BY <1>1, <1>2, <1>5 DEF IInv, OnlyHanded
<1> QED BY <1>3, <1>4, <1>6 DEF IInv

LEMMA DelayInv ==
  ASSUME IInv, NEW c \in Callers, NEW q \in Parts, DelayExpires(c, q)
  PROVE  IInv'
<1>1. UNCHANGED <<page, stage, part, open, unsent, taken, chan, permit, loop, todo, count>>
  BY DEF DelayExpires, given, channelVars, loopVars, targetVars
<1>2. Shape' /\ Noticed'
  BY <1>1 DEF IInv, Shape, Noticed, Unnoticed
<1>3. OnlyHanded'
  BY <1>1, SameStageHanded
<1> QED BY <1>2, <1>3 DEF IInv

LEMMA AnswerInv ==
  ASSUME IInv, NEW c \in Callers, NEW how, Answer(c, how)
  PROVE  IInv'
<1>1. UNCHANGED <<page, stage, part, open, unsent, taken, chan, permit, loop, todo, count>>
  BY DEF Answer, given, futureVars, channelVars, loopVars
<1>2. Shape' /\ Noticed'
  BY <1>1 DEF IInv, Shape, Noticed, Unnoticed
<1>3. OnlyHanded'
  BY <1>1, SameStageHanded
<1> QED BY <1>2, <1>3 DEF IInv

LEMMA StutterInv ==
  ASSUME IInv, UNCHANGED vars
  PROVE  IInv'
<1>1. UNCHANGED <<page, stage, part, open, unsent, taken, chan, permit, loop, todo, count>>
  BY DEF vars, given, futureVars, channelVars, loopVars, targetVars
<1>2. Shape' /\ Noticed'
  BY <1>1 DEF IInv, Shape, Noticed, Unnoticed
<1>3. OnlyHanded'
  BY <1>1, SameStageHanded
<1> QED BY <1>2, <1>3 DEF IInv

(* The strengthening is inductive.                                         *)
THEOREM ChannelInv == Spec => []IInv
<1>1. Init => IInv
  BY InitInv
<1>2. IInv /\ [Next]_vars => IInv'
  <2> SUFFICES ASSUME IInv, [Next]_vars PROVE IInv'
    OBVIOUS
  <2>1. CASE \E c \in Callers : Poll(c) \/ Cancel(c)
    BY <2>1, PollInv, CancelInv
  <2>2. CASE \E c \in Callers, q \in Parts : DelayExpires(c, q)
    BY <2>2, DelayInv
  <2>3. CASE \E c \in Callers, how \in {"answered", "dropped"} : Answer(c, how)
    BY <2>3, AnswerInv
  <2>4. CASE Loop \/ OtherEvent
    BY <2>4, LoopInv
  <2>5. CASE \E p \in Pages : Close(p)
    BY <2>5, CloseInv
  <2>6. CASE UNCHANGED vars
    BY <2>6, StutterInv
  <2> QED BY <2>1, <2>2, <2>3, <2>4, <2>5, <2>6 DEF Next
<1> QED BY <1>1, <1>2, PTL DEF Spec

(* Run() never waits with a message in a channel that nobody will tell it  *)
(* of, except for those beyond the budget of the last drain: PageSender    *)
(* notifies after the send, and a round drains every page.                 *)
THEOREM NoWakeUpIsLost == Spec => []NoLostWakeUp
<1>1. IInv => NoLostWakeUp
  BY DEF IInv, Shape, Noticed, Unnoticed, NoLostWakeUp
<1> QED BY <1>1, ChannelInv, PTL

(* A caller whose future ended while it waited for room may repeat its     *)
(* request: CommandFuture::poll gave up the send, so nothing was done.     *)
THEOREM GaveUpNothingDone == Spec => []GaveUpUnsent
<1>1. IInv => GaveUpUnsent
  <2> SUFFICES ASSUME IInv, NEW c \in unsent PROVE Message(c) \notin Handed
    BY DEF IInv, Shape, OnlyHanded, GaveUpUnsent
  <2>1. c \in Callers
    BY DEF IInv, Shape
  <2>2. Message(c)[1] = c /\ Message(c)[2] = part[c]
    BY DEF Message
  <2>3. ~Past(c)
    BY DEF Past
  <2> QED BY <2>1, <2>2, <2>3 DEF Handed
<1> QED BY <1>1, ChannelInv, PTL

-----------------------------------------------------------------------------
(* The bounds of the channels.  Room that was granted to a future is not   *)
(* free, so the futures that hold a grant are counted with the messages.   *)

Counted ==
  \A p \in Pages : /\ IsFiniteSet(Granted(p))
                   /\ Len(chan[p]) + Cardinality(Granted(p)) <= capacity

(* A delay that has run out in the second part of a future was awaited in  *)
(* it, for the delay starts again with the part.                           *)
Awaited ==
  \A c \in Callers :
    /\ outcome[c] # "none" => stage[c] = "done"
    /\ part[c] = "navigation" /\ ("navigation" \in expired[c] \/ outcome[c] = "timeout")
         => c \in waited

(* What Shape leaves of TypeOK.                                            *)
Rest ==
  /\ capacity \in Capacities
  /\ expired \in [Callers -> SUBSET Parts]
  /\ reply \in [Callers -> {"none", "answered", "dropped"}]
  /\ outcome \in [Callers -> Outcomes]
  /\ open \subseteq Pages
  /\ permit \in BOOLEAN
  /\ loop \in {"round", "waiting"}
  /\ todo \subseteq Pages
  /\ count \in [Pages -> 0..Budget]
  /\ waited \subseteq Callers

Bounded == Rest /\ Counted /\ Awaited

(* No room is given away when no future gets a grant and no channel grows. *)
LEMMA CountedShrinks ==
  ASSUME Shape, Counted, capacity \in Nat, capacity' = capacity,
         \A p \in Pages : Granted(p)' \subseteq Granted(p),
         \A p \in Pages : Len(chan'[p]) <= Len(chan[p]) /\ Len(chan'[p]) \in Nat
  PROVE  Counted'
<1> SUFFICES ASSUME NEW p \in Pages
             PROVE  /\ IsFiniteSet(Granted(p)')
                    /\ Len(chan'[p]) + Cardinality(Granted(p)') <= capacity
  BY DEF Counted
<1>1. IsFiniteSet(Granted(p)) /\ Len(chan[p]) + Cardinality(Granted(p)) <= capacity
  BY DEF Counted
<1>2. IsFiniteSet(Granted(p)') /\ Cardinality(Granted(p)') <= Cardinality(Granted(p))
  BY <1>1, FS_Subset
<1>3. Cardinality(Granted(p)) \in Nat /\ Cardinality(Granted(p)') \in Nat
  BY <1>1, <1>2, FS_CardinalityType
<1>4. Len(chan[p]) \in Nat
  BY DEF Shape
<1> QED BY <1>1, <1>2, <1>3, <1>4

(* One future changes its stage, and no other gets a grant.                *)
LEMMA GrantedOne ==
  ASSUME Shape, NEW c \in Callers, NEW s \in Stages, stage' = [stage EXCEPT ![c] = s],
         s # "granted", page' = page
  PROVE  \A p \in Pages : Granted(p)' = Granted(p) \ {c}
BY SetStage DEF Granted

(* A grant is given by a step that makes room on the same page: a message  *)
(* less, or a grant less.                                                  *)
LEMMA GrantedNext ==
  ASSUME Shape, NEW p \in Pages, NEW st \in [Callers -> Stages], page' = page,
         Release(p, st),
         \A c \in Callers : stage[c] = "parked" => st[c] = "parked"
  PROVE  /\ \A q \in Pages \ {p} :
              Granted(q)' = {c \in Callers : st[c] = "granted" /\ page[c] = q}
         /\ \/ Granted(p)' = {c \in Callers : st[c] = "granted" /\ page[c] = p}
            \/ \E d \in Callers :
                 Granted(p)' = {c \in Callers : st[c] = "granted" /\ page[c] = p} \cup {d}
<1>1. CASE stage' = st
  BY <1>1 DEF Granted
<1>2. CASE \E c \in Parked(p) : stage' = [st EXCEPT ![c] = "granted"]
  <2>1. PICK c \in Parked(p) : stage' = [st EXCEPT ![c] = "granted"]
    BY <1>2
  <2>2. c \in Callers /\ page[c] = p /\ st[c] = "parked"
    BY <2>1 DEF Parked
  <2>3. \A d \in Callers : stage'[d] = IF d = c THEN "granted" ELSE st[d]
    BY <2>1, <2>2
  <2> QED BY <2>2, <2>3 DEF Granted
<1> QED BY <1>1, <1>2 DEF Release

LEMMA CapacityType == Rest => capacity \in Nat
BY SizesAssumption DEF Rest

LEMMA LengthType ==
  ASSUME Shape, NEW p \in Pages
  PROVE  Len(chan[p]) \in Nat
BY DEF Shape

LEMMA TrySendCounted ==
  ASSUME Shape, Rest, Counted, NEW c \in Callers, TrySend(c)
  PROVE  Counted'
<1> SUFFICES ASSUME NEW p \in Pages
             PROVE  /\ IsFiniteSet(Granted(p)')
                    /\ Len(chan'[p]) + Cardinality(Granted(p)') <= capacity'
  BY DEF Counted
<1>1. Granted(p)' = Granted(p) \ {c} /\ c \notin Granted(p)
  BY GrantedOne DEF TrySend, given, Stages, Granted
<1>2. Granted(p)' = Granted(p)
  BY <1>1
<1>3. /\ IsFiniteSet(Granted(p)) /\ Len(chan[p]) + Cardinality(Granted(p)) <= capacity
      /\ Cardinality(Granted(p)) \in Nat
  BY FS_CardinalityType DEF Counted
<1>4. capacity' = capacity /\ capacity \in Nat
  BY CapacityType DEF TrySend, given
<1>5. p # page[c] => chan'[p] = chan[p]
  BY DEF TrySend, Push, Shape
<1>6. p = page[c] => Len(chan'[p]) = Len(chan[p]) + 1
  <2>1. chan[p] \in Seq(Messages) /\ Message(c) \in Messages
    BY MessageType DEF Shape
  <2>2. p = page[c] => chan'[p] = Append(chan[p], Message(c))
    BY DEF TrySend, Push, Shape
  <2> QED BY <2>1, <2>2, AppendProperties
<1>7. p = page[c] => Len(chan[p]) + Cardinality(Granted(p)) < capacity
  BY DEF TrySend, HasRoom
<1> QED BY <1>2, <1>3, <1>4, <1>5, <1>6, <1>7, LengthType

(* The grant is used up by the message.                                    *)
LEMMA SendGrantedCounted ==
  ASSUME Shape, Rest, Counted, NEW c \in Callers, SendGranted(c)
  PROVE  Counted'
<1> SUFFICES ASSUME NEW p \in Pages
             PROVE  /\ IsFiniteSet(Granted(p)')
                    /\ Len(chan'[p]) + Cardinality(Granted(p)') <= capacity'
  BY DEF Counted
<1>1. Granted(p)' = Granted(p) \ {c}
  BY GrantedOne DEF SendGranted, given, Stages
<1>2. /\ IsFiniteSet(Granted(p)) /\ Len(chan[p]) + Cardinality(Granted(p)) <= capacity
      /\ Cardinality(Granted(p)) \in Nat
  BY FS_CardinalityType DEF Counted
<1>3. /\ IsFiniteSet(Granted(p)')
      /\ Cardinality(Granted(p)') = IF c \in Granted(p) THEN Cardinality(Granted(p)) - 1
                                    ELSE Cardinality(Granted(p))
  BY <1>1, <1>2, FS_RemoveElement
<1>4. capacity' = capacity /\ capacity \in Nat
  BY CapacityType DEF SendGranted, given
<1>5. p # page[c] => chan'[p] = chan[p]
  BY DEF SendGranted, Push, Shape
<1>6. p = page[c] => Len(chan'[p]) = Len(chan[p]) + 1
  <2>1. chan[p] \in Seq(Messages) /\ Message(c) \in Messages
    BY MessageType DEF Shape
  <2>2. p = page[c] => chan'[p] = Append(chan[p], Message(c))
    BY DEF SendGranted, Push, Shape
  <2> QED BY <2>1, <2>2, AppendProperties
<1>7. p = page[c] => c \in Granted(p)
  BY DEF SendGranted, Granted
<1> QED BY <1>2, <1>3, <1>4, <1>5, <1>6, <1>7, LengthType

(* The room of a message that was taken goes to one future.                *)
LEMMA ReceiveCounted ==
  ASSUME Shape, Rest, Counted, NEW p \in Pages, Receive(p)
  PROVE  Counted'
<1> SUFFICES ASSUME NEW q \in Pages
             PROVE  /\ IsFiniteSet(Granted(q)')
                    /\ Len(chan'[q]) + Cardinality(Granted(q)') <= capacity'
  BY DEF Counted
<1>1. /\ \A r \in Pages \ {p} : Granted(r)' = Granted(r)
      /\ Granted(p)' = Granted(p) \/ \E c \in Callers : Granted(p)' = Granted(p) \cup {c}
  BY GrantedNext DEF Receive, given, Shape, Granted
<1>2. /\ IsFiniteSet(Granted(q)) /\ Len(chan[q]) + Cardinality(Granted(q)) <= capacity
      /\ Cardinality(Granted(q)) \in Nat
  BY FS_CardinalityType DEF Counted
<1>3. capacity' = capacity /\ capacity \in Nat
  BY CapacityType DEF Receive, given
<1>4. CASE q # p
  <2>1. chan'[q] = chan[q] /\ Granted(q)' = Granted(q)
    BY <1>1, <1>4 DEF Receive, Shape
  <2> QED BY <2>1, <1>2, <1>3
<1>5. CASE q = p
  <2>1. Len(chan'[p]) = Len(chan[p]) - 1
    <3>1. chan[p] \in Seq(Messages) /\ chan[p] # << >> /\ chan'[p] = Tail(chan[p])
      BY DEF Receive, Shape
    <3> QED BY <3>1, HeadTailProperties
  <2>2. IsFiniteSet(Granted(p)') /\ Cardinality(Granted(p)') <= Cardinality(Granted(p)) + 1
        /\ Cardinality(Granted(p)') \in Nat
    <3>1. CASE Granted(p)' = Granted(p)
      BY <3>1, <1>2, <1>5
    <3>2. ASSUME NEW c \in Callers, Granted(p)' = Granted(p) \cup {c}
          PROVE  /\ IsFiniteSet(Granted(p)') /\ Cardinality(Granted(p)') \in Nat
                 /\ Cardinality(Granted(p)') <= Cardinality(Granted(p)) + 1
      <4>1. /\ IsFiniteSet(Granted(p) \cup {c})
            /\ Cardinality(Granted(p) \cup {c}) =
                 IF c \in Granted(p) THEN Cardinality(Granted(p)) ELSE Cardinality(Granted(p)) + 1
        BY <1>2, <1>5, FS_AddElement
      <4>2. Cardinality(Granted(p)) \in Nat
        BY <1>2, <1>5
      <4> QED BY <3>2, <4>1, <4>2
    <3> QED BY <3>1, <3>2, <1>1
  <2> QED BY <2>1, <2>2, <1>2, <1>3, <1>5, LengthType
<1> QED BY <1>4, <1>5

(* A grant that is given up goes to another future.                        *)
LEMMA CancelGrantedCounted ==
  ASSUME Shape, Rest, Counted, NEW c \in Callers, stage[c] = "granted",
         Release(page[c], [stage EXCEPT ![c] = "done"]),
         UNCHANGED <<given, chan>>
  PROVE  Counted'
<1>0. PICK p \in Pages : p = page[c]
  BY DEF Shape
<1> DEFINE st == [stage EXCEPT ![c] = "done"]
<1>1. /\ st \in [Callers -> Stages] /\ st[c] = "done"
      /\ \A d \in Callers : d # c => st[d] = stage[d]
      /\ page' = page /\ Release(p, st)
      /\ \A d \in Callers : stage[d] = "parked" => st[d] = "parked"
  BY <1>0 DEF Shape, Stages, given
<1> HIDE DEF st
<1>2. /\ \A q \in Pages \ {p} :
           Granted(q)' = {d \in Callers : st[d] = "granted" /\ page[d] = q}
      /\ \/ Granted(p)' = {d \in Callers : st[d] = "granted" /\ page[d] = p}
         \/ \E d \in Callers :
              Granted(p)' = {e \in Callers : st[e] = "granted" /\ page[e] = p} \cup {d}
  BY <1>1, GrantedNext
<1>3. \A q \in Pages : {d \in Callers : st[d] = "granted" /\ page[d] = q} = Granted(q) \ {c}
  BY <1>1 DEF Granted
<1>4. /\ \A q \in Pages \ {p} : Granted(q)' = Granted(q) \ {c}
      /\ Granted(p)' = Granted(p) \ {c} \/ \E d \in Callers : Granted(p)' = (Granted(p) \ {c}) \cup {d}
  BY <1>1, <1>2, <1>3
<1>5. capacity' = capacity /\ capacity \in Nat /\ chan' = chan
  BY CapacityType DEF given
<1> SUFFICES ASSUME NEW q \in Pages
             PROVE  /\ IsFiniteSet(Granted(q)')
                    /\ Len(chan[q]) + Cardinality(Granted(q)') <= capacity
  BY <1>5 DEF Counted
<1>6. /\ IsFiniteSet(Granted(q)) /\ Len(chan[q]) + Cardinality(Granted(q)) <= capacity
      /\ Cardinality(Granted(q)) \in Nat
  BY FS_CardinalityType DEF Counted
<1>7. /\ IsFiniteSet(Granted(q) \ {c}) /\ Cardinality(Granted(q) \ {c}) \in Nat
      /\ Cardinality(Granted(q) \ {c}) = IF c \in Granted(q) THEN Cardinality(Granted(q)) - 1
                                         ELSE Cardinality(Granted(q))
  BY <1>6, FS_RemoveElement, FS_CardinalityType
<1>8. c \in Granted(p)
  BY <1>0 DEF Granted
<1>9. IsFiniteSet(Granted(q)') /\ Cardinality(Granted(q)') <= Cardinality(Granted(q))
      /\ Cardinality(Granted(q)') \in Nat
  <2>1. CASE Granted(q)' = Granted(q) \ {c}
    BY <2>1, <1>6, <1>7
  <2>2. ASSUME q = p, NEW d \in Callers, Granted(p)' = (Granted(p) \ {c}) \cup {d}
        PROVE  /\ IsFiniteSet(Granted(q)') /\ Cardinality(Granted(q)') \in Nat
               /\ Cardinality(Granted(q)') <= Cardinality(Granted(q))
    <3>0. IsFiniteSet(Granted(p) \ {c}) /\ Cardinality(Granted(p) \ {c}) \in Nat
      BY <1>7, <2>2
    <3>1. /\ IsFiniteSet((Granted(p) \ {c}) \cup {d})
          /\ Cardinality((Granted(p) \ {c}) \cup {d}) <= Cardinality(Granted(p) \ {c}) + 1
          /\ Cardinality((Granted(p) \ {c}) \cup {d}) \in Nat
      BY <3>0, FS_AddElement
    <3>2. Cardinality(Granted(p) \ {c}) + 1 = Cardinality(Granted(p))
      BY <2>2, <1>6, <1>7, <1>8
    <3> QED BY <3>1, <3>2, <2>2, <1>6
  <2> QED BY <2>1, <2>2, <1>4
<1> QED BY <1>6, <1>9, <1>5, LengthType

LEMMA OneStageCounted ==
  ASSUME Shape, Rest, Counted, NEW c \in Callers, NEW s \in Stages,
         stage' = [stage EXCEPT ![c] = s], s # "granted", UNCHANGED <<given, chan>>
  PROVE  Counted'
<1>1. page' = page /\ capacity' = capacity
  BY DEF given
<1>2. \A p \in Pages : Granted(p)' \subseteq Granted(p)
  BY <1>1, GrantedOne
<1> QED BY <1>1, <1>2, CountedShrinks, CapacityType, LengthType

LEMMA SameStageCounted ==
  ASSUME Shape, Rest, Counted, UNCHANGED <<given, stage>>,
         \A p \in Pages : chan'[p] = chan[p] \/ chan'[p] = << >>
  PROVE  Counted'
<1>1. capacity' = capacity /\ \A p \in Pages : Granted(p)' = Granted(p)
  BY DEF given, Granted
<1>2. \A p \in Pages : Len(chan'[p]) <= Len(chan[p]) /\ Len(chan'[p]) \in Nat
  BY LengthType
<1> QED BY <1>1, <1>2, CountedShrinks, CapacityType

LEMMA PollCounted ==
  ASSUME Shape, Rest, Counted, NEW c \in Callers, Poll(c) \/ Cancel(c)
  PROVE  Counted'
<1>1. CASE TrySend(c)
  BY <1>1, TrySendCounted
<1>2. CASE SendGranted(c)
  BY <1>2, SendGrantedCounted
<1>3. CASE Park(c)
  BY <1>3, OneStageCounted DEF Park, Stages
<1>4. CASE NotifyOne(c)
  BY <1>4, OneStageCounted DEF NotifyOne, channelVars, Stages
<1>5. CASE \E how \in Outcomes : GiveUp(c, how)
  BY <1>5, OneStageCounted DEF GiveUp, Finish, Stages
<1>6. CASE \E how \in Outcomes : FinishSent(c, how)
  BY <1>6, OneStageCounted DEF FinishSent, Finish, channelVars, Stages
<1>7. CASE NavigationNext(c)
  BY <1>7, OneStageCounted DEF NavigationNext, channelVars, Stages
<1>8. CASE /\ stage[c] = "granted"
           /\ Finish(c, "cancelled")
           /\ Release(page[c], [stage EXCEPT ![c] = "done"])
           /\ UNCHANGED chan
  BY <1>8, CancelGrantedCounted DEF Finish
<1> QED
  BY <1>1, <1>2, <1>3, <1>4, <1>5, <1>6, <1>7, <1>8
     DEF Poll, Cancel, SendClosed, TimeoutParked, TimeoutSent, Ready, Outcomes

LEMMA CountedNext ==
  ASSUME Shape, Rest, Counted, [Next]_vars
  PROVE  Counted'
<1>1. CASE \E c \in Callers : Poll(c) \/ Cancel(c)
  BY <1>1, PollCounted
<1>2. CASE \E c \in Callers, q \in Parts : DelayExpires(c, q)
  BY <1>2, SameStageCounted DEF DelayExpires, channelVars
<1>3. CASE \E c \in Callers, how \in {"answered", "dropped"} : Answer(c, how)
  BY <1>3, SameStageCounted DEF Answer, futureVars, channelVars
<1>4. CASE \E p \in Pages : Receive(p)
  BY <1>4, ReceiveCounted
<1>5. CASE (\E p \in Pages : Drained(p)) \/ Wait \/ NextRound
  BY <1>5, SameStageCounted DEF Drained, Wait, NextRound, futureVars, channelVars
<1>6. CASE \E p \in Pages : Close(p)
  BY <1>6, SameStageCounted DEF Close, futureVars, Shape
<1>7. CASE UNCHANGED vars
  BY <1>7, SameStageCounted DEF vars, futureVars, channelVars
<1> QED
  BY <1>1, <1>2, <1>3, <1>4, <1>5, <1>6, <1>7 DEF Next, Loop, Notified, OtherEvent

(* How a future ends: a timeout in a part whose delay has run out.         *)
LEMMA FinishAwaited ==
  ASSUME Rest, Shape, Awaited, NEW c \in Callers, NEW how \in Outcomes, Finish(c, how),
         stage' \in [Callers -> Stages], stage'[c] = "done",
         \A d \in Callers : stage[d] = "done" => stage'[d] = "done",
         how = "timeout" => part[c] \in expired[c]
  PROVE  /\ Awaited'
         /\ expired' \in [Callers -> SUBSET Parts]
         /\ outcome' \in [Callers -> Outcomes]
         /\ waited' = waited /\ part' = part /\ capacity' = capacity /\ page' = page
<1>1. /\ outcome' = [outcome EXCEPT ![c] = how] /\ expired' = [expired EXCEPT ![c] = {}]
      /\ waited' = waited /\ part' = part /\ capacity' = capacity /\ page' = page
  BY DEF Finish, given
<1>2. /\ expired' \in [Callers -> SUBSET Parts] /\ outcome' \in [Callers -> Outcomes]
      /\ \A d \in Callers : /\ outcome'[d] = IF d = c THEN how ELSE outcome[d]
                            /\ expired'[d] = IF d = c THEN {} ELSE expired[d]
  BY <1>1 DEF Rest
<1>3. Awaited'
  BY <1>1, <1>2 DEF Awaited
<1> QED BY <1>1, <1>2, <1>3

LEMMA PollRest ==
  ASSUME Rest, Shape, Awaited, Shape', NEW c \in Callers, Poll(c) \/ Cancel(c)
  PROVE  Rest' /\ Awaited'
<1> USE DEF Rest, given, channelVars, loopVars, targetVars
<1>1. CASE TrySend(c) \/ SendGranted(c)
  BY <1>1, SetStage DEF TrySend, SendGranted, Awaited, Stages
<1>2. CASE Park(c)
  BY <1>2, SetStage DEF Park, Awaited, Stages
<1>3. CASE NotifyOne(c)
  BY <1>3, SetStage DEF NotifyOne, Awaited, Stages
<1>4. ASSUME NEW how \in Outcomes, GiveUp(c, how),
             how = "timeout" => part[c] \in expired[c]
      PROVE  Rest' /\ Awaited'
  <2>1. stage'[c] = "done" /\ \A d \in Callers : stage[d] = "done" => stage'[d] = "done"
    BY <1>4, SetStage DEF GiveUp, Stages
  <2>2. stage' \in [Callers -> Stages]
    BY DEF Shape
  <2> QED BY <2>1, <2>2, <1>4, FinishAwaited DEF GiveUp
<1>5. ASSUME NEW how \in Outcomes, FinishSent(c, how),
             how = "timeout" => part[c] \in expired[c]
      PROVE  Rest' /\ Awaited'
  <2>1. stage'[c] = "done" /\ \A d \in Callers : stage[d] = "done" => stage'[d] = "done"
    BY <1>5, SetStage DEF FinishSent, Stages
  <2>2. stage' \in [Callers -> Stages]
    BY DEF Shape
  <2> QED BY <2>1, <2>2, <1>5, FinishAwaited DEF FinishSent
<1>6. CASE NavigationNext(c)
  <2>1. /\ stage'[c] = "new" /\ \A d \in Callers : d # c => stage'[d] = stage[d]
        /\ stage[c] = "sent"
    BY <1>6, SetStage DEF NavigationNext, Stages
  <2>2. /\ expired' \in [Callers -> SUBSET Parts] /\ expired'[c] = {}
        /\ \A d \in Callers : d # c => expired'[d] = expired[d] /\ part'[d] = part[d]
        /\ UNCHANGED <<outcome, waited>>
    BY <1>6 DEF NavigationNext, Shape
  <2>3. Awaited'
    BY <2>1, <2>2 DEF Awaited
  <2> QED BY <1>6, <2>2, <2>3 DEF NavigationNext
<1>7. CASE /\ stage[c] = "granted"
           /\ Finish(c, "cancelled")
           /\ Release(page[c], [stage EXCEPT ![c] = "done"])
           /\ UNCHANGED <<chan, open, permit, loopVars, targetVars>>
  <2>1. stage' \in [Callers -> Stages]
    BY DEF Shape
  <2>2. stage'[c] = "done" /\ \A d \in Callers : stage[d] = "done" => stage'[d] = "done"
    BY <1>7 DEF Release, Parked, Shape, Stages
  <2> QED BY <2>1, <2>2, <1>7, FinishAwaited DEF Outcomes
<1> QED
  BY <1>1, <1>2, <1>3, <1>4, <1>5, <1>6, <1>7
     DEF Poll, Cancel, SendClosed, TimeoutParked, TimeoutSent, Ready, Outcomes

LEMMA RestNext ==
  ASSUME Rest, Shape, Awaited, Shape', [Next]_vars
  PROVE  Rest' /\ Awaited'
<1> USE DEF Rest, futureVars, given, channelVars, loopVars, targetVars
<1>1. CASE \E c \in Callers : Poll(c) \/ Cancel(c)
  BY <1>1, PollRest
<1>2. ASSUME NEW c \in Callers, NEW q \in Parts, DelayExpires(c, q)
      PROVE  Rest' /\ Awaited'
  <2>1. /\ expired' \in [Callers -> SUBSET Parts]
        /\ \A d \in Callers : d # c => expired'[d] = expired[d]
        /\ expired'[c] = expired[c] \cup {q}
        /\ stage[c] # "done"
    BY <1>2 DEF DelayExpires
  <2>2. waited \subseteq waited' /\ waited' \subseteq Callers
    BY <1>2 DEF DelayExpires
  <2>3. Awaited'
    BY <1>2, <2>1, <2>2 DEF Awaited, DelayExpires
  <2> QED BY <1>2, <2>1, <2>2, <2>3 DEF DelayExpires
<1>3. CASE \E c \in Callers, how \in {"answered", "dropped"} : Answer(c, how)
  BY <1>3 DEF Answer, Awaited
<1>4. ASSUME NEW p \in Pages, Receive(p) PROVE Rest' /\ Awaited'
  <2>1. count[p] + 1 \in 0..Budget
    BY <1>4, SizesAssumption DEF Receive
  <2>2. count' \in [Pages -> 0..Budget]
    BY <1>4, <2>1 DEF Receive
  <2>3. \A d \in Callers : stage[d] = "done" => stage'[d] = "done"
    BY <1>4 DEF Receive, Release, Parked, Shape
  <2> QED BY <1>4, <2>2, <2>3 DEF Receive, Awaited
<1>5. CASE (\E p \in Pages : Drained(p)) \/ Wait
  BY <1>5 DEF Drained, Wait, Awaited
<1>6. CASE Notified \/ OtherEvent
  <2>1. 0 \in 0..Budget
    BY SizesAssumption
  <2> QED BY <1>6, <2>1 DEF Notified, OtherEvent, NextRound, Awaited
<1>7. CASE \E p \in Pages : Close(p)
  BY <1>7 DEF Close, Awaited
<1>8. CASE UNCHANGED vars
  BY <1>8 DEF vars, Awaited
<1> QED BY <1>1, <1>2, <1>3, <1>4, <1>5, <1>6, <1>7, <1>8 DEF Next, Loop

LEMMA BoundedInit == Init => Bounded
<1> SUFFICES ASSUME Init PROVE Bounded
  OBVIOUS
<1>0. 0 \in 0..Budget
  BY SizesAssumption
<1>1. Rest
  <2>1. count \in [Pages -> 0..Budget]
    BY <1>0 DEF Init
  <2>2. /\ expired \in [Callers -> SUBSET Parts]
        /\ outcome \in [Callers -> Outcomes]
        /\ reply \in [Callers -> {"none", "answered", "dropped"}]
    BY DEF Init, Outcomes
  <2>3. /\ capacity \in Capacities /\ open \subseteq Pages /\ permit \in BOOLEAN
        /\ loop \in {"round", "waiting"} /\ todo \subseteq Pages /\ waited \subseteq Callers
    BY DEF Init
  <2> QED BY <2>1, <2>2, <2>3 DEF Rest
<1>2. Awaited
  BY DEF Init, Awaited
<1>3. \A p \in Pages : Granted(p) = {} /\ Len(chan[p]) = 0
  BY DEF Init, Granted
<1>4. Counted
  <2>1. IsFiniteSet({}) /\ Cardinality({}) = 0
    BY FS_EmptySet
  <2>2. capacity \in Nat
    BY <1>1, CapacityType
  <2>3. ASSUME NEW p \in Pages
        PROVE  /\ IsFiniteSet(Granted(p))
               /\ Len(chan[p]) + Cardinality(Granted(p)) <= capacity
    <3>1. Granted(p) = {} /\ Len(chan[p]) = 0
      BY <1>3
    <3>2. IsFiniteSet(Granted(p)) /\ Cardinality(Granted(p)) = 0
      BY <3>1, <2>1
    <3> QED BY <3>1, <3>2, <2>2
  <2> QED BY <2>3 DEF Counted
<1> QED BY <1>1, <1>2, <1>4 DEF Bounded

(* The room granted to futures and the messages of a channel fit into it   *)
(* together, and delays are those of the part that is awaited.             *)
THEOREM ChannelBounded == Spec => []Bounded
<1>1. Init => Bounded
  BY BoundedInit
<1>2. IInv /\ IInv' /\ Bounded /\ [Next]_vars => Bounded'
  BY CountedNext, RestNext DEF IInv, Bounded
<1> QED BY <1>1, <1>2, ChannelInv, PTL DEF Spec

(* Every variable keeps its type; above all a page channel never holds     *)
(* more than its capacity, although room is granted to futures before they *)
(* use it and given back when they are dropped.                            *)
THEOREM ChannelTypeCorrect == Spec => []TypeOK
<1>1. IInv /\ Bounded => TypeOK
  <2> SUFFICES ASSUME IInv, Bounded PROVE TypeOK
    OBVIOUS
  <2>1. \A p \in Pages : Len(chan[p]) <= capacity
    <3> SUFFICES ASSUME NEW p \in Pages PROVE Len(chan[p]) <= capacity
      OBVIOUS
    <3>1. /\ Len(chan[p]) + Cardinality(Granted(p)) <= capacity
          /\ Cardinality(Granted(p)) \in Nat
      BY FS_CardinalityType DEF Bounded, Counted
    <3>2. Len(chan[p]) \in Nat /\ capacity \in Nat
      BY LengthType, CapacityType DEF IInv, Bounded
    <3> QED BY <3>1, <3>2
  <2> QED BY <2>1 DEF IInv, Shape, Bounded, Rest, TypeOK
<1> QED BY <1>1, ChannelInv, ChannelBounded, PTL

(* An HttpFuture that ends with a timeout on its navigation has awaited it *)
(* for a whole delay: reset_deadline starts it when the command is         *)
(* answered.                                                               *)
THEOREM NavigationAwaitedInFull == Spec => NavigationFullTimeout
<1> DEFINE Full == \A c \in Callers :
             part[c] = "navigation" /\ outcome'[c] = "timeout" => c \in waited
<1>1. IInv /\ Bounded /\ [Next]_vars => Full
  <2> SUFFICES ASSUME IInv, Bounded, [Next]_vars PROVE Full
    OBVIOUS
  <2>0. Awaited /\ outcome \in [Callers -> Outcomes]
    BY DEF Bounded, Rest
  <2>1. CASE outcome' = outcome
    BY <2>0, <2>1 DEF Awaited
  <2>2. ASSUME NEW c \in Callers, NEW how \in Outcomes, Finish(c, how),
               how = "timeout" => part[c] \in expired[c]
        PROVE  Full
    BY <2>0, <2>2 DEF Awaited, Finish
  <2>3. ASSUME NEW c \in Callers, Poll(c) \/ Cancel(c) PROVE Full
    <3>1. CASE outcome' = outcome
      BY <2>1, <3>1
    <3>2. CASE \E how \in Outcomes : /\ Finish(c, how)
                                     /\ how = "timeout" => part[c] \in expired[c]
      BY <2>2, <3>2
    <3> QED
      BY <2>3, <3>1, <3>2
         DEF Poll, Cancel, TrySend, SendGranted, Park, NotifyOne, SendClosed, TimeoutParked,
             TimeoutSent, Ready, NavigationNext, GiveUp, FinishSent, Outcomes
  <2>4. CASE \/ \E c \in Callers, q \in Parts : DelayExpires(c, q)
             \/ \E c \in Callers, how \in {"answered", "dropped"} : Answer(c, how)
             \/ Loop \/ OtherEvent
             \/ \E p \in Pages : Close(p)
             \/ UNCHANGED vars
    <3>1. outcome' = outcome
      BY <2>4 DEF DelayExpires, Answer, Loop, OtherEvent, Notified, NextRound, Receive,
                  Drained, Wait, Close, vars, futureVars
    <3> QED BY <2>1, <3>1
  <2> QED BY <2>3, <2>4 DEF Next
<1> QED BY <1>1, ChannelInv, ChannelBounded, PTL DEF Spec, NavigationFullTimeout
=============================================================================
