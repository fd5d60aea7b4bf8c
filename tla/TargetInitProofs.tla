-------------------------- MODULE TargetInitProofs --------------------------
(***************************************************************************)
(* The initialization of a target, for any number of users, any length of  *)
(* the chains, any budget of waiters and any chains left out.              *)
(*                                                                         *)
(* The answers that count are found by their method alone.  What makes the *)
(* one command of the current chain the only one they can mean is that no  *)
(* call on the wire is from a Target to come (NoFutureCall), that a chain  *)
(* starts with no call of its Target on the wire, and that the number of   *)
(* commands issued is that of the command awaited.                         *)
(***************************************************************************)
EXTENDS TargetInit, TLAPS

NoFutureCall == \A c \in wire : c.target <= target

LEMMA ChainIsPhase == \A i \in 1..5 : Chains[i] \in Phases
BY DEF Phases

(* The chain after the one of phase p, if there is one.                    *)
LEMMA FollowingIndex ==
  ASSUME NEW p
  PROVE  Following(p) = "initialized" \/ \E i \in 1..5 : Following(p) = Chains[i]
<1> DEFINE later == {i \in 1..5 : /\ \E j \in 1..(i - 1) : Chains[j] = p
                                  /\ Chains[i] \notin Skipped}
<1>1. CASE later = {}
  BY <1>1 DEF Following
<1>2. CASE later # {}
  <2>1. \E i \in later : \A j \in later : i <= j
    <3>1. later \subseteq 1..5
      OBVIOUS
    <3>2. CASE 1 \in later
      BY <3>1, <3>2
    <3>3. CASE 1 \notin later /\ 2 \in later
      BY <3>1, <3>3
    <3>4. CASE 1 \notin later /\ 2 \notin later /\ 3 \in later
      BY <3>1, <3>4
    <3>5. CASE 1 \notin later /\ 2 \notin later /\ 3 \notin later /\ 4 \in later
      BY <3>1, <3>5
    <3>6. CASE 1 \notin later /\ 2 \notin later /\ 3 \notin later /\ 4 \notin later
      <4> HIDE DEF later
      <4>1. \A i \in later : i = 5
        <5>1. \A i \in 1..5 : i \in {1, 2, 3, 4, 5}
          OBVIOUS
        <5> QED BY <3>1, <3>6, <5>1
      <4>2. \A i \in later : \A j \in later : i <= j
        BY <4>1
      <4> QED BY <4>2, <1>2
    <3> QED BY <3>2, <3>3, <3>4, <3>5, <3>6
  <2>2. (CHOOSE i \in later : \A j \in later : i <= j) \in 1..5
    BY <2>1
  <2> QED BY <1>2, <2>2 DEF Following
<1> QED BY <1>1, <1>2

LEMMA FollowingType == \A p : Following(p) \in Phases /\ Following(p) # "attach"
<1> SUFFICES ASSUME NEW p PROVE Following(p) \in Phases /\ Following(p) # "attach"
  OBVIOUS
<1>1. \A i \in 1..5 : Chains[i] # "attach"
  BY DEF Chains
<1> QED BY <1>1, FollowingIndex, ChainIsPhase DEF Phases

LEMMA CallType ==
  ASSUME TypeOK, NEW p \in Phases, NEW n \in 0..ChainLength
  PROVE  Call(p, n) \in Calls
BY DEF TypeOK, Call, Calls

LEMMA MoveType ==
  ASSUME NEW places \in [Users -> Places], NEW U, NEW place \in Places
  PROVE  Move(places, U, place) \in [Users -> Places]
BY DEF Move

LEMMA ReadType ==
  ASSUME NEW places \in [Users -> Places]
  PROVE  Read(places) \in [Users -> Places]
BY DEF Read, Places

LEMMA InitType == Init => TypeOK
<1> SUFFICES ASSUME Init PROVE TypeOK
  OBVIOUS
<1>1. target \in 1..MaxTargets /\ sent \in 0..ChainLength /\ attaches \in 0..MaxAttaches
  BY BoundsAssumption DEF Init
<1>2. message \in [Users -> Places]
  BY DEF Init, Places
<1>3. /\ session \in BOOLEAN /\ misled \in BOOLEAN
      /\ page \in BOOLEAN /\ loaded \in BOOLEAN /\ woken \in BOOLEAN
  BY DEF Init
<1>4. /\ driver \in {"poll", "run"} /\ phase \in Phases /\ waiting \in {"no", "yes", "late"}
      /\ wire \subseteq Calls /\ initiator \in {"none", "waiting", "answered"}
  BY DEF Init, Phases
<1> QED BY <1>1, <1>2, <1>3, <1>4 DEF TypeOK

LEMMA PollType ==
  ASSUME TypeOK, Poll
  PROVE  TypeOK'
<1> USE DEF TypeOK, chainVars, linkVars
<1>1. CASE PollAttach
  <2>1. Call("attach", 0) \in Calls /\ 0 \in 0..ChainLength
    BY CallType, BoundsAssumption DEF Phases
  <2> QED BY <1>1, <2>1 DEF PollAttach, Phases, Chains
<1>2. CASE PollCommand
  <2>1. sent + 1 \in 0..ChainLength
    BY <1>2, BoundsAssumption DEF PollCommand, NextCommand
  <2>2. Call(phase, sent + 1) \in Calls
    BY <2>1, CallType
  <2> QED BY <1>2, <2>1, <2>2 DEF PollCommand, NextCommand
<1>3. CASE PollNextChain
  <2>1. Following(phase) \in Phases /\ 0 \in 0..ChainLength
    BY FollowingType, BoundsAssumption
  <2> QED BY <1>3, <2>1 DEF PollNextChain
<1>4. CASE PollDeadline
  <2>1. 0 \in 0..ChainLength
    BY BoundsAssumption
  <2> QED BY <1>4, <2>1 DEF PollDeadline, InitializationFailed, Phases
<1>5. CASE PollIdle
  BY <1>5 DEF PollIdle
<1>6. CASE PollInitialized
  <2>1. message' \in [Users -> Places]
    <3>1. PICK fired \in Fired :
            \/ \E u \in At("queued") : message' = Move(Move(message, fired, "user"), {u}, "user")
            \/ message' = Read(Move(message, fired, "user"))
            \/ message' = Move(message, fired, "user")
      BY <1>6 DEF PollInitialized
    <3>2. Move(message, fired, "user") \in [Users -> Places]
      BY MoveType DEF Places
    <3>3. /\ Read(Move(message, fired, "user")) \in [Users -> Places]
          /\ \A u : Move(Move(message, fired, "user"), {u}, "user") \in [Users -> Places]
      BY <3>2, MoveType, ReadType DEF Places
    <3> QED BY <3>1, <3>2, <3>3
  <2>2. woken' \in BOOLEAN
    BY <1>6 DEF PollInitialized, Rewake
  <2>3. initiator' \in {"none", "waiting", "answered"} /\ page' \in BOOLEAN
    BY <1>6 DEF PollInitialized, PageDelivered
  <2> QED BY <1>6, <2>1, <2>2, <2>3 DEF PollInitialized
<1> QED BY <1>1, <1>2, <1>3, <1>4, <1>5, <1>6 DEF Poll

LEMMA DroppedType ==
  ASSUME TypeOK, DroppedWithTarget
  PROVE  /\ message' \in [Users -> Places]
         /\ initiator' \in {"none", "waiting", "answered"}
         /\ session' \in BOOLEAN /\ page' \in BOOLEAN /\ loaded' \in BOOLEAN
         /\ sent' \in 0..ChainLength /\ waiting' \in {"no", "yes", "late"}
<1>1. message' \in [Users -> Places]
  BY DEF DroppedWithTarget, Places
<1>2. sent' \in 0..ChainLength
  BY BoundsAssumption DEF DroppedWithTarget
<1> QED BY <1>1, <1>2 DEF TypeOK, DroppedWithTarget

LEMMA OtherType ==
  ASSUME TypeOK,
         \/ ReadPage \/ \E c \in wire : Answer(c)
         \/ AttachedToTarget \/ DetachedFromTarget \/ FrameEvent \/ SetInitiator
         \/ GetPage \/ Replaced \/ Removed
         \/ \E u \in Users : Send(u) \/ GiveUp(u)
         \/ DeadlinePasses \/ Tick \/ UNCHANGED vars
  PROVE  TypeOK'
<1> USE DEF TypeOK, chainVars, linkVars, Wake
<1>1. CASE ReadPage
  <2>1. message' \in [Users -> Places]
    BY <1>1, MoveType, ReadType DEF ReadPage, Places
  <2> QED BY <1>1, <2>1 DEF ReadPage
<1>2. ASSUME NEW c \in wire, Answer(c) PROVE TypeOK'
  <2>1. session' \in BOOLEAN /\ attaches' \in 0..MaxAttaches
    <3>1. CASE attaches < MaxAttaches /\ session' = TRUE /\ attaches' = attaches + 1
      BY <3>1, BoundsAssumption
    <3>2. CASE UNCHANGED linkVars
      BY <3>2
    <3> QED BY <1>2, <3>1, <3>2 DEF Answer
  <2>2. misled' \in BOOLEAN /\ waiting' \in {"no", "yes", "late"} /\ woken' \in BOOLEAN
    BY <1>2 DEF Answer, Matches
  <2> QED BY <1>2, <2>1, <2>2 DEF Answer
<1>3. CASE AttachedToTarget
  BY <1>3, BoundsAssumption DEF AttachedToTarget
<1>4. CASE DetachedFromTarget \/ FrameEvent \/ SetInitiator \/ GetPage
  BY <1>4 DEF DetachedFromTarget, FrameEvent, SetInitiator, GetPage
<1>5. CASE Replaced
  <2>1. target' \in 1..MaxTargets
    BY <1>5, BoundsAssumption DEF Replaced
  <2> QED BY <1>5, <2>1, DroppedType DEF Replaced, Phases
<1>6. CASE Removed
  BY <1>6, DroppedType DEF Removed, Phases
<1>7. ASSUME NEW u \in Users, Send(u) \/ GiveUp(u) PROVE TypeOK'
  <2>1. message' \in [Users -> Places]
    BY <1>7 DEF Send, GiveUp, Places
  <2>2. woken' \in BOOLEAN
    BY <1>7 DEF Send, GiveUp
  <2> QED BY <1>7, <2>1, <2>2 DEF Send, GiveUp
<1>8. CASE DeadlinePasses \/ Tick
  BY <1>8 DEF DeadlinePasses, Tick
<1>9. CASE UNCHANGED vars
  BY <1>9 DEF vars
<1> QED BY <1>1, <1>2, <1>3, <1>4, <1>5, <1>6, <1>7, <1>8, <1>9

LEMMA NextType == TypeOK /\ [Next]_vars => TypeOK'
BY PollType, OtherType DEF Next

(* Every variable keeps its type, and no chain issues more commands than   *)
(* it has.                                                                 *)
THEOREM InitTypeCorrect == Spec => []TypeOK
BY InitType, NextType, PTL DEF Spec

-----------------------------------------------------------------------------
(* One command at a time.                                                  *)

(* The commands of the Target that are on the wire.                        *)
Current(c) == c.target = target /\ c.phase # "attach"

(* What OneCommandAtATime says, also of a target that is gone: nothing of  *)
(* it is on the wire.                                                      *)
Single ==
  ~misled /\ phase # "closing" =>
    \A c \in wire : Current(c) =>
      phase # "gone" /\ waiting # "no" /\ c.phase = phase /\ c.number = sent

OneInv == TypeOK /\ NoFutureCall /\ Single

LEMMA OneInit == Init => OneInv
BY InitType DEF Init, OneInv, NoFutureCall, Single

LEMMA OnePoll ==
  ASSUME OneInv, Poll
  PROVE  NoFutureCall' /\ Single'
<1> USE DEF OneInv, NoFutureCall, Single, Current, chainVars, linkVars
<1>0. target \in Nat
  BY DEF TypeOK
<1>1. CASE PollAttach
  <2>1. \A c \in wire : ~(~misled /\ Current(c))
    BY <1>1 DEF PollAttach
  <2> QED BY <1>0, <1>1, <2>1 DEF PollAttach, Call
<1>2. CASE PollCommand
  <2>1. \A c \in wire : ~(~misled /\ phase # "closing" /\ Current(c))
    BY <1>2 DEF PollCommand, NextCommand
  <2> QED BY <1>0, <1>2, <2>1 DEF PollCommand, NextCommand, ChainPolled, Call, Chains
<1>3. CASE PollNextChain
  <2>1. \A c \in wire : ~(~misled /\ phase # "closing" /\ Current(c))
    BY <1>3 DEF PollNextChain
  <2>2. phase # "closing"
    BY <1>3 DEF PollNextChain, ChainPolled, Chains
  <2> QED BY <1>3, <2>1, <2>2 DEF PollNextChain
<1>4. CASE PollDeadline
  BY <1>4 DEF PollDeadline, InitializationFailed
<1>5. CASE PollIdle \/ PollInitialized
  BY <1>5 DEF PollIdle, PollInitialized
<1> QED BY <1>1, <1>2, <1>3, <1>4, <1>5 DEF Poll

(* The answer to a command of this Target is the one that was awaited, and *)
(* no other command of it is on the wire.                                  *)
LEMMA OneAnswer ==
  ASSUME OneInv, NEW c \in wire, Answer(c)
  PROVE  NoFutureCall' /\ Single'
<1>1. /\ wire' = wire \ {c} /\ UNCHANGED <<target, phase, sent>>
      /\ waiting' = IF Matches(c) THEN "no" ELSE waiting
      /\ misled' = (misled \/ (Matches(c) /\ c.target # target))
  BY DEF Answer
<1>2. NoFutureCall'
  BY <1>1 DEF OneInv, NoFutureCall
<1>3. ASSUME ~misled', phase # "closing", NEW d \in wire \ {c}, Current(d)
      PROVE  phase # "gone" /\ waiting' # "no" /\ d.phase = phase /\ d.number = sent
  <2>1. phase # "gone" /\ waiting # "no" /\ d.phase = phase /\ d.number = sent
    BY <1>1, <1>3 DEF OneInv, Single
  <2>2. ~Matches(c)
    <3> SUFFICES ASSUME Matches(c) PROVE FALSE
      OBVIOUS
    <3>1. c.target = target /\ c.phase = phase /\ c.number = sent
      BY <1>1, <1>3 DEF Matches
    <3>2. c \in Calls /\ d \in Calls
      BY DEF OneInv, TypeOK
    <3>3. d = c
      BY <3>1, <3>2, <2>1, <1>3 DEF Calls, Current
    <3> QED BY <3>3
  <2> QED BY <1>1, <2>1, <2>2
<1>4. Single'
  BY <1>1, <1>3 DEF Single, Current
<1> QED BY <1>2, <1>4

LEMMA OneNext == OneInv /\ [Next]_vars => OneInv'
<1> SUFFICES ASSUME OneInv, [Next]_vars PROVE NoFutureCall' /\ Single'
  BY NextType DEF OneInv
<1> USE DEF OneInv, NoFutureCall, Single, Current, chainVars, linkVars
<1>0. target \in Nat
  BY DEF TypeOK
<1>1. CASE Poll
  BY <1>1, OnePoll
<1>2. CASE \E c \in wire : Answer(c)
  BY <1>2, OneAnswer
<1>3. CASE Replaced
  <2>1. \A c \in wire : c.target \in Nat
    BY DEF TypeOK, Calls
  <2>2. target' = target + 1 /\ wire' = wire /\ misled' = misled
    BY <1>3 DEF Replaced
  <2>3. \A c \in wire' : c.target < target'
    BY <1>0, <2>1, <2>2
  <2> QED BY <1>0, <2>1, <2>2, <2>3
<1>4. CASE Removed
  BY <1>4 DEF Removed
<1>5. CASE DeadlinePasses
  BY <1>5 DEF DeadlinePasses
<1>6. CASE \/ ReadPage
           \/ AttachedToTarget \/ DetachedFromTarget \/ FrameEvent \/ SetInitiator
           \/ GetPage \/ Tick
           \/ \E u \in Users : Send(u) \/ GiveUp(u)
  BY <1>6 DEF ReadPage, AttachedToTarget, DetachedFromTarget, FrameEvent, SetInitiator,
              GetPage, Tick, Send, GiveUp
<1>7. CASE UNCHANGED vars
  BY <1>7 DEF vars
<1> QED BY <1>1, <1>2, <1>3, <1>4, <1>5, <1>6, <1>7 DEF Next

(* However answers, deadlines and replacements of the Target interleave, a *)
(* chain has one command on the wire at most, and none is when the target  *)
(* counts as initialized; unless an answer meant for an earlier Target was *)
(* taken for its own.                                                      *)
THEOREM CommandsOneByOne == Spec => []OneCommandAtATime
<1>1. OneInv => OneCommandAtATime
  BY DEF OneInv, Single, Current, OneCommandAtATime
<1> QED BY <1>1, OneInit, OneNext, PTL DEF Spec

-----------------------------------------------------------------------------
(* A target with work on its hands is woken.                               *)

(* The rounds of an initialized target leave nothing behind unnoticed.     *)
LEMMA StallsPoll ==
  ASSUME TypeOK, NothingStalls, PollInitialized
  PROVE  NothingStalls'
<1>1. PICK fired \in Fired :
        \/ \E u \in At("queued") : UNCHANGED woken
        \/ /\ At("queued") = {}
           /\ message' = IF driver = "poll" THEN Read(Move(message, fired, "user"))
                         ELSE Move(message, fired, "user")
           /\ woken' = \/ Rewake(fired)
                       \/ \E u \in At("channel") : driver = "run" \/ u \in Commanders
  BY DEF PollInitialized
<1>2. CASE UNCHANGED woken
  BY <1>2 DEF PollInitialized, NothingStalls
<1>3. ASSUME ~woken',
             At("queued") = {},
             message' = IF driver = "poll" THEN Read(Move(message, fired, "user"))
                        ELSE Move(message, fired, "user"),
             ~Rewake(fired),
             \A u \in At("channel") : driver # "run" /\ u \notin Commanders
      PROVE  NothingStalls'
  <2>1. fired \subseteq At("waiter") /\ (~loaded => fired = {})
    BY DEF Fired
  <2>2. loaded => fired = At("waiter")
    BY <2>1, <1>3 DEF Rewake
  <2>3. ~PageDelivered'
    BY DEF PollInitialized, PageDelivered, linkVars
  <2>4. message \in [Users -> Places] /\ Commanders \subseteq Users
    BY CommandersAssumption DEF TypeOK
  <2>5. \A u \in Users : Move(message, fired, "user")[u] =
                             IF u \in fired THEN "user" ELSE message[u]
    BY DEF Move
  <2>6. \A u \in Users : message'[u] \notin {"channel", "queued"} /\ (loaded => message'[u] # "waiter")
    <3> SUFFICES ASSUME NEW u \in Users
                 PROVE  message'[u] \notin {"channel", "queued"} /\ (loaded => message'[u] # "waiter")
      OBVIOUS
    <3>1. message[u] # "queued" /\ (message[u] = "channel" => driver # "run" /\ u \notin Commanders)
      BY <1>3 DEF At
    <3>2. loaded /\ message[u] = "waiter" => u \in fired
      BY <2>2 DEF At
    <3>3. CASE driver = "poll"
      <4>1. message'[u] = IF Move(message, fired, "user")[u] # "channel"
                          THEN Move(message, fired, "user")[u]
                          ELSE IF u \in Commanders THEN "queued"
                          ELSE IF loaded THEN "user" ELSE "waiter"
        BY <1>3, <3>3 DEF Read
      <4> QED BY <4>1, <3>1, <3>2, <2>5
    <3>4. CASE driver # "poll"
      <4>1. message'[u] = Move(message, fired, "user")[u] /\ driver = "run"
        BY <1>3, <3>4 DEF TypeOK
      <4> QED BY <4>1, <3>1, <3>2, <2>5
    <3> QED BY <3>3, <3>4
  <2>7. loaded' = loaded
    BY DEF PollInitialized
  <2> QED BY <2>3, <2>6, <2>7 DEF NothingStalls, At
<1> QED BY <1>1, <1>2, <1>3 DEF NothingStalls

LEMMA StallsNext == TypeOK /\ NothingStalls /\ [Next]_vars => NothingStalls'
<1> SUFFICES ASSUME TypeOK, NothingStalls, [Next]_vars, phase' = "initialized", ~woken'
             PROVE  NothingStalls'
  BY DEF NothingStalls
<1> USE DEF chainVars, linkVars
<1>1. CASE PollAttach \/ PollCommand \/ PollNextChain \/ PollDeadline
  BY <1>1 DEF PollAttach, PollCommand, PollNextChain, PollDeadline, ChainPolled,
              InitializationFailed
<1>2. CASE PollIdle
  BY <1>2 DEF PollIdle, Chains, FrameChains
<1>3. CASE PollInitialized
  BY <1>3, StallsPoll
<1>4. CASE ReadPage
  BY <1>4 DEF ReadPage
<1>9. ASSUME NEW u \in Users, Send(u) PROVE NothingStalls'
  BY <1>9 DEF Send
<1>5. CASE \/ \E c \in wire : Answer(c)
           \/ AttachedToTarget \/ DetachedFromTarget \/ FrameEvent \/ SetInitiator
           \/ GetPage \/ Tick
  BY <1>5 DEF Answer, AttachedToTarget, DetachedFromTarget, FrameEvent, SetInitiator,
              GetPage, Tick, Wake
<1>6. CASE Replaced \/ Removed
  BY <1>6 DEF Replaced, Removed
<1>7. ASSUME NEW u \in Users, GiveUp(u) PROVE NothingStalls'
  <2>1. /\ At("channel")' \cup At("queued")' \subseteq At("channel") \cup At("queued")
        /\ At("waiter")' \subseteq At("waiter")
    BY <1>7 DEF GiveUp, At, TypeOK
  <2>2. PageDelivered' = PageDelivered /\ UNCHANGED <<phase, loaded, woken>>
    BY <1>7 DEF GiveUp, PageDelivered
  <2> QED BY <2>1, <2>2 DEF NothingStalls
<1>8. CASE DeadlinePasses \/ UNCHANGED vars
  <2>1. UNCHANGED <<message, phase, loaded, woken, initiator, page, session>>
    BY <1>8 DEF DeadlinePasses, vars
  <2>2. PageDelivered' = PageDelivered /\ \A place : At(place)' = At(place)
    BY <2>1 DEF PageDelivered, At
  <2> QED BY <2>1, <2>2 DEF NothingStalls
<1> QED BY <1>1, <1>2, <1>3, <1>4, <1>5, <1>6, <1>7, <1>8, <1>9 DEF Next, Poll

(* An initialized target never keeps a command, a waiter of a loaded page  *)
(* or an initiator that could have its page without being polled again,    *)
(* whatever the budget of waiters: the last round woke the handler, or     *)
(* what brought the work did.                                              *)
THEOREM WorkIsPolled == Spec => []NothingStalls
<1>1. Init => NothingStalls
  BY DEF Init, NothingStalls
<1> QED BY <1>1, InitType, NextType, StallsNext, PTL DEF Spec
=============================================================================
