-------------------------- MODULE MCParallelRouter --------------------------
(* ParallelRouter.tla with one target whose page is there and one that is  *)
(* still to be created.  The router serves them alike and they share only  *)
(* the channels, so a behaviour uses one of them (its slice):              *)
(*   create  one caller may ask for the new target's page,                 *)
(*   attach  one caller may attach a second session to the new target,     *)
(*   load    one caller uses the page, with more events of Chrome,         *)
(*   share   two callers use the page, without events.                     *)
EXTENDS ParallelRouter

VARIABLE slice

First(S) == CHOOSE x \in S : TRUE

MCInit ==
  /\ Init /\ slice \in {"create", "attach", "load", "share"}
  /\ \A t \in Ready : named[t] = First(Sessions)

(* Nothing is asked of or told to the task of t until the router is gone.  *)
Idle(t) ==
  /\ running' => inbox'[t] = <<>>
  /\ \A c \in Callers : asked'[c].at # t
  /\ \A s \in Sessions : link'[s].at = t => link[s].at = t

Uncreated(t) ==
  /\ <<"created", t>> \notin facts'
  /\ \A c \in Callers : made'[c] # t

(* Callers ask one after the other, and Chrome takes its sessions in order: *)
(* they are all alike.                                                     *)
InOrder ==
  /\ \A c \in Callers \ {First(Callers)} :
       asked'[c].kind # "none" => asked[First(Callers)].kind # "none"
  /\ \A s \in Sessions : link'[s] # link[s] /\ link[s].st = "free" =>
       s = First({r \in Sessions : link[r].st = "free"})

Alone == \A c \in Callers \ {First(Callers)} : asked'[c].kind = "none"

MCNext ==
  /\ Next /\ InOrder /\ UNCHANGED slice
  /\ \/ /\ slice \in {"create", "attach"}
        /\ Alone /\ \A t \in Ready : Idle(t)
     \/ /\ slice \in {"load", "share"}
        /\ \A t \in Targets \ Ready : Uncreated(t)
  /\ slice = "create" => events' <= 1 /\ \A c \in Callers : asked'[c].kind # "browser"
  /\ slice = "attach" =>
       running' /\ events' = 0 /\ \A c \in Callers : asked'[c].kind # "create"
  /\ slice = "load" => Alone
  /\ slice = "share" =>
       events' = 0 /\ \A c \in Callers : asked'[c].kind \notin BrowserKinds

MCSpec == MCInit /\ [][MCNext]_<<vars, slice>> /\ Fairness
=============================================================================
