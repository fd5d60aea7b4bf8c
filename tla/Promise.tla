------------------------------ MODULE Promise ------------------------------
(***************************************************************************)
(* What the handle side of the crate is promised about the one-shot        *)
(* channel it sends along with every request: the request is resolved at   *)
(* most once, an answer is never taken back or changed, and only with one  *)
(* of the outcomes its kind can have.  It says nothing of call ids,        *)
(* targets or sessions: Handler.tla implements it.                         *)
(***************************************************************************)
EXTENDS FiniteSets

CONSTANT Callers      \* one-shot senders, each used for one request

VARIABLES
  asked,              \* what each caller requested, "idle" before it did
  reply               \* how the one-shot was resolved, "none" while it is not

vars == <<asked, reply>>

Commands == {"Command", "PageCommand"}
Requests == Commands \union {"Navigate", "CreatePage", "FetchTargets", "CloseBrowser"}
Replies  == {"ok", "error", "not_found", "timeout", "crashed", "canceled"}

(* The outcomes a request of kind k can have: the Ok value, a CdpError of  *)
(* the browser's answer, NotFound, Timeout, the crash error, or the        *)
(* RecvError of a sender that was dropped without an answer.               *)
Outcomes(k) ==
  {"ok", "timeout", "canceled"}
    \union (IF k \in Commands THEN {"crashed"} ELSE {})
    \union (IF k \in {"Navigate", "CreatePage", "FetchTargets"} THEN {"error"} ELSE {})
    \union (IF k = "CreatePage" THEN {"not_found"} ELSE {})

Waiting(c) == asked[c] # "idle" /\ reply[c] = "none"

TypeOK ==
  /\ asked \in [Callers -> Requests \union {"idle"}]
  /\ reply \in [Callers -> Replies \union {"none"}]

Init ==
  /\ asked = [c \in Callers |-> "idle"]
  /\ reply = [c \in Callers |-> "none"]

-----------------------------------------------------------------------------

(* A new request; it may be refused on the spot.                           *)
Ask(c, k) ==
  /\ asked[c] = "idle"
  /\ asked' = [asked EXCEPT ![c] = k]
  /\ \/ UNCHANGED reply
     \/ \E r \in Outcomes(k) : reply' = [reply EXCEPT ![c] = r]

(* Any number of waiting requests is resolved in one step (an eviction, a  *)
(* crash and the shutdown resolve several); the others keep what they had. *)
Resolve ==
  /\ UNCHANGED asked
  /\ reply' \in [Callers -> Replies \union {"none"}]
  /\ \A c \in Callers :
       reply'[c] # reply[c] => Waiting(c) /\ reply'[c] \in Outcomes(asked[c])

Next == (\E c \in Callers, k \in Requests : Ask(c, k)) \/ Resolve

Spec == Init /\ [][Next]_vars

=============================================================================
