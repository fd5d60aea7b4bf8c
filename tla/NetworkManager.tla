--------------------------- MODULE NetworkManager ---------------------------
(***************************************************************************)
(* The NetworkManager of one target: it follows every request from         *)
(* requestWillBeSent over its redirects to its end, and answers the pauses *)
(* and authentication challenges of Fetch.  The two events that announce a *)
(* hop of a request come in either order and wait for each other in two    *)
(* buffers; an eviction tick clears what waits too long, where the handler *)
(* has one.  The decision whether a paused request is continued, fulfilled *)
(* or failed is left out: each pause gets one answer from it.              *)
(***************************************************************************)
EXTENDS Integers, FiniteSets

CONSTANTS
  Requests,
  Documents,     (* Requests for a document.                               *)
  DataUrls,      (* Requests for a data: url, which Fetch never pauses.    *)
  MaxHops,       (* Bound on the redirects of a request.                   *)
  Caps,          (* Values of max_redirects.                               *)
  Budgets,       (* Values of max_bytes_allowed.                           *)
  Sizes,         (* encoded_data_length of a response.                     *)
  Lengths,       (* content-length of a response, None without the header. *)
  Serial,        (* The handler is the serial one, which has the tick; the *)
                 (* tasks of run_parallel() never call it.                 *)
  None

Hops == 0..MaxHops

ASSUME RequestsAssumption == Documents \subseteq Requests /\ DataUrls \subseteq Requests
ASSUME BoundsAssumption ==
  /\ MaxHops \in Nat /\ Serial \in BOOLEAN
  /\ Caps \subseteq Nat \cup {None} /\ Budgets \subseteq Nat \cup {None}
  /\ Sizes \subseteq Nat /\ Lengths \subseteq Nat \cup {None}

(* An HttpRequest: its interception id, which is the hop it was given for, *)
(* and the length of its redirect chain.                                   *)
HttpRequest == [id : Hops \cup {None}, chain : Hops]

ASSUME NoneAssumption == None \notin Nat \cup HttpRequest

Tables == {"willBeSent", "paused", "requests"}

VARIABLES
  cap,         (* max_redirects.                                           *)
  user,        (* user_request_interception_enabled.                       *)
  protocol,    (* protocol_request_interception_enabled.                   *)
  credentials, (* Credentials are set.                                     *)
  blockAll,    (* block_all.                                               *)
  bytes,       (* max_bytes_allowed.                                       *)
  willBeSent,  (* requests_will_be_sent: the hop that waits for its pause. *)
  paused,      (* request_id_to_interception_id: the hop that was paused.  *)
  requests,
  stopped,     (* Requests for which Page.stopLoading was queued.          *)
  attempted,   (* attempted_authentications.                               *)
  old,         (* Entries older than the limit of their table.             *)
  open,        (* Requests reported as started whose verdict is due.       *)
  twice,       (* Requests with a verdict that was not due.                *)
  reported,    (* The sum of NetworkEvent::BytesConsumed.                  *)
  budget,      (* max_bytes_allowed of the configuration.                  *)
  fetch,       (* Fetch.enable was sent by the manager.                    *)
  listening,   (* A listener of requestPaused was added.                   *)
  hop,         (* Chrome: the hop each request is at,                      *)
  told,        (* whether its requestWillBeSent was sent,                  *)
  held,        (* whether it is paused, failed or has its response,        *)
  over,        (* and whether it has ended.                                *)
  given,       (* Requests whose hop got the credentials.                  *)
  forgotten    (* Those whose attempt the eviction tick has dropped.       *)

modeVars   == <<user, protocol, credentials, fetch, listening>>
bufferVars == <<willBeSent, paused>>
trackVars  == <<requests, stopped>>
reportVars == <<open, twice>>
byteVars   == <<bytes, reported, blockAll>>
authVars   == <<attempted, given, forgotten>>
chromeVars == <<hop, told, held, over>>
vars == <<cap, budget, modeVars, bufferVars, trackVars, reportVars, byteVars, authVars,
          chromeVars, old>>

TypeOK ==
  /\ cap \in Caps /\ budget \in Budgets
  /\ {user, protocol, credentials, blockAll, fetch, listening} \subseteq BOOLEAN
  /\ bytes \in Nat \cup {None} /\ reported \in Nat
  /\ willBeSent \in [Requests -> Hops \cup {None}]
  /\ paused \in [Requests -> Hops \cup {None}]
  /\ requests \in [Requests -> HttpRequest \cup {None}]
  /\ stopped \subseteq Requests /\ old \subseteq Tables \X Requests
  /\ attempted \subseteq Requests \X Hops
  /\ open \subseteq Requests /\ twice \subseteq Requests
  /\ hop \in [Requests -> Hops]
  /\ told \subseteq Requests /\ over \subseteq Requests
  /\ held \in [Requests -> {"free", "held", "released", "failed", "answered"}]
  /\ given \subseteq Requests /\ forgotten \subseteq given

(* Target::new with the configuration; set_request_interception enables    *)
(* Fetch and leaves `protocol' as it is.                                   *)
Init ==
  /\ cap \in Caps /\ budget \in Budgets /\ bytes = budget
  /\ user \in BOOLEAN /\ fetch = user
  /\ protocol = FALSE /\ credentials = FALSE /\ blockAll = FALSE /\ listening = FALSE
  /\ willBeSent = [r \in Requests |-> None] /\ paused = [r \in Requests |-> None]
  /\ requests = [r \in Requests |-> None] /\ stopped = {} /\ old = {}
  /\ attempted = {} /\ given = {} /\ forgotten = {}
  /\ open = {} /\ twice = {} /\ reported = 0
  /\ hop = [r \in Requests |-> 0] /\ told = {} /\ over = {}
  /\ held = [r \in Requests |-> "free"]

-----------------------------------------------------------------------------
(* The age of the entries *)

(* What a table has of a request. *)
Entry(table, r) == CASE table = "willBeSent" -> willBeSent[r]
                     [] table = "paused"     -> paused[r]
                     [] table = "requests"   -> requests[r]

(* An entry that is removed or written anew is not old any more.           *)
StillOld == {e \in old : Entry(e[1], e[2])' = Entry(e[1], e[2])}

-----------------------------------------------------------------------------
(* What the page asks of the manager *)

(* A faulty Authenticate: the flag is set before the protocol is updated.  *)
AuthenticateFlagFirst ==
  /\ credentials' = TRUE /\ protocol' = TRUE
  /\ UNCHANGED <<user, fetch, listening>>

(* authenticate: update_protocol_request_interception enables Fetch unless *)
(* `protocol' says that it is.                                             *)
Authenticate ==
  /\ credentials' = TRUE /\ protocol' = TRUE
  /\ fetch' = (fetch \/ ~protocol)
  /\ UNCHANGED <<user, listening>>

(* TargetMessage::AddEventListener for Fetch.requestPaused. *)
AddListener ==
  /\ protocol' = TRUE /\ listening' = TRUE
  /\ UNCHANGED <<user, credentials, fetch>>

(* TargetMessage::EnableInterception(enabled). *)
EnableInterception(enabled) ==
  /\ user' = ~enabled /\ UNCHANGED <<protocol, credentials, fetch, listening>>

SetMode ==
  /\ Authenticate \/ AddListener \/ \E enabled \in BOOLEAN : EnableInterception(enabled)
  /\ UNCHANGED <<cap, budget, bufferVars, trackVars, reportVars, byteVars, authVars, chromeVars>>
  /\ old' = StillOld

(* BlockNetwork, and Network.setBlockedURLs with a pattern for all. *)
SetBlockAll(block) ==
  /\ blockAll' = block
  /\ UNCHANGED <<cap, budget, modeVars, bufferVars, trackVars, reportVars, bytes, reported,
                 authVars, chromeVars>>
  /\ old' = StillOld

-----------------------------------------------------------------------------
(* Requests *)

Id(r) == <<r, requests[r].id>>

(* The chain of hop h: a redirect takes the request of the hop before it,  *)
(* if that one is tracked.                                                 *)
Chain(r, h) == IF h > 0 /\ requests[r] # None THEN requests[r].chain + 1 ELSE 0

(* RequestFinished or RequestFailed is reported. *)
Judged(r) ==
  /\ open' = open \ {r}
  /\ twice' = twice \cup ({r} \ open)

(* A faulty TooMany: the last redirect of the cap is one too many.         *)
TooManyEarly(r, h) == cap # None /\ r \in Documents /\ h > 0 /\ Chain(r, h) >= cap

TooMany(r, h) == cap # None /\ r \in Documents /\ Chain(r, h) > cap

(* on_request for hop h of r with interception id i: beyond the cap it     *)
(* fails the request and queues Page.stopLoading, and starts the chain of  *)
(* a later hop, which may be on its way, from nothing.                     *)
OnRequest(r, h, i) ==
  /\ attempted' = IF h > 0 /\ requests[r] # None THEN attempted \ {Id(r)} ELSE attempted
  /\ \/ /\ TooMany(r, h)
        /\ requests' = [requests EXCEPT ![r] = None]
        /\ stopped' = stopped \cup {r}
        /\ Judged(r)
     \/ /\ ~TooMany(r, h)
        /\ requests' = [requests EXCEPT ![r] = [id |-> i, chain |-> Chain(r, h)]]
        /\ open' = open \cup {r} /\ UNCHANGED <<twice, stopped>>

(* A faulty Announced: the interception id that waits is not looked up.    *)
AnnouncedAlone(r, h) ==
  IF protocol /\ r \notin DataUrls
  THEN /\ willBeSent' = [willBeSent EXCEPT ![r] = h]
       /\ UNCHANGED <<paused, trackVars, reportVars, attempted>>
  ELSE OnRequest(r, h, None) /\ UNCHANGED bufferVars

(* on_request_will_be_sent. *)
Announced(r, h) ==
  \/ /\ protocol /\ r \notin DataUrls /\ paused[r] # None
     /\ OnRequest(r, h, paused[r])
     /\ paused' = [paused EXCEPT ![r] = None] /\ UNCHANGED willBeSent
  \/ /\ protocol /\ r \notin DataUrls /\ paused[r] = None
     /\ willBeSent' = [willBeSent EXCEPT ![r] = h]
     /\ UNCHANGED <<paused, trackVars, reportVars, attempted>>
  \/ /\ ~protocol \/ r \in DataUrls
     /\ OnRequest(r, h, None) /\ UNCHANGED bufferVars

(* Chrome announces the hop, once; the event may be lost. *)
WillBeSent(r) ==
  /\ r \notin over \cup told
  /\ told' = told \cup {r}
  /\ \/ Announced(r, hop[r])
     \/ UNCHANGED <<bufferVars, trackVars, reportVars, attempted>>
  /\ UNCHANGED <<cap, budget, modeVars, byteVars, given, forgotten, hop, held, over>>
  /\ old' = StillOld

(* on_fetch_request_paused: left to the listener, or failed at once, or    *)
(* joined with the event it belongs to and answered.                       *)
RequestPaused(r) ==
  /\ r \notin over \cup DataUrls /\ held[r] = "free"
  /\ \/ /\ user /\ protocol
        /\ held' = [held EXCEPT ![r] = "held"]
        /\ UNCHANGED <<bufferVars, trackVars, reportVars, attempted>>
     \/ /\ ~(user /\ protocol) /\ blockAll
        /\ held' = [held EXCEPT ![r] = "failed"]
        /\ UNCHANGED <<bufferVars, trackVars, reportVars, attempted>>
     \/ /\ ~(user /\ protocol) /\ ~blockAll
        /\ held' = [held EXCEPT ![r] = "released"]
        /\ IF willBeSent[r] # None
           THEN /\ OnRequest(r, willBeSent[r], hop[r])
                /\ willBeSent' = [willBeSent EXCEPT ![r] = None] /\ UNCHANGED paused
           ELSE /\ paused' = [paused EXCEPT ![r] = hop[r]]
                /\ UNCHANGED <<willBeSent, trackVars, reportVars, attempted>>
  /\ UNCHANGED <<cap, budget, modeVars, byteVars, given, forgotten, hop, told, over>>
  /\ old' = StillOld

(* The listener answers a pause that was left to it. *)
ListenerAnswers(r) ==
  /\ held[r] = "held"
  /\ held' = [held EXCEPT ![r] = "released"]
  /\ UNCHANGED <<cap, budget, modeVars, bufferVars, trackVars, reportVars, byteVars, authVars,
                 hop, told, over>>
  /\ old' = StillOld

(* The hop is not held back, and is on the network unless it was failed. *)
Released(r) == r \in told \ over /\ held[r] # "held"
Sent(r)     == Released(r) /\ held[r] # "failed"

(* The server redirects: Chrome starts the next hop. *)
Redirect(r) ==
  /\ Sent(r) /\ held[r] # "answered" /\ hop[r] < MaxHops /\ r \notin DataUrls
  /\ hop' = [hop EXCEPT ![r] = @ + 1]
  /\ told' = told \ {r} /\ held' = [held EXCEPT ![r] = "free"]
  /\ given' = given \ {r} /\ forgotten' = forgotten \ {r}
  /\ UNCHANGED <<cap, budget, modeVars, bufferVars, trackVars, reportVars, byteVars, attempted, over>>
  /\ old' = StillOld

(* A faulty AfterResponse: the rest of the budget is reported as it was    *)
(* declared and not as it was deducted.                                    *)
AfterResponseDeclared(size, length) ==
  LET left == IF size > bytes THEN 0 ELSE bytes - size
      zero == length # None /\ length > left
  IN IF bytes = None THEN UNCHANGED byteVars
     ELSE /\ bytes' = IF zero THEN 0 ELSE left
          /\ reported' = reported + (IF zero THEN length ELSE bytes - left)
          /\ blockAll' = (blockAll \/ bytes' = 0)

(* A faulty AfterResponse: the subtraction does not saturate. *)
AfterResponseNegative(size, length) ==
  IF bytes = None THEN UNCHANGED byteVars
  ELSE /\ bytes' = IF length # None /\ length > bytes - size THEN 0 - size ELSE bytes - size
       /\ reported' = reported + size
       /\ blockAll' = (blockAll \/ bytes' <= 0)

(* The budget after a response: what it took, and all of it when the       *)
(* declared size does not fit; the manager blocks when nothing is left.    *)
AfterResponse(size, length) ==
  LET left == IF size > bytes THEN 0 ELSE bytes - size
      rest == IF length # None /\ length > left THEN 0 ELSE left
  IN IF bytes = None THEN UNCHANGED byteVars
     ELSE /\ bytes' = rest
          /\ reported' = reported + (bytes - rest)
          /\ blockAll' = (blockAll \/ rest = 0)

(* A faulty Verdict: the request is looked up and left where it is.        *)
VerdictKeeping(r) ==
  /\ IF requests[r] # None THEN Judged(r) ELSE UNCHANGED reportVars
  /\ UNCHANGED requests

(* The request leaves the table with RequestFinished or RequestFailed. *)
Verdict(r) ==
  /\ IF requests[r] # None THEN Judged(r) ELSE UNCHANGED reportVars
  /\ requests' = [requests EXCEPT ![r] = None]

(* on_response_received: the request ends here, its attempt stays. *)
ResponseReceived(r) ==
  /\ Sent(r) /\ held[r] # "answered"
  /\ held' = [held EXCEPT ![r] = "answered"]
  /\ Verdict(r)
  /\ \E size \in Sizes, length \in Lengths : AfterResponse(size, length)
  /\ UNCHANGED <<cap, budget, modeVars, bufferVars, stopped, authVars, hop, told, over>>
  /\ old' = StillOld

(* on_network_loading_finished and on_network_loading_failed; Chrome has    *)
(* done with the request.                                                  *)
LoadingEnds(r) ==
  /\ Released(r)
  /\ Verdict(r)
  /\ attempted' = IF requests[r] # None THEN attempted \ {Id(r)} ELSE attempted
  /\ over' = over \cup {r} /\ told' = told \ {r}
  /\ held' = [held EXCEPT ![r] = "free"] /\ hop' = [hop EXCEPT ![r] = 0]
  /\ given' = given \ {r} /\ forgotten' = forgotten \ {r} /\ stopped' = stopped \ {r}
  /\ UNCHANGED <<cap, budget, modeVars, bufferVars, byteVars>>
  /\ old' = StillOld

(* A faulty Challenged: the attempt is not written down. *)
ChallengedAgain(r) ==
  /\ given' = IF credentials THEN given \cup {r} ELSE given
  /\ UNCHANGED attempted

(* on_fetch_auth_required: a second challenge is cancelled. *)
Challenged(r) ==
  IF credentials /\ <<r, hop[r]>> \notin attempted
  THEN attempted' = attempted \cup {<<r, hop[r]>>} /\ given' = given \cup {r}
  ELSE UNCHANGED <<attempted, given>>

AuthRequired(r) ==
  /\ Sent(r) /\ held[r] = "released"
  /\ Challenged(r)
  /\ UNCHANGED <<cap, budget, modeVars, bufferVars, trackVars, reportVars, byteVars, forgotten,
                 chromeVars>>
  /\ old' = StillOld

-----------------------------------------------------------------------------
(* The eviction tick *)

(* An entry passes the limit of its table, 30 or 120 seconds after it was  *)
(* written.                                                                *)
Ages(table, r) ==
  /\ Entry(table, r) # None /\ <<table, r>> \notin old
  /\ old' = old \cup {<<table, r>>}
  /\ UNCHANGED <<cap, budget, modeVars, bufferVars, trackVars, reportVars, byteVars, authVars,
                 chromeVars>>

(* A faulty Kept: the buffers are swept, the table of requests is not.     *)
KeptRequests(table, name) ==
  [r \in Requests |-> IF name # "requests" /\ <<name, r>> \in old THEN None ELSE table[r]]

(* retain() drops the old entries. *)
Kept(table, name) == [r \in Requests |-> IF <<name, r>> \in old THEN None ELSE table[r]]

(* evict_stale_entries; an attempt stays only with a request that has it.  *)
EvictStaleEntries ==
  /\ Serial
  /\ willBeSent' = Kept(willBeSent, "willBeSent")
  /\ paused' = Kept(paused, "paused")
  /\ requests' = Kept(requests, "requests")
  /\ attempted' = {i \in attempted : requests'[i[1]] # None /\ requests'[i[1]].id = i[2]}
  /\ forgotten' = forgotten \cup {r \in given : <<r, hop[r]>> \in attempted \ attempted'}
  /\ UNCHANGED <<cap, budget, modeVars, stopped, reportVars, byteVars, given, chromeVars>>
  /\ old' = StillOld

Next ==
  \/ SetMode \/ EvictStaleEntries
  \/ \E block \in BOOLEAN : SetBlockAll(block)
  \/ \E r \in Requests :
       \/ WillBeSent(r) \/ RequestPaused(r) \/ ListenerAnswers(r) \/ Redirect(r)
       \/ ResponseReceived(r) \/ LoadingEnds(r) \/ AuthRequired(r)
       \/ \E table \in Tables : Ages(table, r)

(* Time passes, and the tick of the serial handler comes again and again.  *)
(* Nothing is assumed of Chrome.                                           *)
Fairness ==
  /\ WF_vars(EvictStaleEntries)
  /\ \A table \in Tables, r \in Requests : WF_vars(Ages(table, r))

Spec == Init /\ [][Next]_vars /\ Fairness

-----------------------------------------------------------------------------
(* The two events of a hop never miss each other: no request is in both    *)
(* buffers, where nothing but the eviction would take it out.              *)
NeverWaitsTwice == \A r \in Requests : willBeSent[r] = None \/ paused[r] = None

(* A request that was reported as started gets at most one verdict,        *)
(* whichever of response, end, redirect, cap and eviction come first.      *)
OneVerdict == twice = {}

(* on_request has the page stop only a document that Chrome has taken      *)
(* through more redirects than max_redirects allows: no event that is      *)
(* lost, buffered, overwritten or swept makes a chain longer than it was.  *)
StoppedBeyondCap ==
  \A r \in stopped : r \in Documents /\ cap # None /\ hop[r] > cap

(* What was reported to the handler is what the budget of the target lost. *)
BudgetConserved == bytes # None => reported + bytes = budget

(* A hop that got the credentials is remembered, so that it does not get   *)
(* them again, until it ends or the tick forgets it.                       *)
CredentialsOnce ==
  \A r \in given \ forgotten : <<r, hop[r]>> \in attempted

(* Credentials come with an enabled Fetch domain, without which Chrome     *)
(* does not ask for them; except where a listener of requestPaused has set *)
(* the flag that says it was enabled.                                      *)
CredentialsAsked == credentials => fetch \/ listening

(* A request leaves all three tables in the end, whatever Chrome leaves    *)
(* out: evict_stale_entries is called "periodically (e.g. from the         *)
(* handler's eviction tick) so that lost CDP events cannot cause unbounded *)
(* map growth".                                                            *)
EntriesLeave ==
  \A r \in Requests :
    LET entry == \E table \in Tables : Entry(table, r) # None
    IN entry ~> ~entry
=============================================================================
