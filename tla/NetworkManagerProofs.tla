------------------------ MODULE NetworkManagerProofs ------------------------
(***************************************************************************)
(* The safety invariants of the network manager hold for any set of        *)
(* requests, any caps and budgets and any sizes of responses.              *)
(*                                                                         *)
(* They need each other.  A verdict is due only because whatever is        *)
(* tracked was reported (Tracked); the chain of a request stays within the *)
(* hops Chrome has made because a hop is announced once and the buffered   *)
(* one is newer than the tracked one (Ordered); a hop that got the         *)
(* credentials is past its pause and its announcement, so that no step for *)
(* its request drops the attempt but the end or the tick (Remembered); and *)
(* the credentials are there only with the flag, the flag only with Fetch  *)
(* or a listener (ModesAgree).                                             *)
(***************************************************************************)
EXTENDS NetworkManager, TLAPS

Tracked == \A r \in Requests : requests[r] # None => r \in open

Ordered ==
  \A r \in Requests \ over :
    /\ requests[r] # None =>
         /\ requests[r].chain <= hop[r]
         /\ r \notin told => requests[r].chain < hop[r]
         /\ willBeSent[r] # None => requests[r].chain < willBeSent[r]
    /\ willBeSent[r] # None =>
         /\ willBeSent[r] <= hop[r]
         /\ r \notin told => willBeSent[r] < hop[r]

Remembered ==
  /\ CredentialsOnce
  /\ \A r \in given : r \in told /\ held[r] \in {"released", "answered"}

ModesAgree ==
  /\ protocol => fetch \/ listening
  /\ credentials => protocol
  /\ \A r \in Requests : willBeSent[r] # None => protocol /\ r \notin DataUrls

IInv ==
  /\ TypeOK /\ Ordered /\ Tracked /\ Remembered /\ ModesAgree
  /\ NeverWaitsTwice /\ OneVerdict /\ StoppedBeyondCap /\ BudgetConserved

-----------------------------------------------------------------------------
(* What stays old was old. *)
LEMMA StillOldType ==
  ASSUME TypeOK, old' = StillOld PROVE old' \subseteq Tables \X Requests
BY DEF TypeOK, StillOld

(* The cap in force is a number. *)
LEMMA CapType ==
  ASSUME TypeOK, cap # None PROVE cap \in Nat
BY BoundsAssumption DEF TypeOK

(* The handler of a request, which three of the actions share.             *)

LEMMA RequestType ==
  ASSUME TypeOK, NEW r \in Requests, requests[r] # None
  PROVE  requests[r].id \in Hops \cup {None} /\ requests[r].chain \in Hops
BY DEF TypeOK, HttpRequest

(* A request whose hop is newer than the tracked one is followed, and      *)
(* nothing else is disturbed.                                              *)
LEMMA OnRequestKeeps ==
  ASSUME IInv, NEW r \in Requests, NEW h \in Hops, NEW i \in Hops \cup {None},
         requests[r] # None => requests[r].chain < h,
         OnRequest(r, h, i)
  PROVE  /\ requests' \in [Requests -> HttpRequest \cup {None}]
         /\ \A q \in Requests \ {r} : requests'[q] = requests[q]
         /\ requests'[r] # None => requests'[r].chain <= h
         /\ attempted' \subseteq attempted
         /\ attempted \ attempted' \subseteq {r} \X (Hops \cup {None})
         /\ open' \subseteq Requests
         /\ twice' = {}
         /\ \A q \in Requests : requests'[q] # None => q \in open'
         /\ stopped' \subseteq Requests
         /\ \A q \in stopped' : \/ q \in stopped
                                \/ q = r /\ r \in Documents /\ cap # None /\ h > cap
<1>1. TypeOK /\ Tracked /\ OneVerdict
  BY DEF IInv
<1>2. Chain(r, h) \in Hops /\ Chain(r, h) <= h
  <2>1. CASE h > 0 /\ requests[r] # None
    BY <2>1, <1>1, RequestType, BoundsAssumption DEF Chain, Hops
  <2>2. CASE ~(h > 0 /\ requests[r] # None)
    BY <2>2, BoundsAssumption DEF Chain, Hops
  <2> QED BY <2>1, <2>2
<1>3. attempted' \subseteq attempted /\ attempted \ attempted' \subseteq {r} \X (Hops \cup {None})
  BY <1>1, RequestType DEF OnRequest, Id
<1>4. cap # None => cap \in Nat
  BY <1>1, BoundsAssumption DEF TypeOK
<1>5. CASE /\ TooMany(r, h)
           /\ requests' = [requests EXCEPT ![r] = None]
           /\ stopped' = stopped \cup {r}
           /\ Judged(r)
  <2>1. r \in open
    <3>1. Chain(r, h) > 0
      BY <1>2, <1>4, <1>5 DEF TooMany, Hops
    <3> QED BY <3>1, <1>1 DEF Chain, Tracked
  <2>2. open' = open \ {r} /\ twice' = {}
    BY <2>1, <1>1, <1>5 DEF Judged, OneVerdict
  <2>3. /\ requests' \in [Requests -> HttpRequest \cup {None}]
        /\ requests'[r] = None
        /\ \A q \in Requests \ {r} : requests'[q] = requests[q]
    BY <1>1, <1>5 DEF TypeOK
  <2>4. open' \subseteq Requests
    BY <2>2, <1>1 DEF TypeOK
  <2>5. \A q \in Requests : requests'[q] # None => q \in open'
    BY <2>2, <2>3, <1>1 DEF Tracked
  <2>6. r \in Documents /\ cap # None /\ h > cap
    BY <1>2, <1>4, <1>5, BoundsAssumption DEF TooMany, Hops
  <2>7. /\ stopped' \subseteq Requests
        /\ \A q \in stopped' : \/ q \in stopped
                               \/ q = r /\ r \in Documents /\ cap # None /\ h > cap
    BY <2>6, <1>1, <1>5 DEF TypeOK
  <2> QED BY <2>2, <2>3, <2>4, <2>5, <2>7, <1>3
<1>6. CASE /\ ~TooMany(r, h)
           /\ requests' = [requests EXCEPT ![r] = [id |-> i, chain |-> Chain(r, h)]]
           /\ open' = open \cup {r} /\ UNCHANGED <<twice, stopped>>
  <2>1. [id |-> i, chain |-> Chain(r, h)] \in HttpRequest
    BY <1>2 DEF HttpRequest
  <2>2. /\ requests' \in [Requests -> HttpRequest \cup {None}]
        /\ requests'[r] = [id |-> i, chain |-> Chain(r, h)]
        /\ \A q \in Requests \ {r} : requests'[q] = requests[q]
    BY <2>1, <1>1, <1>6 DEF TypeOK
  <2>3. requests'[r].chain = Chain(r, h)
    BY <2>2
  <2>4. open' \subseteq Requests /\ twice' = {}
    BY <1>1, <1>6 DEF TypeOK, OneVerdict
  <2>5. \A q \in Requests : requests'[q] # None => q \in open'
    BY <2>2, <1>1, <1>6 DEF Tracked
  <2>7. stopped' = stopped /\ stopped \subseteq Requests
    BY <1>1, <1>6 DEF TypeOK
  <2> QED BY <1>2, <2>2, <2>3, <2>4, <2>5, <2>7, <1>3
<1> QED BY <1>5, <1>6 DEF OnRequest

(* A step that keeps the hops and the credentials, and drops no attempt    *)
(* but those of a request without them.                                    *)
LEMMA RememberedKept ==
  ASSUME IInv, NEW r \in Requests \ given,
         UNCHANGED <<given, forgotten, hop>>,
         told \subseteq told',
         \A q \in given : held'[q] = held[q],
         attempted \ attempted' \subseteq {r} \X (Hops \cup {None})
  PROVE  Remembered'
<1>1. \A q \in given : r # q
  OBVIOUS
<1>2. \A q \in given : <<q, hop[q]>> \in attempted => <<q, hop[q]>> \in attempted'
  BY <1>1
<1> QED BY <1>2 DEF IInv, Remembered, CredentialsOnce

-----------------------------------------------------------------------------
(* The steps: what the page asks, and the events of Fetch and Network.     *)

LEMMA SetModeInv ==
  ASSUME IInv, SetMode
  PROVE  IInv'
<1>age. old' \subseteq Tables \X Requests
  BY StillOldType DEF IInv, SetMode
<1>1. UNCHANGED <<cap, budget, bufferVars, trackVars, reportVars, byteVars, authVars, chromeVars>>
  BY DEF SetMode
<1>2. /\ {user', protocol', credentials', fetch', listening'} \subseteq BOOLEAN
      /\ ModesAgree'
  <2>0. willBeSent' = willBeSent
    BY <1>1 DEF bufferVars
  <2>1. {user, protocol, credentials, fetch, listening} \subseteq BOOLEAN /\ ModesAgree
    BY DEF IInv, TypeOK
  <2>2. CASE Authenticate
    BY <2>0, <2>1, <2>2 DEF Authenticate, ModesAgree
  <2>3. CASE AddListener
    BY <2>0, <2>1, <2>3 DEF AddListener, ModesAgree
  <2>4. CASE \E enabled \in BOOLEAN : EnableInterception(enabled)
    BY <2>0, <2>1, <2>4 DEF EnableInterception, ModesAgree
  <2> QED BY <2>2, <2>3, <2>4 DEF SetMode
<1>3. TypeOK'
  BY <1>age, <1>1, <1>2 DEF IInv, TypeOK, bufferVars, reportVars, trackVars, byteVars, authVars, chromeVars
<1>4. Ordered' /\ Tracked' /\ Remembered'
  BY <1>1 DEF IInv, Ordered, Tracked, Remembered, CredentialsOnce, bufferVars, reportVars, trackVars,
    authVars, chromeVars
<1>5. NeverWaitsTwice' /\ OneVerdict' /\ StoppedBeyondCap' /\ BudgetConserved'
  BY <1>1 DEF IInv, NeverWaitsTwice, OneVerdict, StoppedBeyondCap, BudgetConserved, bufferVars,
    reportVars, trackVars, chromeVars, byteVars
<1> QED BY <1>2, <1>3, <1>4, <1>5 DEF IInv

LEMMA SetBlockAllInv ==
  ASSUME IInv, NEW block \in BOOLEAN, SetBlockAll(block)
  PROVE  IInv'
<1>age. old' \subseteq Tables \X Requests
  BY StillOldType DEF IInv, SetBlockAll
<1>1. UNCHANGED <<cap, budget, modeVars, bufferVars, trackVars, reportVars, bytes, reported,
                  authVars, chromeVars>>
  BY DEF SetBlockAll
<1>2. TypeOK'
  BY <1>age, <1>1 DEF SetBlockAll, IInv, TypeOK, modeVars, bufferVars, reportVars, trackVars, authVars, chromeVars
<1>3. Ordered' /\ Tracked' /\ Remembered' /\ ModesAgree'
  BY <1>1 DEF IInv, Ordered, Tracked, Remembered, CredentialsOnce, ModesAgree, modeVars,
    bufferVars, trackVars, reportVars, authVars, chromeVars
<1>4. NeverWaitsTwice' /\ OneVerdict' /\ StoppedBeyondCap' /\ BudgetConserved'
  BY <1>1 DEF IInv, NeverWaitsTwice, OneVerdict, StoppedBeyondCap, BudgetConserved, bufferVars,
    reportVars, trackVars, chromeVars
<1> QED BY <1>2, <1>3, <1>4 DEF IInv

LEMMA WillBeSentInv ==
  ASSUME IInv, NEW r \in Requests, WillBeSent(r)
  PROVE  IInv'
<1>age. old' \subseteq Tables \X Requests
  BY StillOldType DEF IInv, WillBeSent
<1> DEFINE h == hop[r]
<1>1. /\ r \notin told /\ r \notin over /\ told' = told \cup {r}
      /\ UNCHANGED <<cap, budget, modeVars, byteVars, given, forgotten, hop, held, over>>
  BY DEF WillBeSent
<1>2. /\ h \in Hops /\ h \in Nat
      /\ r \notin given
      /\ requests[r] # None => requests[r].chain < h
      /\ willBeSent[r] # None => willBeSent[r] < h
  BY <1>1, BoundsAssumption DEF IInv, TypeOK, Hops, Ordered, Remembered
<1>3. /\ requests' \in [Requests -> HttpRequest \cup {None}]
      /\ willBeSent' \in [Requests -> Hops \cup {None}]
      /\ paused' \in [Requests -> Hops \cup {None}]
      /\ attempted' \subseteq attempted
      /\ attempted \ attempted' \subseteq {r} \X (Hops \cup {None})
      /\ open' \subseteq Requests /\ OneVerdict' /\ Tracked' /\ NeverWaitsTwice'
      /\ stopped' \subseteq Requests
      /\ \A q \in stopped' : \/ q \in stopped
                             \/ q = r /\ r \in Documents /\ cap # None /\ h > cap
      /\ \A q \in Requests \ {r} : requests'[q] = requests[q] /\ willBeSent'[q] = willBeSent[q]
      /\ requests'[r] # None => /\ requests'[r].chain <= h
                                /\ willBeSent'[r] # None => requests'[r].chain < willBeSent'[r]
      /\ willBeSent'[r] # None => willBeSent'[r] <= h
      /\ willBeSent'[r] # None => protocol /\ r \notin DataUrls
  <2>1. CASE paused[r] # None /\ OnRequest(r, h, paused[r])
             /\ paused' = [paused EXCEPT ![r] = None] /\ UNCHANGED willBeSent
    <3>1. paused[r] \in Hops /\ willBeSent[r] = None
      BY <2>1 DEF IInv, TypeOK, NeverWaitsTwice
    <3> HIDE DEF h
    <3>2. paused' \in [Requests -> Hops \cup {None}] /\ NeverWaitsTwice'
      BY <2>1 DEF IInv, TypeOK, NeverWaitsTwice
    <3>3. willBeSent' = willBeSent /\ willBeSent \in [Requests -> Hops \cup {None}]
      BY <2>1 DEF IInv, TypeOK
    <3> QED BY <1>2, <2>1, <3>1, <3>2, <3>3, OnRequestKeeps DEF OneVerdict, Tracked
  <2>2. CASE protocol /\ r \notin DataUrls /\ paused[r] = None
             /\ willBeSent' = [willBeSent EXCEPT ![r] = h]
             /\ UNCHANGED <<paused, trackVars, reportVars, attempted>>
    <3> HIDE DEF h
    <3>1. /\ willBeSent' \in [Requests -> Hops \cup {None}]
          /\ willBeSent'[r] = h
          /\ \A q \in Requests \ {r} : willBeSent'[q] = willBeSent[q]
          /\ NeverWaitsTwice'
      BY <1>2, <2>2 DEF IInv, TypeOK, NeverWaitsTwice
    <3>2. OneVerdict' /\ Tracked' /\ open' \subseteq Requests
      BY <2>2 DEF IInv, TypeOK, OneVerdict, Tracked, reportVars, trackVars
    <3>3. requests[r] # None => requests[r].chain <= h
      BY <1>2, RequestType DEF IInv, Hops
    <3>4. h <= h
      BY <1>2
    <3> QED BY <1>2, <2>2, <3>1, <3>2, <3>3, <3>4 DEF IInv, TypeOK, StoppedBeyondCap, reportVars, trackVars
  <2>3. CASE /\ ~protocol \/ r \in DataUrls
             /\ OnRequest(r, h, None) /\ UNCHANGED bufferVars
    <3>0. willBeSent[r] = None
      BY <2>3 DEF IInv, ModesAgree
    <3> HIDE DEF h
    <3>1. /\ willBeSent' = willBeSent /\ willBeSent \in [Requests -> Hops \cup {None}]
          /\ paused' = paused /\ paused \in [Requests -> Hops \cup {None}]
          /\ NeverWaitsTwice'
      BY <2>3 DEF bufferVars, IInv, TypeOK, NeverWaitsTwice
    <3> QED BY <1>2, <2>3, <3>0, <3>1, OnRequestKeeps DEF OneVerdict, Tracked
  <2>4. CASE UNCHANGED <<bufferVars, trackVars, reportVars, attempted>>
    <3> HIDE DEF h
    <3>1. OneVerdict' /\ Tracked' /\ NeverWaitsTwice' /\ open' \subseteq Requests
      BY <2>4 DEF IInv, TypeOK, OneVerdict, Tracked, NeverWaitsTwice, bufferVars, reportVars, trackVars
    <3>2. requests[r] # None => /\ requests[r].chain <= h
                                /\ willBeSent[r] # None => requests[r].chain < willBeSent[r]
      BY <1>1, <1>2, RequestType DEF IInv, Hops, Ordered
    <3>3. willBeSent[r] # None => willBeSent[r] <= h /\ protocol /\ r \notin DataUrls
      BY <1>2 DEF IInv, TypeOK, Hops, ModesAgree
    <3> QED BY <2>4, <3>1, <3>2, <3>3 DEF IInv, TypeOK, StoppedBeyondCap, bufferVars, reportVars, trackVars
  <2> QED BY <2>1, <2>2, <2>3, <2>4 DEF WillBeSent, Announced
<1>4. TypeOK'
  BY <1>age, <1>1, <1>3 DEF IInv, TypeOK, OneVerdict, modeVars, byteVars
<1>5. Ordered'
  <2> SUFFICES ASSUME NEW q \in Requests \ over
               PROVE  /\ requests'[q] # None =>
                           /\ requests'[q].chain <= hop[q]
                           /\ q \notin told' => requests'[q].chain < hop[q]
                           /\ willBeSent'[q] # None => requests'[q].chain < willBeSent'[q]
                      /\ willBeSent'[q] # None =>
                           /\ willBeSent'[q] <= hop[q]
                           /\ q \notin told' => willBeSent'[q] < hop[q]
    BY <1>1 DEF Ordered
  <2>1. CASE q = r
    BY <1>1, <1>3, <2>1
  <2>2. CASE q # r
    BY <1>1, <1>3, <2>2 DEF IInv, Ordered
  <2> QED BY <2>1, <2>2
<1>6. Remembered'
  BY <1>1, <1>2, <1>3, RememberedKept
<1>7. ModesAgree' /\ StoppedBeyondCap' /\ BudgetConserved'
  BY <1>1, <1>3 DEF IInv, ModesAgree, StoppedBeyondCap, BudgetConserved, modeVars, byteVars
<1> QED BY <1>3, <1>4, <1>5, <1>6, <1>7 DEF IInv

LEMMA RequestPausedInv ==
  ASSUME IInv, NEW r \in Requests, RequestPaused(r)
  PROVE  IInv'
<1>age. old' \subseteq Tables \X Requests
  BY StillOldType DEF IInv, RequestPaused
<1>1. /\ r \notin over \cup DataUrls /\ held[r] = "free"
      /\ UNCHANGED <<cap, budget, modeVars, byteVars, given, forgotten, hop, told, over>>
  BY DEF RequestPaused
<1>2. /\ r \notin given
      /\ hop[r] \in Hops /\ hop[r] \in Nat
      /\ requests[r] # None /\ willBeSent[r] # None => requests[r].chain < willBeSent[r]
  BY <1>1, BoundsAssumption DEF IInv, TypeOK, Hops, Ordered, Remembered
<1>3. /\ held' \in [Requests -> {"free", "held", "released", "failed", "answered"}]
      /\ \A q \in Requests \ {r} : held'[q] = held[q]
  BY DEF RequestPaused, IInv, TypeOK
<1>4. CASE UNCHANGED <<bufferVars, trackVars, reportVars, attempted>>
  <2>1. UNCHANGED <<willBeSent, paused, requests, stopped, open, twice, attempted>>
    BY <1>4 DEF bufferVars, reportVars, trackVars
  <2>2. TypeOK'
    BY <1>age, <1>1, <1>3, <2>1 DEF IInv, TypeOK, modeVars, byteVars
  <2>3. Ordered' /\ Tracked' /\ ModesAgree'
    BY <1>1, <2>1 DEF IInv, Ordered, Tracked, ModesAgree, modeVars
  <2>4. Remembered'
    BY <1>1, <1>2, <1>3, <2>1, RememberedKept DEF IInv, TypeOK
  <2>5. NeverWaitsTwice' /\ OneVerdict' /\ StoppedBeyondCap' /\ BudgetConserved'
    BY <1>1, <2>1 DEF IInv, NeverWaitsTwice, OneVerdict, StoppedBeyondCap, BudgetConserved, byteVars
  <2> QED BY <2>2, <2>3, <2>4, <2>5 DEF IInv
<1>5. CASE /\ willBeSent[r] # None
           /\ OnRequest(r, willBeSent[r], hop[r])
           /\ willBeSent' = [willBeSent EXCEPT ![r] = None] /\ UNCHANGED paused
  <2> DEFINE h == willBeSent[r]
  <2>1. /\ h \in Hops /\ h \in Nat /\ h <= hop[r]
        /\ r \notin told => h < hop[r]
    BY <1>1, <1>5, BoundsAssumption DEF IInv, TypeOK, Hops, Ordered
  <2>2. h # None /\ OnRequest(r, h, hop[r]) /\ (requests[r] # None => requests[r].chain < h)
    BY <1>2, <1>5
  <2>3. /\ willBeSent' \in [Requests -> Hops \cup {None}]
        /\ willBeSent'[r] = None
        /\ \A q \in Requests \ {r} : willBeSent'[q] = willBeSent[q]
        /\ NeverWaitsTwice'
    BY <1>5 DEF IInv, TypeOK, NeverWaitsTwice
  <2> HIDE DEF h
  <2>4. /\ requests' \in [Requests -> HttpRequest \cup {None}]
        /\ \A q \in Requests \ {r} : requests'[q] = requests[q]
        /\ requests'[r] # None => requests'[r].chain <= h
        /\ attempted' \subseteq attempted
        /\ attempted \ attempted' \subseteq {r} \X (Hops \cup {None})
        /\ open' \subseteq Requests
        /\ OneVerdict' /\ Tracked'
        /\ stopped' \subseteq Requests
        /\ \A q \in stopped' : \/ q \in stopped
                               \/ q = r /\ r \in Documents /\ cap # None /\ h > cap
    BY <1>2, <2>1, <2>2, OnRequestKeeps DEF OneVerdict, Tracked
  <2>5. TypeOK'
    BY <1>age, <1>1, <1>3, <1>5, <2>3, <2>4 DEF IInv, TypeOK, OneVerdict, modeVars, byteVars
  <2>6. Ordered'
    <3> SUFFICES ASSUME NEW q \in Requests \ over
                 PROVE  /\ requests'[q] # None =>
                             /\ requests'[q].chain <= hop[q]
                             /\ q \notin told => requests'[q].chain < hop[q]
                             /\ willBeSent'[q] # None => requests'[q].chain < willBeSent'[q]
                        /\ willBeSent'[q] # None =>
                             /\ willBeSent'[q] <= hop[q]
                             /\ q \notin told => willBeSent'[q] < hop[q]
      BY <1>1 DEF Ordered
    <3>1. CASE q = r
      <4>1. requests'[r] # None => requests'[r].chain \in Nat
        BY <2>4, BoundsAssumption DEF HttpRequest, Hops
      <4> QED BY <1>2, <2>1, <2>3, <2>4, <3>1, <4>1
    <3>2. CASE q # r
      BY <2>3, <2>4, <3>2 DEF IInv, Ordered
    <3> QED BY <3>1, <3>2
  <2>7. Remembered'
    BY <1>1, <1>2, <1>3, <2>4, RememberedKept DEF IInv, TypeOK
  <2>8. ModesAgree' /\ BudgetConserved'
    BY <1>1, <2>3, <2>4 DEF IInv, ModesAgree, BudgetConserved, modeVars, byteVars
  <2>9. StoppedBeyondCap'
    <3>1. cap # None => cap \in Nat
      BY CapType DEF IInv
    <3>2. h > cap /\ cap \in Nat => hop[r] > cap
      BY <1>2, <2>1
    <3> QED BY <1>1, <2>4, <3>1, <3>2 DEF IInv, StoppedBeyondCap
  <2> QED BY <2>3, <2>4, <2>5, <2>6, <2>7, <2>8, <2>9 DEF IInv
<1>6. CASE /\ willBeSent[r] = None
           /\ paused' = [paused EXCEPT ![r] = hop[r]]
           /\ UNCHANGED <<willBeSent, trackVars, reportVars, attempted>>
  <2>1. UNCHANGED <<willBeSent, requests, stopped, open, twice, attempted>>
    BY <1>6 DEF reportVars, trackVars
  <2>2. paused' \in [Requests -> Hops \cup {None}] /\ NeverWaitsTwice'
    BY <1>2, <1>6 DEF IInv, TypeOK, NeverWaitsTwice
  <2>3. TypeOK'
    BY <1>age, <1>1, <1>3, <2>1, <2>2 DEF IInv, TypeOK, modeVars, byteVars
  <2>4. Ordered' /\ Tracked' /\ ModesAgree'
    BY <1>1, <2>1 DEF IInv, Ordered, Tracked, ModesAgree, modeVars
  <2>5. Remembered'
    BY <1>1, <1>2, <1>3, <2>1, RememberedKept DEF IInv, TypeOK
  <2>6. OneVerdict' /\ StoppedBeyondCap' /\ BudgetConserved'
    BY <1>1, <2>1 DEF IInv, OneVerdict, StoppedBeyondCap, BudgetConserved, byteVars
  <2> QED BY <2>2, <2>3, <2>4, <2>5, <2>6 DEF IInv
<1> QED BY <1>4, <1>5, <1>6 DEF RequestPaused

LEMMA ListenerAnswersInv ==
  ASSUME IInv, NEW r \in Requests, ListenerAnswers(r)
  PROVE  IInv'
<1>age. old' \subseteq Tables \X Requests
  BY StillOldType DEF IInv, ListenerAnswers
<1>1. /\ held[r] = "held" /\ held' = [held EXCEPT ![r] = "released"]
      /\ UNCHANGED <<cap, budget, modeVars, bufferVars, trackVars, reportVars, byteVars,
                     attempted, given, forgotten, hop, told, over>>
  BY DEF ListenerAnswers, authVars
<1>2. TypeOK'
  BY <1>age, <1>1 DEF IInv, TypeOK, modeVars, bufferVars, reportVars, trackVars, byteVars
<1>3. Ordered' /\ Tracked' /\ ModesAgree'
  BY <1>1 DEF IInv, Ordered, Tracked, ModesAgree, modeVars, bufferVars, reportVars, trackVars
<1>4. Remembered'
  BY <1>1 DEF IInv, TypeOK, Remembered, CredentialsOnce
<1>5. NeverWaitsTwice' /\ OneVerdict' /\ StoppedBeyondCap' /\ BudgetConserved'
  BY <1>1 DEF IInv, NeverWaitsTwice, OneVerdict, StoppedBeyondCap, BudgetConserved, bufferVars,
    reportVars, trackVars, chromeVars, byteVars
<1> QED BY <1>2, <1>3, <1>4, <1>5 DEF IInv

(* The next hop is newer than whatever is tracked or waits.                *)
LEMMA RedirectInv ==
  ASSUME IInv, NEW r \in Requests, Redirect(r)
  PROVE  IInv'
<1>age. old' \subseteq Tables \X Requests
  BY StillOldType DEF IInv, Redirect
<1>1. /\ hop[r] < MaxHops /\ hop' = [hop EXCEPT ![r] = @ + 1]
      /\ told' = told \ {r} /\ held' = [held EXCEPT ![r] = "free"]
      /\ given' = given \ {r} /\ forgotten' = forgotten \ {r}
      /\ UNCHANGED <<cap, budget, modeVars, bufferVars, trackVars, reportVars, byteVars,
                     attempted, over>>
  BY DEF Redirect
<1>2. /\ hop \in [Requests -> Hops] /\ hop[r] + 1 \in Hops
      /\ hop' \in [Requests -> Hops] /\ hop'[r] = hop[r] + 1
      /\ \A q \in Requests \ {r} : hop'[q] = hop[q]
  BY <1>1, BoundsAssumption DEF IInv, TypeOK, Hops
<1>3. TypeOK'
  BY <1>age, <1>1, <1>2 DEF IInv, TypeOK, modeVars, bufferVars, reportVars, trackVars, byteVars
<1>4. Ordered'
  <2> SUFFICES ASSUME NEW q \in Requests \ over
               PROVE  /\ requests[q] # None =>
                           /\ requests[q].chain <= hop'[q]
                           /\ q \notin told' => requests[q].chain < hop'[q]
                           /\ willBeSent[q] # None => requests[q].chain < willBeSent[q]
                      /\ willBeSent[q] # None =>
                           /\ willBeSent[q] <= hop'[q]
                           /\ q \notin told' => willBeSent[q] < hop'[q]
    BY <1>1 DEF Ordered, bufferVars, trackVars
  <2>1. CASE q = r
    <3>1. /\ requests[r] # None => requests[r].chain \in Nat
          /\ willBeSent[r] # None => willBeSent[r] \in Nat
          /\ hop[r] \in Nat
      BY <1>2, RequestType, BoundsAssumption DEF IInv, TypeOK, Hops
    <3> QED BY <1>2, <2>1, <3>1 DEF IInv, Ordered
  <2>2. CASE q # r
    BY <1>1, <1>2, <2>2 DEF IInv, Ordered
  <2> QED BY <2>1, <2>2
<1>5. Remembered'
  BY <1>1, <1>2 DEF IInv, TypeOK, Remembered, CredentialsOnce
<1>7. StoppedBeyondCap'
  <2>1. \A q \in stopped' : q \in stopped /\ q \in Requests
    BY <1>1 DEF IInv, TypeOK, trackVars
  <2>2. \A q \in Requests : hop[q] \in Nat /\ hop'[q] \in Nat /\ hop'[q] >= hop[q]
    BY <1>2, BoundsAssumption DEF Hops
  <2>3. cap # None => cap \in Nat
    BY CapType DEF IInv
  <2> QED BY <1>1, <2>1, <2>2, <2>3 DEF IInv, StoppedBeyondCap
<1>6. Tracked' /\ ModesAgree' /\ NeverWaitsTwice' /\ OneVerdict' /\ BudgetConserved'
  BY <1>1 DEF IInv, Tracked, ModesAgree, NeverWaitsTwice, OneVerdict, trackVars,
    BudgetConserved, modeVars, bufferVars, reportVars, byteVars
<1> QED BY <1>3, <1>4, <1>5, <1>6, <1>7 DEF IInv

-----------------------------------------------------------------------------
(* The ends of a request, and the tick.                                    *)

LEMMA VerdictKeeps ==
  ASSUME IInv, NEW r \in Requests, Verdict(r)
  PROVE  /\ requests' \in [Requests -> HttpRequest \cup {None}]
         /\ requests'[r] = None
         /\ \A q \in Requests \ {r} : requests'[q] = requests[q]
         /\ open' \subseteq Requests /\ OneVerdict' /\ Tracked'
<1>1. /\ requests' \in [Requests -> HttpRequest \cup {None}]
      /\ requests'[r] = None
      /\ \A q \in Requests \ {r} : requests'[q] = requests[q]
  BY DEF Verdict, IInv, TypeOK
<1>2. open' \subseteq open /\ open \ open' \subseteq {r} /\ twice' = {}
  <2>1. CASE requests[r] # None
    BY <2>1 DEF Verdict, Judged, IInv, Tracked, OneVerdict
  <2>2. CASE requests[r] = None
    BY <2>2 DEF Verdict, reportVars, trackVars, IInv, OneVerdict
  <2> QED BY <2>1, <2>2
<1> QED BY <1>1, <1>2 DEF IInv, TypeOK, Tracked, OneVerdict

(* The budget loses what is reported, and never more than it has.          *)
LEMMA BudgetKept ==
  ASSUME IInv, NEW size \in Sizes, NEW length \in Lengths, AfterResponse(size, length),
         UNCHANGED budget
  PROVE  /\ bytes' \in Nat \cup {None} /\ reported' \in Nat /\ blockAll' \in BOOLEAN
         /\ BudgetConserved'
<1>1. /\ bytes \in Nat \cup {None} /\ reported \in Nat /\ blockAll \in BOOLEAN
      /\ BudgetConserved /\ None \notin Nat
      /\ size \in Nat /\ (budget = None \/ budget \in Nat)
  BY NoneAssumption, BoundsAssumption DEF IInv, TypeOK
<1>2. CASE bytes = None
  BY <1>1, <1>2 DEF AfterResponse, byteVars, BudgetConserved
<1>3. CASE bytes # None
  <2> DEFINE left == IF size > bytes THEN 0 ELSE bytes - size
             rest == IF length # None /\ length > left THEN 0 ELSE left
  <2>1. rest \in Nat /\ rest <= bytes /\ bytes \in Nat
    BY <1>1, <1>3
  <2>2. /\ bytes' = rest /\ reported' = reported + (bytes - rest)
        /\ blockAll' = (blockAll \/ rest = 0)
    BY <1>3 DEF AfterResponse
  <2>3. reported + bytes = budget
    BY <1>1, <1>3 DEF BudgetConserved
  <2> HIDE DEF rest
  <2>4. bytes' \in Nat /\ reported' \in Nat /\ reported' + bytes' = budget
    BY <1>1, <2>1, <2>2, <2>3
  <2> QED BY <1>1, <2>2, <2>4 DEF BudgetConserved
<1> QED BY <1>2, <1>3

LEMMA ResponseReceivedInv ==
  ASSUME IInv, NEW r \in Requests, ResponseReceived(r)
  PROVE  IInv'
<1>age. old' \subseteq Tables \X Requests
  BY StillOldType DEF IInv, ResponseReceived
<1>1. /\ r \in told /\ held' = [held EXCEPT ![r] = "answered"]
      /\ Verdict(r)
      /\ UNCHANGED <<cap, budget, modeVars, bufferVars, stopped, attempted, given, forgotten, hop,
                     told, over>>
  BY DEF ResponseReceived, Sent, Released, authVars
<1>2. /\ requests' \in [Requests -> HttpRequest \cup {None}]
      /\ requests'[r] = None
      /\ \A q \in Requests \ {r} : requests'[q] = requests[q]
      /\ open' \subseteq Requests /\ OneVerdict' /\ Tracked'
  BY <1>1, VerdictKeeps
<1>3. /\ bytes' \in Nat \cup {None} /\ reported' \in Nat /\ blockAll' \in BOOLEAN
      /\ BudgetConserved'
  <2>1. PICK size \in Sizes, length \in Lengths : AfterResponse(size, length)
    BY DEF ResponseReceived
  <2> QED BY <1>1, <2>1, BudgetKept
<1>4. TypeOK'
  BY <1>age, <1>1, <1>2, <1>3 DEF IInv, TypeOK, OneVerdict, modeVars, bufferVars
<1>5. Ordered'
  <2>1. \A q \in Requests : requests'[q] # None => requests'[q] = requests[q]
    BY <1>2
  <2> QED BY <1>1, <2>1 DEF IInv, Ordered, bufferVars
<1>6. Remembered'
  BY <1>1 DEF IInv, TypeOK, Remembered, CredentialsOnce
<1>7. StoppedBeyondCap'
  BY <1>1 DEF IInv, StoppedBeyondCap
<1>8. ModesAgree' /\ NeverWaitsTwice'
  BY <1>1 DEF IInv, ModesAgree, NeverWaitsTwice, modeVars, bufferVars
<1> QED BY <1>2, <1>3, <1>4, <1>5, <1>6, <1>7, <1>8 DEF IInv

LEMMA LoadingEndsInv ==
  ASSUME IInv, NEW r \in Requests, LoadingEnds(r)
  PROVE  IInv'
<1>age. old' \subseteq Tables \X Requests
  BY StillOldType DEF IInv, LoadingEnds
<1>1. /\ Verdict(r)
      /\ attempted' = IF requests[r] # None THEN attempted \ {Id(r)} ELSE attempted
      /\ over' = over \cup {r} /\ told' = told \ {r}
      /\ held' = [held EXCEPT ![r] = "free"] /\ hop' = [hop EXCEPT ![r] = 0]
      /\ given' = given \ {r} /\ forgotten' = forgotten \ {r} /\ stopped' = stopped \ {r}
      /\ UNCHANGED <<cap, budget, modeVars, bufferVars, byteVars>>
  BY DEF LoadingEnds
<1>2. /\ requests' \in [Requests -> HttpRequest \cup {None}]
      /\ requests'[r] = None
      /\ \A q \in Requests \ {r} : requests'[q] = requests[q]
      /\ open' \subseteq Requests /\ OneVerdict' /\ Tracked'
  BY <1>1, VerdictKeeps
<1>3. /\ hop' \in [Requests -> Hops]
      /\ \A q \in Requests \ {r} : hop'[q] = hop[q]
  BY <1>1, BoundsAssumption DEF IInv, TypeOK, Hops
<1>4. TypeOK'
  BY <1>age, <1>1, <1>2, <1>3 DEF IInv, TypeOK, OneVerdict, modeVars, bufferVars, byteVars
<1>5. Ordered'
  BY <1>1, <1>2, <1>3 DEF IInv, Ordered, bufferVars
<1>6. Remembered'
  <2> SUFFICES ASSUME NEW q \in given'
               PROVE  /\ q \notin forgotten' => <<q, hop'[q]>> \in attempted'
                      /\ q \in told' /\ held'[q] \in {"released", "answered"}
    BY DEF Remembered, CredentialsOnce
  <2>1. q \in given /\ q # r /\ q \in Requests
    BY <1>1 DEF IInv, TypeOK
  <2>2. hop'[q] = hop[q] /\ held'[q] = held[q]
    BY <1>1, <1>3, <2>1 DEF IInv, TypeOK
  <2>3. <<q, hop[q]>> \in attempted => <<q, hop[q]>> \in attempted'
    BY <1>1, <2>1 DEF Id
  <2> QED BY <1>1, <2>1, <2>2, <2>3 DEF IInv, Remembered, CredentialsOnce
<1>7. StoppedBeyondCap'
  <2>1. \A q \in stopped' : q \in stopped /\ q # r /\ q \in Requests
    BY <1>1 DEF IInv, TypeOK
  <2> QED BY <1>1, <1>3, <2>1 DEF IInv, StoppedBeyondCap
<1>8. ModesAgree' /\ NeverWaitsTwice' /\ BudgetConserved'
  BY <1>1 DEF IInv, ModesAgree, NeverWaitsTwice, BudgetConserved, modeVars, bufferVars, byteVars
<1> QED BY <1>2, <1>4, <1>5, <1>6, <1>7, <1>8 DEF IInv

LEMMA AuthRequiredInv ==
  ASSUME IInv, NEW r \in Requests, AuthRequired(r)
  PROVE  IInv'
<1>age. old' \subseteq Tables \X Requests
  BY StillOldType DEF IInv, AuthRequired
<1>1. /\ r \in told /\ held[r] = "released"
      /\ UNCHANGED <<cap, budget, modeVars, bufferVars, trackVars, reportVars, byteVars,
                     forgotten, hop, told, held, over>>
  BY DEF AuthRequired, Sent, Released, chromeVars
<1>2. \/ attempted' = attempted \cup {<<r, hop[r]>>} /\ given' = given \cup {r}
      \/ UNCHANGED <<attempted, given>>
  BY DEF AuthRequired, Challenged
<1>3. /\ attempted' \subseteq Requests \X Hops /\ given' \subseteq Requests
      /\ forgotten \subseteq given'
  BY <1>2 DEF IInv, TypeOK
<1>4. TypeOK'
  BY <1>age, <1>1, <1>3 DEF IInv, TypeOK, modeVars, bufferVars, reportVars, trackVars, byteVars
<1>5. Remembered'
  BY <1>1, <1>2 DEF IInv, Remembered, CredentialsOnce
<1>6. Ordered' /\ Tracked' /\ ModesAgree'
  BY <1>1 DEF IInv, Ordered, Tracked, ModesAgree, modeVars, bufferVars, reportVars, trackVars
<1>7. NeverWaitsTwice' /\ OneVerdict' /\ StoppedBeyondCap' /\ BudgetConserved'
  BY <1>1 DEF IInv, NeverWaitsTwice, OneVerdict, StoppedBeyondCap, BudgetConserved, bufferVars,
    reportVars, trackVars, chromeVars, byteVars
<1> QED BY <1>4, <1>5, <1>6, <1>7 DEF IInv

(* The tick takes entries out and changes none.                            *)
LEMMA EvictInv ==
  ASSUME IInv, EvictStaleEntries
  PROVE  IInv'
<1>age. old' \subseteq Tables \X Requests
  BY StillOldType DEF IInv, EvictStaleEntries
<1>1. /\ willBeSent' = Kept(willBeSent, "willBeSent")
      /\ paused' = Kept(paused, "paused")
      /\ requests' = Kept(requests, "requests")
      /\ attempted' = {i \in attempted : requests'[i[1]] # None /\ requests'[i[1]].id = i[2]}
      /\ forgotten' = forgotten \cup {r \in given : <<r, hop[r]>> \in attempted \ attempted'}
      /\ UNCHANGED <<cap, budget, modeVars, stopped, reportVars, byteVars, given, chromeVars>>
  BY DEF EvictStaleEntries
<1>2. /\ willBeSent' \in [Requests -> Hops \cup {None}]
      /\ paused' \in [Requests -> Hops \cup {None}]
      /\ requests' \in [Requests -> HttpRequest \cup {None}]
      /\ \A q \in Requests : /\ willBeSent'[q] # None => willBeSent'[q] = willBeSent[q]
                             /\ paused'[q] # None => paused'[q] = paused[q]
                             /\ requests'[q] # None => requests'[q] = requests[q]
  BY <1>1 DEF IInv, TypeOK, Kept
<1>3. attempted' \subseteq attempted
  BY <1>1
<1>4. forgotten' \subseteq given
  BY <1>1 DEF IInv, TypeOK
<1>5. UNCHANGED <<hop, told, held, over, open, twice, bytes, reported, blockAll>>
  BY <1>1 DEF chromeVars, reportVars, trackVars, byteVars
<1>6. TypeOK'
  BY <1>age, <1>1, <1>2, <1>3, <1>4, <1>5 DEF IInv, TypeOK, modeVars
<1>7. Ordered' /\ Tracked' /\ NeverWaitsTwice' /\ StoppedBeyondCap'
  <2>1. Ordered'
    BY <1>2, <1>5 DEF IInv, Ordered
  <2>2. Tracked' /\ NeverWaitsTwice'
    BY <1>2, <1>5 DEF IInv, Tracked, NeverWaitsTwice
  <2>3. StoppedBeyondCap'
    BY <1>1, <1>5 DEF IInv, StoppedBeyondCap
  <2> QED BY <2>1, <2>2, <2>3
<1>8. Remembered'
  BY <1>1, <1>5 DEF IInv, TypeOK, Remembered, CredentialsOnce
<1>9. ModesAgree' /\ OneVerdict' /\ BudgetConserved'
  BY <1>1, <1>2, <1>5 DEF IInv, ModesAgree, OneVerdict, BudgetConserved, modeVars
<1> QED BY <1>6, <1>7, <1>8, <1>9 DEF IInv

-----------------------------------------------------------------------------

LEMMA InitInv == Init => IInv
<1> SUFFICES ASSUME Init PROVE IInv
  OBVIOUS
<1>1. TypeOK
  <2>1. {user, protocol, credentials, blockAll, fetch, listening} \subseteq BOOLEAN
    BY DEF Init
  <2>2. cap \in Caps /\ budget \in Budgets /\ bytes \in Nat \cup {None} /\ reported \in Nat
    BY BoundsAssumption DEF Init
  <2>3. 0 \in Hops
    BY BoundsAssumption DEF Hops
  <2>4. /\ willBeSent \in [Requests -> Hops \cup {None}]
        /\ paused \in [Requests -> Hops \cup {None}]
        /\ requests \in [Requests -> HttpRequest \cup {None}]
        /\ hop \in [Requests -> Hops]
        /\ held \in [Requests -> {"free", "held", "released", "failed", "answered"}]
    BY <2>3 DEF Init
  <2>5. /\ attempted \subseteq Requests \X Hops
        /\ open \subseteq Requests /\ twice \subseteq Requests
        /\ stopped \subseteq Requests /\ old \subseteq Tables \X Requests
        /\ told \subseteq Requests /\ over \subseteq Requests
        /\ given \subseteq Requests /\ forgotten \subseteq given
    BY DEF Init
  <2> QED BY <2>1, <2>2, <2>4, <2>5 DEF TypeOK
<1>2. Ordered /\ Tracked /\ Remembered /\ ModesAgree
  BY DEF Init, Ordered, Tracked, Remembered, CredentialsOnce, ModesAgree
<1>3. BudgetConserved
  BY BoundsAssumption, NoneAssumption DEF Init, BudgetConserved
<1>4. NeverWaitsTwice /\ OneVerdict /\ StoppedBeyondCap
  BY RequestsAssumption DEF Init, NeverWaitsTwice, OneVerdict, StoppedBeyondCap
<1> QED BY <1>1, <1>2, <1>3, <1>4 DEF IInv

(* The age of an entry is not looked at but by the tick.                   *)
LEMMA AgeingInv ==
  ASSUME IInv, old' \subseteq Tables \X Requests,
         UNCHANGED <<cap, budget, modeVars, bufferVars, trackVars, reportVars, byteVars, authVars,
                     chromeVars>>
  PROVE  IInv'
<1>2. TypeOK'
  BY DEF IInv, TypeOK, modeVars, bufferVars, trackVars, reportVars, byteVars, authVars, chromeVars
<1>3. Ordered' /\ Tracked' /\ Remembered' /\ ModesAgree'
  BY DEF IInv, Ordered, Tracked, Remembered, CredentialsOnce, ModesAgree, modeVars,
    bufferVars, trackVars, reportVars, authVars, chromeVars
<1>4. NeverWaitsTwice' /\ OneVerdict' /\ StoppedBeyondCap' /\ BudgetConserved'
  BY DEF IInv, NeverWaitsTwice, OneVerdict, StoppedBeyondCap, BudgetConserved, bufferVars,
    trackVars, reportVars, byteVars, chromeVars
<1> QED BY <1>2, <1>3, <1>4 DEF IInv

LEMMA AgesInv ==
  ASSUME IInv, NEW table \in Tables, NEW r \in Requests, Ages(table, r)
  PROVE  IInv'
<1>1. old' \subseteq Tables \X Requests
  BY DEF Ages, IInv, TypeOK
<1> QED BY <1>1, AgeingInv DEF Ages

LEMMA StutterInv ==
  ASSUME IInv, UNCHANGED vars
  PROVE  IInv'
<1>1. old' \subseteq Tables \X Requests
  BY DEF vars, IInv, TypeOK
<1> QED BY <1>1, AgeingInv DEF vars

(* The strengthening is inductive.                                         *)
THEOREM NetworkInv == Spec => []IInv
<1>1. Init => IInv
  BY InitInv
<1>2. IInv /\ [Next]_vars => IInv'
  <2> SUFFICES ASSUME IInv, [Next]_vars PROVE IInv'
    OBVIOUS
  <2>1. CASE SetMode
    BY <2>1, SetModeInv
  <2>2. CASE EvictStaleEntries
    BY <2>2, EvictInv
  <2>3. CASE \E block \in BOOLEAN : SetBlockAll(block)
    BY <2>3, SetBlockAllInv
  <2>4. CASE \E r \in Requests :
               WillBeSent(r) \/ RequestPaused(r) \/ ListenerAnswers(r) \/ Redirect(r)
    BY <2>4, WillBeSentInv, RequestPausedInv, ListenerAnswersInv, RedirectInv
  <2>5. CASE \E r \in Requests : ResponseReceived(r) \/ LoadingEnds(r) \/ AuthRequired(r)
    BY <2>5, ResponseReceivedInv, LoadingEndsInv, AuthRequiredInv
  <2>6. CASE \E r \in Requests, table \in Tables : Ages(table, r)
    BY <2>6, AgesInv
  <2>7. CASE UNCHANGED vars
    BY <2>7, StutterInv
  <2> QED BY <2>1, <2>2, <2>3, <2>4, <2>5, <2>6, <2>7 DEF Next
<1> QED BY <1>1, <1>2, PTL DEF Spec

(* Every variable keeps its type: the tables of the NetworkManager hold    *)
(* hops within the bound, and the byte budget is never negative.           *)
THEOREM NetworkTypeCorrect == Spec => []TypeOK
<1>1. IInv => TypeOK
  BY DEF IInv
<1> QED BY <1>1, NetworkInv, PTL

(* Whichever of requestWillBeSent and requestPaused comes first, on_request *)
(* takes the other out of its buffer: a request never waits in both.       *)
THEOREM NoMissedMeeting == Spec => []NeverWaitsTwice
<1>1. IInv => NeverWaitsTwice
  BY DEF IInv
<1> QED BY <1>1, NetworkInv, PTL

(* A request that the manager reported gets at most one RequestFinished or *)
(* RequestFailed, however its response, its end and its redirects come.    *)
THEOREM AtMostOneVerdict == Spec => []OneVerdict
<1>1. IInv => OneVerdict
  BY DEF IInv
<1> QED BY <1>1, NetworkInv, PTL

(* The page is never stopped for a document that Chrome has not taken      *)
(* beyond max_redirects, whatever on_request misses of its hops.           *)
THEOREM NoEarlyStop == Spec => []StoppedBeyondCap
<1>1. IInv => StoppedBeyondCap
  BY DEF IInv
<1> QED BY <1>1, NetworkInv, PTL

(* The sum of the BytesConsumed events is what max_bytes_allowed lost.     *)
THEOREM BytesAddUp == Spec => []BudgetConserved
<1>1. IInv => BudgetConserved
  BY DEF IInv
<1> QED BY <1>1, NetworkInv, PTL

(* A hop that got the credentials does not get them a second time before   *)
(* its end, unless the tick of evict_stale_entries forgot the attempt.     *)
THEOREM NoSecondAttempt == Spec => []CredentialsOnce
<1>1. IInv => CredentialsOnce
  BY DEF IInv, Remembered
<1> QED BY <1>1, NetworkInv, PTL

(* The flag by which authenticate() decides to send Fetch.enable is only   *)
(* set where it was sent, or where a listener was added.                   *)
THEOREM FetchEnabled == Spec => []CredentialsAsked
<1>1. IInv => CredentialsAsked
  BY DEF IInv, ModesAgree, CredentialsAsked
<1> QED BY <1>1, NetworkInv, PTL

=============================================================================
