---------------------------- MODULE SignInProofs ----------------------------
(***************************************************************************)
(* SignIn for every number of browsers, requests, sessions, links, invites *)
(* and passkeys: what was ended is over, and what is used once is used     *)
(* once.                                                                   *)
(***************************************************************************)
EXTENDS SignIn, TLAPS

-----------------------------------------------------------------------------
(* The invariant.                                                          *)

CeremonyKinds == {"invite", "add", "sign-in"}

\* A challenge that nobody answers any more: it was, or its cookie is no good.
Given(c) == c \in spent \/ ceremonies[c].kind = "over"

\* A request under way names something of its kind, and the ceremony it
\* answers is not yet forgotten.
RequestsInOrder == \A r \in Requests :
    /\ request[r].kind \in CeremonyKinds =>
          /\ request[r].what \in 1..NumCeremonies
          /\ ceremonies[request[r].what].kind = request[r].kind
    /\ request[r].kind = "link" => request[r].what \in 1..NumLinks
    /\ request[r].kind = "remove" => request[r].what \in 1..NumPasskeys

CeremoniesInOrder == \A c \in 1..NumCeremonies :
    ceremonies[c].kind = "invite" => ceremonies[c].invite \in 1..NumInvites

\* A session was started by a link that remembers it, or by a passkey as the
\* answer to a challenge that has no other.
SessionsInOrder == \A s \in 1..NumSessions :
    /\ sessions[s].via = "link" =>
          /\ sessions[s].of \in 1..NumLinks
          /\ sessions[s].asked = 0
          /\ links[sessions[s].of].session = s
    /\ sessions[s].via = "passkey" =>
          /\ sessions[s].of \in 1..NumPasskeys
          /\ sessions[s].asked \in 1..NumCeremonies
          /\ Given(sessions[s].asked)

LinksInOrder == \A l \in 1..NumLinks :
    /\ links[l].session # 0 <=> links[l].state = "used"
    /\ links[l].replayed => links[l].state = "used"
    /\ links[l].session # 0 => sessions[links[l].session].state # "none"

\* A passkey was made as the one answer to its challenge, and with an invite
\* that is used by it.
PasskeysInOrder == \A k \in 1..NumPasskeys :
    /\ passkeys[k].state # "none" =>
          passkeys[k].asked \in 1..NumCeremonies /\ Given(passkeys[k].asked)
    /\ passkeys[k].invite # 0 => invites[passkeys[k].invite] = "used"

InOrder == /\ RequestsInOrder /\ CeremoniesInOrder /\ SessionsInOrder
           /\ LinksInOrder /\ PasskeysInOrder

IInv == TypeOK /\ InOrder /\ SignInsAreSound

-----------------------------------------------------------------------------
(* Types.                                                                  *)

SessionRows == [state : States, via : {"none", "link", "passkey"},
                of : 0..NumLinks + NumPasskeys, asked : 0..NumCeremonies]
LinkRows    == [state : States, session : 0..NumSessions, replayed : BOOLEAN]
PasskeyRows == [state : States, host : 0..MaxEvents + 1,
                invite : 0..NumInvites, asked : 0..NumCeremonies]
Ceremonies  == [kind : {"none", "over", "invite", "add", "sign-in"},
                invite : 0..NumInvites, session : 0..NumSessions]
AllRequests == [pc : {"idle", "in", "answer"}, browser : Browsers,
                kind : Kinds \cup {"none"},
                what : 0..NumLinks + NumCeremonies + NumPasskeys,
                previous : 0..NumSessions, session : 0..NumSessions]
IdleIsIdle  == \A r \in Requests :
    request[r].pc = "idle" => request[r] = Idle(request[r].browser)

LEMMA Typed ==
    TypeOK <=> /\ person \in [locked : BOOLEAN, retired : BOOLEAN]
               /\ sessions \in [1..NumSessions -> SessionRows]
               /\ invites \in [1..NumInvites -> States]
               /\ links \in [1..NumLinks -> LinkRows]
               /\ passkeys \in [1..NumPasskeys -> PasskeyRows]
               /\ spent \subseteq 1..NumCeremonies
               /\ ceremonies \in [1..NumCeremonies -> Ceremonies]
               /\ cookie \in [Browsers -> 0..NumSessions]
               /\ request \in [Requests -> AllRequests]
               /\ IdleIsIdle
               /\ host \in 1..events + 1
               /\ events \in 0..MaxEvents
BY Zenon DEF TypeOK, SessionRows, LinkRows, PasskeyRows, Ceremonies,
             AllRequests, IdleIsIdle

LEMMA TypedNext ==
    TypeOK' <=> /\ person' \in [locked : BOOLEAN, retired : BOOLEAN]
               /\ sessions' \in [1..NumSessions -> SessionRows]
               /\ invites' \in [1..NumInvites -> States]
               /\ links' \in [1..NumLinks -> LinkRows]
               /\ passkeys' \in [1..NumPasskeys -> PasskeyRows]
               /\ spent' \subseteq 1..NumCeremonies
               /\ ceremonies' \in [1..NumCeremonies -> Ceremonies]
               /\ cookie' \in [Browsers -> 0..NumSessions]
               /\ request' \in [Requests -> AllRequests]
               /\ IdleIsIdle'
               /\ host' \in 1..events' + 1
               /\ events' \in 0..MaxEvents
BY Zenon DEF TypeOK, SessionRows, LinkRows, PasskeyRows, Ceremonies,
             AllRequests, IdleIsIdle

\* What the sessions in ss are once they are ended.
LEMMA EndedIs ==
    ASSUME sessions \in [1..NumSessions -> SessionRows], NEW ss
    PROVE  /\ Ended(ss) \in [1..NumSessions -> SessionRows]
           /\ \A s \in 1..NumSessions :
                 /\ Ended(ss)[s].via = sessions[s].via
                 /\ Ended(ss)[s].of = sessions[s].of
                 /\ Ended(ss)[s].asked = sessions[s].asked
                 /\ Ended(ss)[s].state =
                       IF s \in ss /\ sessions[s].state = "open"
                       THEN "over" ELSE sessions[s].state
<1>1. DOMAIN sessions = 1..NumSessions
  OBVIOUS
<1>2. Ended(ss) = [s \in 1..NumSessions |->
                     IF s \in ss /\ sessions[s].state = "open"
                     THEN [sessions[s] EXCEPT !.state = "over"]
                     ELSE sessions[s]]
  BY <1>1, Zenon DEF Ended
<1>3. ASSUME NEW s \in 1..NumSessions
      PROVE  /\ [sessions[s] EXCEPT !.state = "over"] \in SessionRows
             /\ [sessions[s] EXCEPT !.state = "over"].via = sessions[s].via
             /\ [sessions[s] EXCEPT !.state = "over"].of = sessions[s].of
             /\ [sessions[s] EXCEPT !.state = "over"].asked
                   = sessions[s].asked
             /\ [sessions[s] EXCEPT !.state = "over"].state = "over"
  <2>1. sessions[s] \in SessionRows
    OBVIOUS
  <2> QED
    BY <2>1, SMT DEF SessionRows, States
<1> QED
  BY <1>2, <1>3

\* The sessions only end.
SessionsEnd == \A s \in 1..NumSessions :
    /\ sessions'[s].via = sessions[s].via
    /\ sessions'[s].of = sessions[s].of
    /\ sessions'[s].asked = sessions[s].asked
    /\ \/ sessions'[s].state = sessions[s].state
       \/ sessions[s].state = "open" /\ sessions'[s].state = "over"

LEMMA EndedEnds ==
    ASSUME sessions \in [1..NumSessions -> SessionRows], NEW ss,
           sessions' = Ended(ss)
    PROVE  SessionsEnd /\ sessions' \in [1..NumSessions -> SessionRows]
BY EndedIs DEF SessionsEnd

LEMMA WithdrawnIs ==
    ASSUME invites \in [1..NumInvites -> States]
    PROVE  /\ Withdrawn \in [1..NumInvites -> States]
           /\ \A i \in 1..NumInvites :
                 /\ Withdrawn[i] # "open"
                 /\ Withdrawn[i] = "used" <=> invites[i] = "used"
                 /\ Withdrawn[i] = invites[i] \/ invites[i] = "open"
BY DEF Withdrawn, States


-----------------------------------------------------------------------------
(* Steps that start no session and make no passkey.                        *)

LinksStay == \A l \in 1..NumLinks :
    /\ links'[l].session = links[l].session
    /\ links'[l].state = "used" <=> links[l].state = "used"
    /\ links'[l].replayed <=> links[l].replayed

PasskeysEnd == \A k \in 1..NumPasskeys :
    /\ passkeys'[k].asked = passkeys[k].asked
    /\ passkeys'[k].invite = passkeys[k].invite
    /\ \/ passkeys'[k].state = passkeys[k].state
       \/ passkeys[k].state = "open" /\ passkeys'[k].state = "over"

UsedStays == \A i \in 1..NumInvites :
    invites[i] = "used" => invites'[i] = "used"

GivenStays == \A c \in 1..NumCeremonies : Given(c) => Given(c)'

\* A session goes with its passkey.
GoesWithIt == \A s \in 1..NumSessions :
    sessions'[s].state = "open" /\ sessions[s].via = "passkey"
      => passkeys'[sessions[s].of].state = "open"

LEMMA DomainsAre ==
    ASSUME TypeOK
    PROVE  /\ DOMAIN sessions = 1..NumSessions
           /\ DOMAIN invites = 1..NumInvites
           /\ DOMAIN links = 1..NumLinks
           /\ DOMAIN passkeys = 1..NumPasskeys
           /\ DOMAIN ceremonies = 1..NumCeremonies
BY DEF TypeOK

LEMMA DomainsNext ==
    ASSUME TypeOK'
    PROVE  /\ DOMAIN sessions' = 1..NumSessions
           /\ DOMAIN invites' = 1..NumInvites
           /\ DOMAIN links' = 1..NumLinks
           /\ DOMAIN passkeys' = 1..NumPasskeys
           /\ DOMAIN ceremonies' = 1..NumCeremonies
BY DEF TypeOK

LEMMA QuietKeeps ==
    ASSUME IInv, TypeOK', SessionsEnd, PasskeysEnd, LinksStay, UsedStays,
           GivenStays, RequestsInOrder', CeremoniesInOrder', GoesWithIt,
           StoppedHasNoWayIn'
    PROVE  IInv'
<1>. USE SignInAssumption
<1>1. /\ sessions \in [1..NumSessions -> SessionRows]
      /\ links \in [1..NumLinks -> LinkRows]
      /\ passkeys \in [1..NumPasskeys -> PasskeyRows]
      /\ links' \in [1..NumLinks -> LinkRows]
      /\ passkeys' \in [1..NumPasskeys -> PasskeyRows]
  BY Typed, TypedNext DEF IInv
<1>2. SessionsInOrder'
  <2>1. SUFFICES ASSUME NEW s \in 1..NumSessions
                 PROVE  /\ sessions'[s].via = "link" =>
                              /\ sessions'[s].of \in 1..NumLinks
                              /\ sessions'[s].asked = 0
                              /\ links'[sessions'[s].of].session = s
                        /\ sessions'[s].via = "passkey" =>
                              /\ sessions'[s].of \in 1..NumPasskeys
                              /\ sessions'[s].asked \in 1..NumCeremonies
                              /\ Given(sessions[s].asked)'
    BY Zenon DEF SessionsInOrder
  <2>2. /\ sessions'[s].via = sessions[s].via
        /\ sessions'[s].of = sessions[s].of
        /\ sessions'[s].asked = sessions[s].asked
    BY DEF SessionsEnd
  <2> QED
    BY <2>2 DEF IInv, InOrder, SessionsInOrder, GivenStays, Given, LinksStay
<1>3. LinksInOrder'
  <2>1. SUFFICES ASSUME NEW l \in 1..NumLinks
                 PROVE  /\ links'[l].session # 0 <=> links'[l].state = "used"
                        /\ links'[l].replayed => links'[l].state = "used"
                        /\ links'[l].session # 0 =>
                             sessions'[links'[l].session].state # "none"
    BY DEF LinksInOrder
  <2>2. links'[l].session = links[l].session
    BY DEF LinksStay
  <2>3. /\ links'[l].session # 0 <=> links'[l].state = "used"
        /\ links'[l].replayed => links'[l].state = "used"
    BY DEF IInv, InOrder, LinksInOrder, LinksStay
  <2>4. ASSUME links'[l].session # 0
        PROVE  sessions'[links'[l].session].state # "none"
    <3>1. links[l].session \in 1..NumSessions
      BY <1>1, <2>2, <2>4 DEF LinkRows
    <3>2. sessions[links[l].session].state # "none"
      BY <2>2, <2>4 DEF IInv, InOrder, LinksInOrder
    <3> QED
      BY <2>2, <3>1, <3>2 DEF SessionsEnd
  <2> QED
    BY <2>3, <2>4
<1>4. PasskeysInOrder'
  <2>1. SUFFICES ASSUME NEW k \in 1..NumPasskeys
                 PROVE  /\ passkeys'[k].state # "none" =>
                              /\ passkeys'[k].asked \in 1..NumCeremonies
                              /\ Given(passkeys[k].asked)'
                        /\ passkeys'[k].invite # 0 =>
                              invites'[passkeys'[k].invite] = "used"
    BY Zenon DEF PasskeysInOrder
  <2>2. /\ passkeys'[k].asked = passkeys[k].asked
        /\ passkeys'[k].invite = passkeys[k].invite
        /\ passkeys'[k].state # "none" => passkeys[k].state # "none"
    BY DEF PasskeysEnd
  <2>3. passkeys[k].invite \in 0..NumInvites
    BY <1>1 DEF PasskeyRows
  <2>4. /\ passkeys[k].state # "none" =>
             passkeys[k].asked \in 1..NumCeremonies /\ Given(passkeys[k].asked)
        /\ passkeys[k].invite # 0 => invites[passkeys[k].invite] = "used"
    BY DEF IInv, InOrder, PasskeysInOrder
  <2>5. passkeys'[k].state # "none" =>
           passkeys'[k].asked \in 1..NumCeremonies /\ Given(passkeys[k].asked)'
    BY <2>2, <2>4 DEF GivenStays, Given
  <2> QED
    BY <2>2, <2>3, <2>4, <2>5 DEF UsedStays
<1>5. PasskeySessions'
  BY DomainsNext DEF PasskeySessions, GoesWithIt, SessionsEnd
<1>6. ReplayEnds'
  <2>1. SUFFICES ASSUME NEW l \in 1..NumLinks, links'[l].replayed
                 PROVE  sessions'[links'[l].session].state # "open"
    BY DomainsNext DEF ReplayEnds
  <2>2. /\ links'[l].session = links[l].session
        /\ links[l].replayed
    BY <2>1 DEF LinksStay
  <2>3. links[l].session \in 1..NumSessions
    BY <1>1, <2>2 DEF LinkRows, IInv, InOrder, LinksInOrder
  <2>4. sessions[links[l].session].state # "open"
    BY <2>2, DomainsAre DEF IInv, SignInsAreSound, EndedIsOver, ReplayEnds
  <2> QED
    BY <2>2, <2>3, <2>4 DEF SessionsEnd
<1>7. UsedOnce'
  <2>1. ASSUME NEW s \in 1..NumSessions, NEW t \in 1..NumSessions, s # t,
               sessions'[s].via # "none", sessions'[t].via # "none"
        PROVE  \/ sessions'[s].asked # sessions'[t].asked
               \/ sessions'[s].asked = 0 /\ sessions'[s].of # sessions'[t].of
    <3>1. sessions[s].via # "none" /\ sessions[t].via # "none"
      BY <2>1 DEF SessionsEnd
    <3>2. \/ sessions[s].asked # sessions[t].asked
          \/ sessions[s].asked = 0 /\ sessions[s].of # sessions[t].of
      BY <2>1, <3>1, DomainsAre DEF IInv, SignInsAreSound, UsedOnce
    <3> QED
      BY <3>2 DEF SessionsEnd
  <2>2. ASSUME NEW k \in 1..NumPasskeys, NEW m \in 1..NumPasskeys, k # m,
               passkeys'[k].state # "none", passkeys'[m].state # "none"
        PROVE  /\ passkeys'[k].asked # passkeys'[m].asked
               /\ \/ passkeys'[k].invite = 0
                  \/ passkeys'[k].invite # passkeys'[m].invite
    <3>1. passkeys[k].state # "none" /\ passkeys[m].state # "none"
      BY <2>2 DEF PasskeysEnd
    <3>2. /\ passkeys[k].asked # passkeys[m].asked
          /\ \/ passkeys[k].invite = 0
             \/ passkeys[k].invite # passkeys[m].invite
      BY <2>2, <3>1, DomainsAre DEF IInv, SignInsAreSound, UsedOnce
    <3> QED
      BY <3>2 DEF PasskeysEnd
  <2> QED
    BY <2>1, <2>2, DomainsNext, Zenon DEF UsedOnce
<1> QED
  BY <1>2, <1>3, <1>4, <1>5, <1>6, <1>7
     DEF IInv, InOrder, SignInsAreSound, EndedIsOver

LEMMA RefuseKeeps ==
    ASSUME IInv, NEW r \in Requests, Refuse(r), UNCHANGED ceremonies
    PROVE  /\ request' \in [Requests -> AllRequests] /\ IdleIsIdle'
           /\ RequestsInOrder' /\ CeremoniesInOrder'
<1>1. request \in [Requests -> AllRequests] /\ IdleIsIdle
  BY Typed DEF IInv
<1>2. request[r].browser \in Browsers
  BY <1>1 DEF AllRequests
<1>3. request' = [request EXCEPT ![r] = Idle(request[r].browser)]
  BY DEF Refuse
<1>4. Idle(request[r].browser) \in AllRequests
  BY <1>2, SignInAssumption DEF Idle, AllRequests
<1>5. request' \in [Requests -> AllRequests]
  BY <1>1, <1>3, <1>4
<1>6. \A q \in Requests : request'[q] = request[q]
                          \/ request'[q] = Idle(request[r].browser)
  BY <1>1, <1>3
<1>7. /\ Idle(request[r].browser).kind = "none"
      /\ Idle(request[r].browser).browser = request[r].browser
  BY DEF Idle
<1>8. IdleIsIdle'
  BY <1>1, <1>6, <1>7 DEF IdleIsIdle
<1>9. RequestsInOrder' /\ CeremoniesInOrder'
  BY <1>6, <1>7 DEF RequestsInOrder, CeremoniesInOrder, IInv, InOrder,
                    CeremonyKinds
<1> QED
  BY <1>5, <1>8, <1>9

\* A step in which no request goes on or is met, and no challenge is answered
\* or forgotten.
LEMMA SameRequests ==
    ASSUME IInv, UNCHANGED <<request, ceremonies, spent>>
    PROVE  /\ request' \in [Requests -> AllRequests] /\ IdleIsIdle'
           /\ RequestsInOrder' /\ CeremoniesInOrder' /\ GivenStays
BY Typed DEF IInv, InOrder, RequestsInOrder, CeremoniesInOrder, IdleIsIdle,
             GivenStays, Given

LEMMA SamePasskeys ==
    ASSUME IInv, UNCHANGED passkeys, SessionsEnd
    PROVE  PasskeysEnd /\ GoesWithIt
BY DomainsAre DEF PasskeysEnd, GoesWithIt, IInv, SignInsAreSound,
   EndedIsOver, PasskeySessions, SessionsEnd

LEMMA SameLinks ==
    ASSUME UNCHANGED links
    PROVE  LinksStay
BY DEF LinksStay

LEMMA SameSessions ==
    ASSUME UNCHANGED sessions
    PROVE  SessionsEnd
BY DEF SessionsEnd

\* Nobody is stopped, and nothing is opened.
LEMMA NobodyStopped ==
    ASSUME IInv, UNCHANGED person, SessionsEnd, TypeOK',
           \A i \in 1..NumInvites :
              invites'[i] = "open" => invites[i] = "open" \/ Active
    PROVE  StoppedHasNoWayIn'
<1>1. Active' = Active
  BY DEF Active
<1> QED
  BY <1>1, DomainsAre, DomainsNext DEF StoppedHasNoWayIn, SessionsEnd, IInv,
     SignInsAreSound, EndedIsOver

LEMMA EventIs ==
    ASSUME TypeOK, Event
    PROVE  /\ events' \in 0..MaxEvents
           /\ UNCHANGED host => host' \in 1..events' + 1
           /\ host' = host + 1 => host' \in 1..events' + 1
BY SignInAssumption DEF TypeOK, Event

-----------------------------------------------------------------------------
(* Stops, the operator, time.                                              *)

LEMMA StopsKeep ==
    ASSUME IInv, TypeOK', endSessions, PasskeysEnd,
           UNCHANGED <<links, spent, ceremonies, request>>
    PROVE  IInv'
<1>1. DOMAIN sessions = 1..NumSessions
  BY DomainsAre DEF IInv
<1>2. /\ sessions \in [1..NumSessions -> SessionRows]
      /\ invites \in [1..NumInvites -> States]
  BY Typed DEF IInv
<1>3. SessionsEnd /\ \A s \in 1..NumSessions : sessions'[s].state # "open"
  BY <1>1, <1>2, EndedIs DEF endSessions, SessionsEnd
<1>4. UsedStays /\ \A i \in 1..NumInvites : invites'[i] # "open"
  BY <1>2, WithdrawnIs DEF endSessions, UsedStays
<1>5. StoppedHasNoWayIn'
  BY <1>3, <1>4, DomainsNext DEF StoppedHasNoWayIn
<1>6. GoesWithIt
  BY <1>3 DEF GoesWithIt
<1>7. LinksStay
  BY SameLinks
<1>8. RequestsInOrder' /\ CeremoniesInOrder' /\ GivenStays
  BY SameRequests
<1> QED
  BY <1>3, <1>4, <1>5, <1>6, <1>7, <1>8, QuietKeeps

LEMMA EndSessionsTyped ==
    ASSUME TypeOK, endSessions
    PROVE  /\ sessions' \in [1..NumSessions -> SessionRows]
           /\ invites' \in [1..NumInvites -> States]
<1>1. /\ sessions \in [1..NumSessions -> SessionRows]
      /\ invites \in [1..NumInvites -> States]
  BY Typed
<1> QED
  BY <1>1, EndedIs, WithdrawnIs DEF endSessions

LEMMA LockKeeps ==
    ASSUME IInv, lockUser
    PROVE  IInv'
<1>1. person' \in [locked : BOOLEAN, retired : BOOLEAN]
  <2>1. person \in [locked : BOOLEAN, retired : BOOLEAN]
    BY DEF IInv, TypeOK
  <2> QED
    BY <2>1 DEF lockUser
<1>2. TypeOK'
  BY <1>1, Typed, TypedNext, EndSessionsTyped, EventIs
     DEF lockUser, IInv, IdleIsIdle
<1>3. PasskeysEnd
  BY DEF lockUser, PasskeysEnd
<1> QED
  BY <1>2, <1>3, StopsKeep DEF lockUser

LEMMA RetireKeeps ==
    ASSUME IInv, retireUser
    PROVE  IInv'
<1>1. person' \in [locked : BOOLEAN, retired : BOOLEAN]
  <2>1. person \in [locked : BOOLEAN, retired : BOOLEAN]
    BY DEF IInv, TypeOK
  <2> QED
    BY <2>1 DEF retireUser
<1>2. passkeys' \in [1..NumPasskeys -> PasskeyRows] /\ PasskeysEnd
  <2>1. /\ passkeys \in [1..NumPasskeys -> PasskeyRows]
        /\ DOMAIN passkeys = 1..NumPasskeys
    BY Typed DEF IInv
  <2>2. passkeys' = [k \in 1..NumPasskeys |->
                       IF passkeys[k].state = "open"
                       THEN [passkeys[k] EXCEPT !.state = "over"]
                       ELSE passkeys[k]]
    BY <2>1 DEF retireUser
  <2>3. ASSUME NEW k \in 1..NumPasskeys
        PROVE  /\ [passkeys[k] EXCEPT !.state = "over"] \in PasskeyRows
               /\ [passkeys[k] EXCEPT !.state = "over"].asked
                    = passkeys[k].asked
               /\ [passkeys[k] EXCEPT !.state = "over"].invite
                    = passkeys[k].invite
               /\ [passkeys[k] EXCEPT !.state = "over"].state = "over"
    <3>1. passkeys[k] \in PasskeyRows
      BY <2>1
    <3> QED
      BY <3>1, SMT DEF PasskeyRows, States
  <2> QED
    BY <2>1, <2>2, <2>3 DEF PasskeysEnd
<1>3. TypeOK'
  BY <1>1, <1>2, Typed, TypedNext, EndSessionsTyped, EventIs
     DEF retireUser, IInv, IdleIsIdle
<1> QED
  BY <1>2, <1>3, StopsKeep DEF retireUser

LEMMA UnlockKeeps ==
    ASSUME IInv, unlockUser
    PROVE  IInv'
<1>1. person' \in [locked : BOOLEAN, retired : BOOLEAN]
  <2>1. person \in [locked : BOOLEAN, retired : BOOLEAN]
    BY DEF IInv, TypeOK
  <2> QED
    BY <2>1 DEF unlockUser
<1>2. TypeOK'
  BY <1>1, Typed, TypedNext DEF unlockUser, IInv, IdleIsIdle, kept
<1>3. ~Active /\ SessionsEnd /\ UsedStays
  BY DEF Active, unlockUser, SessionsEnd, UsedStays
<1>4. StoppedHasNoWayIn'
  BY <1>3 DEF StoppedHasNoWayIn, IInv, SignInsAreSound, EndedIsOver,
              unlockUser
<1>5. RequestsInOrder' /\ CeremoniesInOrder' /\ GivenStays
  BY SameRequests DEF unlockUser, kept
<1>6. PasskeysEnd /\ GoesWithIt /\ LinksStay
  BY <1>3, SamePasskeys, SameLinks DEF unlockUser
<1> QED
  BY <1>2, <1>3, <1>4, <1>5, <1>6, QuietKeeps

LEMMA IssueInviteKeeps ==
    ASSUME IInv, issueInvite
    PROVE  IInv'
<1>1. invites \in [1..NumInvites -> States]
  BY Typed DEF IInv
<1>2. PICK i \in 1..NumInvites :
         invites[i] = "none" /\ invites' = [Withdrawn EXCEPT ![i] = "open"]
  BY <1>1 DEF issueInvite
<1>3. invites' \in [1..NumInvites -> States] /\ UsedStays
  BY <1>1, <1>2, WithdrawnIs DEF UsedStays, States
<1>4. TypeOK'
  BY <1>3, Typed, TypedNext DEF issueInvite, IInv, IdleIsIdle, kept
<1>5. SessionsEnd
  BY SameSessions DEF issueInvite
<1>6. StoppedHasNoWayIn'
  BY <1>4, <1>5, NobodyStopped DEF issueInvite
<1>7. RequestsInOrder' /\ CeremoniesInOrder' /\ GivenStays
  BY SameRequests DEF issueInvite, kept
<1>8. PasskeysEnd /\ GoesWithIt /\ LinksStay
  BY <1>5, SamePasskeys, SameLinks DEF issueInvite
<1> QED
  BY <1>3, <1>4, <1>5, <1>6, <1>7, <1>8, QuietKeeps

\* A link that changes, and stays unused.
LEMMA LinkIs ==
    ASSUME IInv, NEW l \in 1..NumLinks, NEW state \in {"open", "over"},
           links[l].state # "used",
           links' = [links EXCEPT ![l].state = state]
    PROVE  links' \in [1..NumLinks -> LinkRows] /\ LinksStay
<1>1. links \in [1..NumLinks -> LinkRows]
  BY Typed DEF IInv
<1>2. /\ [links[l] EXCEPT !.state = state] \in LinkRows
      /\ [links[l] EXCEPT !.state = state].state = state
      /\ [links[l] EXCEPT !.state = state].session = links[l].session
      /\ [links[l] EXCEPT !.state = state].replayed = links[l].replayed
  <2>1. links[l] \in LinkRows
    BY <1>1
  <2> QED
    BY <2>1, SMT DEF LinkRows, States
<1>3. links' = [links EXCEPT ![l] = [links[l] EXCEPT !.state = state]]
  OBVIOUS
<1> QED
  BY <1>1, <1>2, <1>3 DEF LinksStay

LEMMA IssueLinkKeeps ==
    ASSUME IInv, issueSignInLink
    PROVE  IInv'
<1>1. DOMAIN links = 1..NumLinks
  BY DomainsAre DEF IInv
<1>2. PICK l \in 1..NumLinks :
         Fresh(links, l) /\ links' = [links EXCEPT ![l].state = "open"]
  BY <1>1 DEF issueSignInLink
<1>3. links' \in [1..NumLinks -> LinkRows] /\ LinksStay
  BY <1>2, LinkIs DEF Fresh
<1>4. TypeOK'
  BY <1>3, Typed, TypedNext DEF issueSignInLink, IInv, IdleIsIdle, kept
<1>5. SessionsEnd /\ UsedStays
  BY SameSessions DEF issueSignInLink, UsedStays
<1>6. StoppedHasNoWayIn'
  BY <1>4, <1>5, NobodyStopped DEF issueSignInLink
<1>7. RequestsInOrder' /\ CeremoniesInOrder' /\ GivenStays
  BY SameRequests DEF issueSignInLink, kept
<1>8. PasskeysEnd /\ GoesWithIt
  BY <1>5, SamePasskeys DEF issueSignInLink
<1> QED
  BY <1>3, <1>4, <1>5, <1>6, <1>7, <1>8, QuietKeeps

LEMMA LinkLapsesKeeps ==
    ASSUME IInv, LinkLapses
    PROVE  IInv'
<1>1. DOMAIN links = 1..NumLinks
  BY DomainsAre DEF IInv
<1>2. PICK l \in 1..NumLinks :
         links[l].state = "open" /\ links' = [links EXCEPT ![l].state = "over"]
  BY <1>1 DEF LinkLapses
<1>3. links' \in [1..NumLinks -> LinkRows] /\ LinksStay
  BY <1>2, LinkIs
<1>4. TypeOK'
  BY <1>3, Typed, TypedNext, EventIs DEF LinkLapses, IInv, IdleIsIdle
<1>5. SessionsEnd /\ UsedStays
  BY SameSessions DEF LinkLapses, UsedStays
<1>6. StoppedHasNoWayIn'
  BY <1>4, <1>5, NobodyStopped DEF LinkLapses
<1>7. RequestsInOrder' /\ CeremoniesInOrder' /\ GivenStays
  BY SameRequests DEF LinkLapses
<1>8. PasskeysEnd /\ GoesWithIt
  BY <1>5, SamePasskeys DEF LinkLapses
<1> QED
  BY <1>3, <1>4, <1>5, <1>6, <1>7, <1>8, QuietKeeps

LEMMA SessionLapsesKeeps ==
    ASSUME IInv, SessionLapses
    PROVE  IInv'
<1>1. PICK s : sessions' = Ended({s})
  BY DEF SessionLapses
<1>2. SessionsEnd /\ sessions' \in [1..NumSessions -> SessionRows]
  BY <1>1, Typed, EndedEnds DEF IInv
<1>3. TypeOK'
  BY <1>2, Typed, TypedNext, EventIs DEF SessionLapses, IInv, IdleIsIdle
<1>4. StoppedHasNoWayIn' /\ UsedStays
  BY <1>2, <1>3, NobodyStopped DEF SessionLapses, UsedStays
<1>5. RequestsInOrder' /\ CeremoniesInOrder' /\ GivenStays
  BY SameRequests DEF SessionLapses
<1>6. PasskeysEnd /\ GoesWithIt /\ LinksStay
  BY <1>2, SamePasskeys, SameLinks DEF SessionLapses
<1> QED
  BY <1>2, <1>3, <1>4, <1>5, <1>6, QuietKeeps

LEMMA InviteLapsesKeeps ==
    ASSUME IInv, InviteLapses
    PROVE  IInv'
<1>1. invites \in [1..NumInvites -> States]
  BY Typed DEF IInv
<1>2. PICK i \in 1..NumInvites :
         invites[i] = "open" /\ invites' = [invites EXCEPT ![i] = "over"]
  BY <1>1 DEF InviteLapses
<1>3. /\ invites' \in [1..NumInvites -> States] /\ UsedStays
      /\ \A j \in 1..NumInvites : invites'[j] = "open" => invites[j] = "open"
  BY <1>1, <1>2 DEF UsedStays, States
<1>4. TypeOK'
  BY <1>3, Typed, TypedNext, EventIs DEF InviteLapses, IInv, IdleIsIdle
<1>5. SessionsEnd
  BY SameSessions DEF InviteLapses
<1>6. StoppedHasNoWayIn'
  BY <1>3, <1>4, <1>5, NobodyStopped DEF InviteLapses
<1>7. RequestsInOrder' /\ CeremoniesInOrder' /\ GivenStays
  BY SameRequests DEF InviteLapses
<1>8. PasskeysEnd /\ GoesWithIt /\ LinksStay
  BY <1>5, SamePasskeys, SameLinks DEF InviteLapses
<1> QED
  BY <1>3, <1>4, <1>5, <1>6, <1>7, <1>8, QuietKeeps

\* The passkeys in ks are over, and so is what they signed in.
LEMMA RemovedKeeps ==
    ASSUME IInv, NEW ks, Removed(ks),
           \A k \in 1..NumPasskeys : k \in ks => passkeys[k].state = "open"
    PROVE  /\ sessions' \in [1..NumSessions -> SessionRows]
           /\ passkeys' \in [1..NumPasskeys -> PasskeyRows]
           /\ SessionsEnd /\ PasskeysEnd /\ GoesWithIt
<1>1. /\ sessions \in [1..NumSessions -> SessionRows]
      /\ passkeys \in [1..NumPasskeys -> PasskeyRows]
      /\ DOMAIN passkeys = 1..NumPasskeys
      /\ DOMAIN sessions = 1..NumSessions
  BY Typed DEF IInv
<1>2. passkeys' = [k \in 1..NumPasskeys |->
                     IF k \in ks THEN [passkeys[k] EXCEPT !.state = "over"]
                     ELSE passkeys[k]]
  BY <1>1 DEF Removed
<1>3. ASSUME NEW k \in 1..NumPasskeys
      PROVE  /\ [passkeys[k] EXCEPT !.state = "over"] \in PasskeyRows
             /\ [passkeys[k] EXCEPT !.state = "over"].asked
                  = passkeys[k].asked
             /\ [passkeys[k] EXCEPT !.state = "over"].invite
                  = passkeys[k].invite
             /\ [passkeys[k] EXCEPT !.state = "over"].state = "over"
  <2>1. passkeys[k] \in PasskeyRows
    BY <1>1
  <2> QED
    BY <2>1, SMT DEF PasskeyRows, States
<1>4. passkeys' \in [1..NumPasskeys -> PasskeyRows] /\ PasskeysEnd
  BY <1>1, <1>2, <1>3 DEF PasskeysEnd
<1>5. SessionsEnd /\ sessions' \in [1..NumSessions -> SessionRows]
  BY <1>1, EndedEnds DEF Removed
<1>6. GoesWithIt
  <2>1. SUFFICES ASSUME NEW s \in 1..NumSessions,
                        sessions'[s].state = "open",
                        sessions[s].via = "passkey"
                 PROVE  passkeys'[sessions[s].of].state = "open"
    BY DEF GoesWithIt
  <2>2. sessions[s].state = "open" /\ s \notin SessionsOf(ks)
    BY <1>1, <2>1, EndedIs DEF Removed
  <2>3. sessions[s].of \notin ks
    BY <1>1, <2>1, <2>2 DEF SessionsOf
  <2>4. /\ passkeys[sessions[s].of].state = "open"
        /\ sessions[s].of \in 1..NumPasskeys
    BY <1>1, <2>1, <2>2 DEF IInv, InOrder, SessionsInOrder, SignInsAreSound,
       EndedIsOver, PasskeySessions
  <2> QED
    BY <1>2, <2>3, <2>4
<1> QED
  BY <1>4, <1>5, <1>6

LEMMA TunnelKeeps ==
    ASSUME IInv, TunnelStarts
    PROVE  IInv'
<1>1. /\ invites \in [1..NumInvites -> States]
      /\ ceremonies \in [1..NumCeremonies -> Ceremonies]
      /\ request \in [Requests -> AllRequests]
      /\ DOMAIN passkeys = 1..NumPasskeys
      /\ DOMAIN ceremonies = 1..NumCeremonies
  BY Typed DEF IInv
<1>2. /\ sessions' \in [1..NumSessions -> SessionRows]
      /\ passkeys' \in [1..NumPasskeys -> PasskeyRows]
      /\ SessionsEnd /\ PasskeysEnd /\ GoesWithIt
  <2>1. \A k \in 1..NumPasskeys :
           k \in {j \in DOMAIN passkeys : passkeys[j].state = "open"}
             => passkeys[k].state = "open"
    OBVIOUS
  <2> QED
    BY <2>1, RemovedKeeps DEF TunnelStarts
<1>3. /\ invites' \in [1..NumInvites -> States] /\ UsedStays
      /\ \A i \in 1..NumInvites : invites'[i] = "open" => invites[i] = "open"
  BY <1>1, WithdrawnIs DEF TunnelStarts, UsedStays
<1>4. /\ request' \in [Requests -> AllRequests] /\ IdleIsIdle'
      /\ \A r \in Requests : request'[r].kind = "none"
  <2>1. request' = [r \in Requests |-> Idle(request[r].browser)]
    BY DEF TunnelStarts
  <2>2. ASSUME NEW r \in Requests
        PROVE  /\ Idle(request[r].browser) \in AllRequests
               /\ Idle(request[r].browser).kind = "none"
               /\ Idle(request[r].browser).browser = request[r].browser
    <3>1. request[r].browser \in Browsers
      BY <1>1 DEF AllRequests
    <3> QED
      BY <3>1, SignInAssumption DEF Idle, AllRequests
  <2> QED
    BY <2>1, <2>2 DEF IdleIsIdle
<1>5. /\ ceremonies' \in [1..NumCeremonies -> Ceremonies]
      /\ \A c \in 1..NumCeremonies :
            /\ ceremonies'[c].kind \in {"none", "over"}
            /\ ceremonies[c].kind # "none" => ceremonies'[c].kind = "over"
  <2>1. ceremonies' = [c \in 1..NumCeremonies |->
          IF ceremonies[c].kind = "none" THEN NoneAsked
          ELSE [NoneAsked EXCEPT !.kind = "over"]]
    BY <1>1 DEF TunnelStarts
  <2>2. /\ NoneAsked \in Ceremonies /\ NoneAsked.kind = "none"
        /\ [NoneAsked EXCEPT !.kind = "over"] \in Ceremonies
        /\ [NoneAsked EXCEPT !.kind = "over"].kind = "over"
    BY SignInAssumption DEF NoneAsked, Ceremonies
  <2> QED
    BY <2>1, <2>2
<1>6. host' \in 1..events' + 1 /\ events' \in 0..MaxEvents
  BY EventIs DEF TunnelStarts, IInv
<1>7. TypeOK'
  BY <1>2, <1>3, <1>4, <1>5, <1>6, Typed, TypedNext DEF TunnelStarts, IInv
<1>8. StoppedHasNoWayIn'
  BY <1>2, <1>3, <1>7, NobodyStopped DEF TunnelStarts
<1>9. RequestsInOrder' /\ CeremoniesInOrder' /\ GivenStays /\ LinksStay
  BY <1>4, <1>5, SameLinks DEF TunnelStarts, RequestsInOrder,
     CeremoniesInOrder, GivenStays, Given, CeremonyKinds
<1> QED
  BY <1>2, <1>3, <1>7, <1>8, <1>9, QuietKeeps

LEMMA CeremonyLapsesKeeps ==
    ASSUME IInv, CeremonyLapses
    PROVE  IInv'
<1>1. /\ ceremonies \in [1..NumCeremonies -> Ceremonies]
      /\ DOMAIN ceremonies = 1..NumCeremonies
      /\ request \in [Requests -> AllRequests] /\ IdleIsIdle
      /\ spent \subseteq 1..NumCeremonies
  BY Typed DEF IInv
<1>2. PICK c \in 1..NumCeremonies :
         /\ \A r \in Requests : request[r].kind \in CeremonyKinds
                                  => request[r].what # c
         /\ ceremonies' = [ceremonies EXCEPT ![c].kind = "over"]
         /\ spent' = spent \ {c}
  BY <1>1 DEF CeremonyLapses, CeremonyKinds
<1>3. /\ ceremonies' \in [1..NumCeremonies -> Ceremonies]
      /\ ceremonies'[c].kind = "over"
      /\ \A d \in 1..NumCeremonies : d # c => ceremonies'[d] = ceremonies[d]
  <2>1. ceremonies[c] \in Ceremonies
    BY <1>1
  <2>2. /\ [ceremonies[c] EXCEPT !.kind = "over"] \in Ceremonies
        /\ [ceremonies[c] EXCEPT !.kind = "over"].kind = "over"
    BY <2>1, SMT DEF Ceremonies
  <2>3. ceremonies' = [ceremonies EXCEPT
                         ![c] = [ceremonies[c] EXCEPT !.kind = "over"]]
    BY <1>2
  <2> QED
    BY <1>1, <2>2, <2>3
<1>4. TypeOK'
  BY <1>1, <1>2, <1>3, Typed, TypedNext, EventIs
     DEF CeremonyLapses, IInv, IdleIsIdle
<1>5. SessionsEnd /\ UsedStays /\ LinksStay
  BY SameSessions, SameLinks DEF CeremonyLapses, UsedStays
<1>6. PasskeysEnd /\ GoesWithIt
  BY <1>5, SamePasskeys DEF CeremonyLapses
<1>7. StoppedHasNoWayIn'
  BY <1>4, <1>5, NobodyStopped DEF CeremonyLapses
<1>8. RequestsInOrder' /\ CeremoniesInOrder'
  BY <1>2, <1>3 DEF CeremonyLapses, RequestsInOrder, CeremoniesInOrder, IInv,
     InOrder
<1>9. GivenStays
  BY <1>2, <1>3 DEF GivenStays, Given
<1> QED
  BY <1>4, <1>5, <1>6, <1>7, <1>8, <1>9, QuietKeeps

-----------------------------------------------------------------------------
(* Requests that start nothing.                                            *)

LEMMA OptionsKeeps ==
    ASSUME IInv, Options
    PROVE  IInv'
<1>1. /\ ceremonies \in [1..NumCeremonies -> Ceremonies]
      /\ DOMAIN ceremonies = 1..NumCeremonies
      /\ DOMAIN invites = 1..NumInvites
      /\ cookie \in [Browsers -> 0..NumSessions]
  BY Typed DEF IInv
<1>2. PICK c \in 1..NumCeremonies, x \in Ceremonies :
         /\ ceremonies[c].kind = "none"
         /\ ceremonies' = [ceremonies EXCEPT ![c] = x]
         /\ x.kind = "invite" => x.invite \in 1..NumInvites
  <2>1. PICK c \in 1..NumCeremonies, b \in Browsers :
          /\ ceremonies[c].kind = "none"
          /\ \/ \E i \in DOMAIN invites :
                  /\ invites[i] = "open" /\ Active
                  /\ ceremonies' = [ceremonies EXCEPT ![c] =
                       [kind |-> "invite", invite |-> i, session |-> 0]]
             \/ /\ Signed(cookie[b])
                /\ ceremonies' = [ceremonies EXCEPT ![c] =
                       [kind |-> "add", invite |-> 0, session |-> cookie[b]]]
             \/ ceremonies' = [ceremonies EXCEPT ![c] =
                       [kind |-> "sign-in", invite |-> 0, session |-> 0]]
    BY <1>1, Zenon DEF Options
  <2>2. CASE \E i \in DOMAIN invites :
                  /\ invites[i] = "open" /\ Active
                  /\ ceremonies' = [ceremonies EXCEPT ![c] =
                       [kind |-> "invite", invite |-> i, session |-> 0]]
    <3>1. PICK i \in 1..NumInvites :
             ceremonies' = [ceremonies EXCEPT ![c] =
                       [kind |-> "invite", invite |-> i, session |-> 0]]
      BY <1>1, <2>2
    <3>2. /\ [kind |-> "invite", invite |-> i, session |-> 0] \in Ceremonies
          /\ [kind |-> "invite", invite |-> i, session |-> 0].invite = i
      BY SignInAssumption DEF Ceremonies
    <3> QED
      BY <2>1, <3>1, <3>2
  <2>3. CASE ceremonies' = [ceremonies EXCEPT ![c] =
                       [kind |-> "add", invite |-> 0, session |-> cookie[b]]]
    <3>1. /\ [kind |-> "add", invite |-> 0, session |-> cookie[b]]
                \in Ceremonies
          /\ [kind |-> "add", invite |-> 0, session |-> cookie[b]].kind
                = "add"
      BY <1>1, SignInAssumption DEF Ceremonies
    <3> QED
      BY <2>1, <2>3, <3>1
  <2>4. CASE ceremonies' = [ceremonies EXCEPT ![c] =
                       [kind |-> "sign-in", invite |-> 0, session |-> 0]]
    <3>1. /\ [kind |-> "sign-in", invite |-> 0, session |-> 0] \in Ceremonies
          /\ [kind |-> "sign-in", invite |-> 0, session |-> 0].kind
                = "sign-in"
      BY SignInAssumption DEF Ceremonies
    <3> QED
      BY <2>1, <2>4, <3>1
  <2> QED
    BY <2>1, <2>2, <2>3, <2>4
<1>3. TypeOK'
  BY <1>1, <1>2, Typed, TypedNext DEF Options, IInv, IdleIsIdle, rows
<1>4. SessionsEnd /\ UsedStays /\ LinksStay
  BY SameSessions, SameLinks DEF Options, UsedStays, rows
<1>5. PasskeysEnd /\ GoesWithIt
  BY <1>4, SamePasskeys DEF Options, rows
<1>6. StoppedHasNoWayIn'
  BY <1>3, <1>4, NobodyStopped DEF Options, rows
<1>7. RequestsInOrder'
  <2>1. SUFFICES ASSUME NEW r \in Requests,
                        request[r].kind \in CeremonyKinds
                 PROVE  /\ request[r].what \in 1..NumCeremonies
                        /\ ceremonies'[request[r].what].kind
                             = request[r].kind
    BY DEF RequestsInOrder, IInv, InOrder, Options
  <2>2. /\ request[r].what \in 1..NumCeremonies
        /\ ceremonies[request[r].what].kind = request[r].kind
    BY <2>1 DEF RequestsInOrder, IInv, InOrder
  <2> QED
    BY <1>1, <1>2, <2>1, <2>2 DEF CeremonyKinds
<1>8. CeremoniesInOrder' /\ GivenStays
  BY <1>1, <1>2 DEF CeremoniesInOrder, IInv, InOrder, GivenStays, Given,
     Options, rows
<1> QED
  BY <1>3, <1>4, <1>5, <1>6, <1>7, <1>8, QuietKeeps

LEMMA ArriveKeeps ==
    ASSUME IInv, NEW r \in Requests, Arrive(r)
    PROVE  IInv'
<1>1. /\ cookie \in [Browsers -> 0..NumSessions]
      /\ request \in [Requests -> AllRequests] /\ IdleIsIdle
      /\ DOMAIN links = 1..NumLinks
      /\ DOMAIN ceremonies = 1..NumCeremonies
      /\ DOMAIN passkeys = 1..NumPasskeys
  BY Typed DEF IInv
<1>2. PICK b \in Browsers, kind \in Kinds,
           what \in DOMAIN links \cup DOMAIN ceremonies
                      \cup DOMAIN passkeys \cup {0},
           previous \in 0..NumSessions :
         /\ kind \in CeremonyKinds =>
               what \in 1..NumCeremonies /\ ceremonies[what].kind = kind
         /\ kind = "link" => what \in 1..NumLinks
         /\ kind = "remove" => what \in 1..NumPasskeys
         /\ request' = [request EXCEPT ![r] =
               [pc |-> "in", browser |-> b, kind |-> kind, what |-> what,
                previous |-> previous, session |-> 0]]
         /\ cookie' = [cookie EXCEPT ![b] = previous]
  <2>1. PICK b \in Browsers, kind \in Kinds,
           what \in DOMAIN links \cup DOMAIN ceremonies
                      \cup DOMAIN passkeys \cup {0} :
          LET previous == IF Signed(cookie[b]) THEN cookie[b] ELSE 0 IN
          /\ CASE kind = "link" -> what \in DOMAIN links
                                   /\ links[what].state # "none"
               [] kind \in {"invite", "add", "sign-in"} ->
                     what \in DOMAIN ceremonies /\ ceremonies[what].kind = kind
               [] kind = "remove" -> what \in DOMAIN passkeys /\ previous # 0
                                     /\ passkeys[what].state = "open"
               [] OTHER -> what = 0 /\ previous # 0
          /\ request' = [request EXCEPT ![r] =
               [pc |-> "in", browser |-> b, kind |-> kind, what |-> what,
                previous |-> previous, session |-> 0]]
          /\ cookie' = [cookie EXCEPT ![b] = previous]
    BY Zenon DEF Arrive
  <2>2. PICK previous : previous = IF Signed(cookie[b]) THEN cookie[b] ELSE 0
    OBVIOUS
  <2>3. previous \in 0..NumSessions
    BY <1>1, <2>2, SignInAssumption
  <2>4. /\ CASE kind = "link" -> what \in DOMAIN links
                                   /\ links[what].state # "none"
             [] kind \in {"invite", "add", "sign-in"} ->
                   what \in DOMAIN ceremonies /\ ceremonies[what].kind = kind
             [] kind = "remove" -> what \in DOMAIN passkeys /\ previous # 0
                                   /\ passkeys[what].state = "open"
             [] OTHER -> what = 0 /\ previous # 0
        /\ request' = [request EXCEPT ![r] =
             [pc |-> "in", browser |-> b, kind |-> kind, what |-> what,
              previous |-> previous, session |-> 0]]
        /\ cookie' = [cookie EXCEPT ![b] = previous]
    BY <2>1, <2>2
  <2>5. /\ kind \in CeremonyKinds =>
              what \in 1..NumCeremonies /\ ceremonies[what].kind = kind
        /\ kind = "link" => what \in 1..NumLinks
        /\ kind = "remove" => what \in 1..NumPasskeys
    BY <1>1, <2>4 DEF CeremonyKinds
  <2> QED
    BY <2>3, <2>4, <2>5
<1>3. PICK x \in AllRequests :
         /\ request' = [request EXCEPT ![r] = x]
         /\ x.pc = "in" /\ x.kind = kind /\ x.what = what
  <2>1. what \in 0..NumLinks + NumCeremonies + NumPasskeys
    BY <1>1, SignInAssumption
  <2>2. [pc |-> "in", browser |-> b, kind |-> kind, what |-> what,
         previous |-> previous, session |-> 0] \in AllRequests
    BY <2>1, SignInAssumption DEF AllRequests
  <2> QED
    BY <1>2, <2>2
<1>4. /\ request' \in [Requests -> AllRequests]
      /\ request'[r] = x
      /\ \A q \in Requests : q # r => request'[q] = request[q]
  BY <1>1, <1>3
<1>5. IdleIsIdle'
  BY <1>1, <1>3, <1>4 DEF IdleIsIdle
<1>6. cookie' \in [Browsers -> 0..NumSessions]
  BY <1>1, <1>2
<1>7. TypeOK'
  BY <1>4, <1>5, <1>6, Typed, TypedNext DEF Arrive, IInv, rows
<1>8. SessionsEnd /\ UsedStays /\ LinksStay
  BY SameSessions, SameLinks DEF Arrive, UsedStays, rows
<1>9. PasskeysEnd /\ GoesWithIt
  BY <1>8, SamePasskeys DEF Arrive, rows
<1>10. StoppedHasNoWayIn'
  BY <1>7, <1>8, NobodyStopped DEF Arrive, rows
<1>11. RequestsInOrder'
  BY <1>2, <1>3, <1>4 DEF Arrive, RequestsInOrder, IInv, InOrder
<1>12. CeremoniesInOrder' /\ GivenStays
  BY DEF Arrive, rows, CeremoniesInOrder, IInv, InOrder, GivenStays, Given
<1> QED
  BY <1>7, <1>8, <1>9, <1>10, <1>11, <1>12, QuietKeeps

\* A request that is over, having ended sessions at most.
LEMMA OverKeeps ==
    ASSUME IInv, NEW r \in Requests, Refuse(r), SessionsEnd, PasskeysEnd,
           GoesWithIt, sessions' \in [1..NumSessions -> SessionRows],
           passkeys' \in [1..NumPasskeys -> PasskeyRows],
           cookie' \in [Browsers -> 0..NumSessions],
           UNCHANGED <<person, invites, links, ceremonies, host, events>>,
           spent \subseteq spent', spent' \subseteq 1..NumCeremonies
    PROVE  IInv'
<1>1. /\ request' \in [Requests -> AllRequests] /\ IdleIsIdle'
      /\ RequestsInOrder' /\ CeremoniesInOrder'
  BY RefuseKeeps
<1>2. TypeOK'
  BY <1>1, Typed, TypedNext DEF IInv
<1>3. UsedStays /\ LinksStay /\ GivenStays
  BY SameLinks DEF UsedStays, GivenStays, Given
<1>4. StoppedHasNoWayIn'
  BY <1>2, NobodyStopped
<1> QED
  BY <1>1, <1>2, <1>3, <1>4, QuietKeeps

LEMMA SignedInKeeps ==
    ASSUME IInv, NEW r \in Requests, SignedInAs(r)
    PROVE  IInv'
<1>1. /\ sessions \in [1..NumSessions -> SessionRows]
      /\ passkeys \in [1..NumPasskeys -> PasskeyRows]
      /\ cookie \in [Browsers -> 0..NumSessions]
      /\ request \in [Requests -> AllRequests]
      /\ spent \subseteq 1..NumCeremonies
  BY Typed DEF IInv
<1>2. SessionsEnd /\ sessions' \in [1..NumSessions -> SessionRows]
  <2>1. sessions' = sessions \/ sessions' = Ended({request[r].previous})
    BY DEF SignedInAs
  <2> QED
    BY <1>1, <2>1, EndedEnds, SameSessions
<1>3. cookie' \in [Browsers -> 0..NumSessions]
  <2>1. \/ cookie' = cookie
        \/ cookie' = [cookie EXCEPT ![request[r].browser]
                                       = request[r].session]
    BY DEF SignedInAs
  <2>2. request[r].session \in 0..NumSessions
    BY <1>1 DEF AllRequests
  <2> QED
    BY <1>1, <2>1, <2>2
<1>4. PasskeysEnd /\ GoesWithIt
  BY <1>2, SamePasskeys DEF SignedInAs
<1> QED
  BY <1>1, <1>2, <1>3, <1>4, OverKeeps DEF SignedInAs

LEMMA LogoutKeeps ==
    ASSUME IInv, NEW r \in Requests, Logout(r)
    PROVE  IInv'
<1>1. /\ sessions \in [1..NumSessions -> SessionRows]
      /\ passkeys \in [1..NumPasskeys -> PasskeyRows]
      /\ cookie \in [Browsers -> 0..NumSessions]
      /\ spent \subseteq 1..NumCeremonies
  BY Typed DEF IInv
<1>2. SessionsEnd /\ sessions' \in [1..NumSessions -> SessionRows]
  BY <1>1, EndedEnds DEF Logout
<1>3. cookie' \in [Browsers -> 0..NumSessions]
  <2>1. cookie' = [cookie EXCEPT ![request[r].browser] = 0]
    BY DEF Logout
  <2>2. 0 \in 0..NumSessions
    BY SignInAssumption
  <2> QED
    BY <1>1, <2>1, <2>2
<1>4. PasskeysEnd /\ GoesWithIt
  BY <1>2, SamePasskeys DEF Logout
<1> QED
  BY <1>1, <1>2, <1>3, <1>4, OverKeeps DEF Logout

\* A request refused, with its challenge spent or with nothing written.
LEMMA RefusedKeeps ==
    ASSUME IInv, NEW r \in Requests, Refuse(r),
           UNCHANGED <<person, sessions, invites, links, passkeys, kept>>,
           \/ UNCHANGED spent
           \/ \E c \in 1..NumCeremonies : spendChallenge(c)
    PROVE  IInv'
<1>1. /\ sessions \in [1..NumSessions -> SessionRows]
      /\ passkeys \in [1..NumPasskeys -> PasskeyRows]
      /\ cookie \in [Browsers -> 0..NumSessions]
      /\ spent \subseteq 1..NumCeremonies
  BY Typed DEF IInv
<1>2. spent \subseteq spent' /\ spent' \subseteq 1..NumCeremonies
  BY <1>1 DEF spendChallenge
<1>3. SessionsEnd /\ PasskeysEnd /\ GoesWithIt
  BY SameSessions, SamePasskeys
<1> QED
  BY <1>1, <1>2, <1>3, OverKeeps DEF kept

LEMMA AnsweredKeeps ==
    ASSUME IInv, NEW r \in Requests,
           Answered(r) \/ AnswerFails(r) \/ NothingToRemove(r)
    PROVE  IInv'
<1>1. CASE Answered(r) \/ NothingToRemove(r)
  BY <1>1, RefusedKeeps DEF Answered, NothingToRemove, rows
<1>2. CASE AnswerFails(r)
  <2>1. request[r].what \in 1..NumCeremonies
    BY <1>2 DEF AnswerFails, IInv, InOrder, RequestsInOrder, CeremonyKinds
  <2> QED
    BY <1>2, <2>1, RefusedKeeps DEF AnswerFails
<1> QED
  BY <1>1, <1>2

LEMMA RemoveKeeps ==
    ASSUME IInv, NEW r \in Requests, removePasskey(r)
    PROVE  IInv'
<1>1. /\ cookie \in [Browsers -> 0..NumSessions]
      /\ spent \subseteq 1..NumCeremonies
  BY Typed DEF IInv
<1>2. \A k \in 1..NumPasskeys :
         k \in {request[r].what} => passkeys[k].state = "open"
  BY DEF removePasskey
<1>3. /\ sessions' \in [1..NumSessions -> SessionRows]
      /\ passkeys' \in [1..NumPasskeys -> PasskeyRows]
      /\ SessionsEnd /\ PasskeysEnd /\ GoesWithIt
  BY <1>2, RemovedKeeps DEF removePasskey
<1> QED
  BY <1>1, <1>3, OverKeeps DEF removePasskey, kept

-----------------------------------------------------------------------------
(* Requests that start a session or make a passkey.                        *)

SessionsOnce == \A s, t \in 1..NumSessions :
    s # t /\ sessions[s].via # "none" /\ sessions[t].via # "none" =>
       \/ sessions[s].asked # sessions[t].asked
       \/ sessions[s].asked = 0 /\ sessions[s].of # sessions[t].of

PasskeysOnce == \A k, m \in 1..NumPasskeys :
    k # m /\ passkeys[k].state # "none" /\ passkeys[m].state # "none" =>
       /\ passkeys[k].asked # passkeys[m].asked
       /\ passkeys[k].invite = 0 \/ passkeys[k].invite # passkeys[m].invite

LEMMA OnceIs ==
    /\ TypeOK => (UsedOnce <=> SessionsOnce /\ PasskeysOnce)
    /\ TypeOK' => (UsedOnce' <=> SessionsOnce' /\ PasskeysOnce')
<1>1. TypeOK => (UsedOnce <=> SessionsOnce /\ PasskeysOnce)
  BY DomainsAre, Zenon DEF UsedOnce, SessionsOnce, PasskeysOnce
<1>2. TypeOK' => (UsedOnce' <=> SessionsOnce' /\ PasskeysOnce')
  BY DomainsNext, Zenon DEF UsedOnce, SessionsOnce, PasskeysOnce
<1> QED
  BY <1>1, <1>2

\* What startSession() changes.
LEMMA StartIs ==
    ASSUME IInv, NEW r \in Requests, request[r].pc = "in",
           NEW s \in 1..NumSessions,
           NEW via \in {"link", "passkey"},
           NEW of \in 0..NumLinks + NumPasskeys,
           NEW asked \in 0..NumCeremonies,
           startSession(r, s, via, of, asked)
    PROVE  /\ Active /\ sessions[s].state = "none"
           /\ sessions' \in [1..NumSessions -> SessionRows]
           /\ sessions'[s].state = "open" /\ sessions'[s].via = via
           /\ sessions'[s].of = of /\ sessions'[s].asked = asked
           /\ \A t \in 1..NumSessions : t # s => sessions'[t] = sessions[t]
           /\ request' \in [Requests -> AllRequests] /\ IdleIsIdle'
           /\ \A q \in Requests : request'[q].kind = request[q].kind
                                  /\ request'[q].what = request[q].what
<1>1. /\ sessions \in [1..NumSessions -> SessionRows]
      /\ request \in [Requests -> AllRequests] /\ IdleIsIdle
  BY Typed DEF IInv
<1>2. Active /\ sessions[s].state = "none"
  BY DEF startSession, Fresh
<1>3. PICK x : x = [state |-> "open", via |-> via, of |-> of, asked |-> asked]
  OBVIOUS
<1>4. /\ x \in SessionRows
      /\ x.state = "open" /\ x.via = via /\ x.of = of /\ x.asked = asked
  BY <1>3 DEF SessionRows, States
<1>5. sessions' = [sessions EXCEPT ![s] = x]
  BY <1>3 DEF startSession
<1>6. request[r] \in AllRequests /\ s \in 0..NumSessions
  BY <1>1, SignInAssumption
<1>7. PICK y : y = [request[r] EXCEPT !.pc = "answer", !.session = s]
  OBVIOUS
<1>8. /\ y \in AllRequests /\ y.pc = "answer"
      /\ y.kind = request[r].kind /\ y.what = request[r].what
  <2>1. PICK z : z = [request[r] EXCEPT !.pc = "answer"]
    OBVIOUS
  <2>2. /\ z \in AllRequests /\ z.pc = "answer"
        /\ z.kind = request[r].kind /\ z.what = request[r].what
    BY <1>6, <2>1, SMT DEF AllRequests
  <2>3. y = [z EXCEPT !.session = s]
    BY <1>7, <2>1
  <2> QED
    BY <1>6, <2>2, <2>3, SMT DEF AllRequests
<1>9. /\ request' \in [Requests -> AllRequests]
      /\ request'[r] = y
      /\ \A q \in Requests : q # r => request'[q] = request[q]
  <2>1. request' = [request EXCEPT ![r].pc = "answer", ![r].session = s]
    BY DEF startSession
  <2>2. request' = [request EXCEPT ![r] = y]
    BY <1>1, <1>7, <2>1
  <2> QED
    BY <1>1, <1>8, <2>2
<1>10. IdleIsIdle'
  BY <1>1, <1>8, <1>9 DEF IdleIsIdle
<1> QED
  BY <1>1, <1>2, <1>4, <1>5, <1>8, <1>9, <1>10

\* A session started: everybody's links are in order and no replayed link's
\* session is open, since a new one is no link's.
LEMMA LinksKeptAtStart ==
    ASSUME IInv, TypeOK', NEW s \in 1..NumSessions,
           sessions[s].state = "none",
           \A t \in 1..NumSessions : t # s => sessions'[t] = sessions[t],
           UNCHANGED links
    PROVE  LinksInOrder' /\ ReplayEnds'
<1>1. links \in [1..NumLinks -> LinkRows]
  BY Typed DEF IInv
<1>2. ASSUME NEW l \in 1..NumLinks, links[l].session # 0
      PROVE  /\ links[l].session \in 1..NumSessions
             /\ sessions'[links[l].session] = sessions[links[l].session]
             /\ sessions[links[l].session].state # "none"
  <2>1. sessions[links[l].session].state # "none"
    BY <1>2 DEF IInv, InOrder, LinksInOrder
  <2>2. links[l].session \in 1..NumSessions
    BY <1>1, <1>2 DEF LinkRows
  <2> QED
    BY <2>1, <2>2
<1>3. LinksInOrder'
  BY <1>2 DEF LinksInOrder, IInv, InOrder
<1>4. ReplayEnds'
  BY <1>2, DomainsAre, DomainsNext DEF ReplayEnds, IInv, InOrder,
     LinksInOrder, SignInsAreSound, EndedIsOver
<1> QED
  BY <1>3, <1>4

LEMMA StoppedAtStart ==
    ASSUME Active, UNCHANGED person
    PROVE  StoppedHasNoWayIn'
BY DEF Active, StoppedHasNoWayIn

\* A session started by passkey k, as the answer to challenge c.
LEMMA PasskeyStarts ==
    ASSUME IInv, TypeOK', NEW r \in Requests, request[r].pc = "in",
           NEW s \in 1..NumSessions, NEW k \in 1..NumPasskeys,
           NEW c \in 1..NumCeremonies,
           startSession(r, s, "passkey", k, c), spendChallenge(c),
           ceremonies[c].kind # "over",
           passkeys'[k].state = "open",
           \A m \in 1..NumPasskeys :
              passkeys[m].state = "open" => passkeys'[m].state = "open",
           UNCHANGED <<person, links, ceremonies>>
    PROVE  /\ SessionsInOrder' /\ LinksInOrder' /\ RequestsInOrder'
           /\ CeremoniesInOrder' /\ EndedIsOver' /\ SessionsOnce'
           /\ GivenStays /\ Given(c)' /\ ~Given(c)
<1>1. k \in 0..NumLinks + NumPasskeys /\ c \in 0..NumCeremonies
  BY SignInAssumption
<1>2. /\ Active /\ sessions[s].state = "none"
      /\ sessions'[s].state = "open" /\ sessions'[s].via = "passkey"
      /\ sessions'[s].of = k /\ sessions'[s].asked = c
      /\ \A t \in 1..NumSessions : t # s => sessions'[t] = sessions[t]
      /\ \A q \in Requests : request'[q].kind = request[q].kind
                             /\ request'[q].what = request[q].what
  BY <1>1, StartIs
<1>3. GivenStays /\ Given(c)' /\ ~Given(c)
  BY DEF spendChallenge, GivenStays, Given
<1>4. RequestsInOrder' /\ CeremoniesInOrder'
  BY <1>2 DEF RequestsInOrder, CeremoniesInOrder, IInv, InOrder
<1>5. LinksInOrder' /\ ReplayEnds'
  BY <1>2, LinksKeptAtStart
<1>6. SessionsInOrder'
  <2>1. SUFFICES ASSUME NEW t \in 1..NumSessions
                 PROVE  /\ sessions'[t].via = "link" =>
                              /\ sessions'[t].of \in 1..NumLinks
                              /\ sessions'[t].asked = 0
                              /\ links[sessions'[t].of].session = t
                        /\ sessions'[t].via = "passkey" =>
                              /\ sessions'[t].of \in 1..NumPasskeys
                              /\ sessions'[t].asked \in 1..NumCeremonies
                              /\ Given(sessions[t].asked)'
    BY Zenon DEF SessionsInOrder
  <2>2. CASE t = s
    BY <1>2, <1>3, <2>2 DEF Given
  <2>3. CASE t # s
    BY <1>2, <1>3, <2>3 DEF IInv, InOrder, SessionsInOrder, GivenStays, Given
  <2> QED
    BY <2>2, <2>3
<1>7. PasskeySessions'
  <2>1. SUFFICES ASSUME NEW t \in 1..NumSessions,
                        sessions'[t].state = "open",
                        sessions'[t].via = "passkey"
                 PROVE  passkeys'[sessions'[t].of].state = "open"
    BY DomainsNext DEF PasskeySessions
  <2>2. CASE t = s
    BY <1>2, <2>2
  <2>3. CASE t # s
    BY <1>2, <2>1, <2>3, DomainsAre DEF IInv, InOrder, SessionsInOrder,
       SignInsAreSound, EndedIsOver, PasskeySessions
  <2> QED
    BY <2>2, <2>3
<1>8. EndedIsOver'
  BY <1>2, <1>5, <1>7, StoppedAtStart DEF EndedIsOver
<1>9. SessionsOnce'
  <2>1. \A t \in 1..NumSessions : t # s /\ sessions[t].via # "none" =>
           sessions'[t].asked # c
    <3>1. SUFFICES ASSUME NEW t \in 1..NumSessions, t # s,
                          sessions[t].via # "none"
                   PROVE  sessions[t].asked # c
      BY <1>2
    <3>2. sessions[t].via \in {"link", "passkey"}
      <4>1. sessions[t] \in SessionRows
        BY Typed DEF IInv
      <4> QED
        BY <3>1, <4>1 DEF SessionRows
    <3> QED
      BY <1>3, <3>2 DEF IInv, InOrder, SessionsInOrder
  <2>2. SessionsOnce
    BY OnceIs DEF IInv, SignInsAreSound
  <2> QED
    BY <1>2, <2>1, <2>2 DEF SessionsOnce
<1> QED
  BY <1>3, <1>4, <1>5, <1>6, <1>8, <1>9

LEMMA AcceptKeeps ==
    ASSUME IInv, NEW r \in Requests, acceptInvite(r)
    PROVE  IInv'
<1>1. /\ passkeys \in [1..NumPasskeys -> PasskeyRows]
      /\ invites \in [1..NumInvites -> States]
      /\ spent \subseteq 1..NumCeremonies
      /\ DOMAIN passkeys = 1..NumPasskeys
      /\ DOMAIN sessions = 1..NumSessions
      /\ host \in 1..events + 1 /\ events \in 0..MaxEvents
  BY Typed DEF IInv
<1>2. PICK c : c = request[r].what
  OBVIOUS
<1>3. PICK i : i = ceremonies[c].invite
  OBVIOUS
<1>4. /\ request[r].pc = "in" /\ request[r].kind = "invite"
      /\ invites[i] = "open" /\ spendChallenge(c)
      /\ invites' = [invites EXCEPT ![i] = "used"]
      /\ UNCHANGED <<person, links, kept>>
  BY <1>2, <1>3, Zenon DEF acceptInvite, Handles
<1>5. PICK k \in 1..NumPasskeys, s \in 1..NumSessions :
         registerPasskey(k, i, c) /\ startSession(r, s, "passkey", k, c)
  <2>1. \E k \in DOMAIN passkeys, s \in DOMAIN sessions :
             /\ registerPasskey(k, i, c)
             /\ startSession(r, s, "passkey", k, c)
    BY <1>2, <1>3, Zenon DEF acceptInvite
  <2> QED
    BY <1>1, <2>1
<1>6. /\ c \in 1..NumCeremonies /\ ceremonies[c].kind = "invite"
      /\ i \in 1..NumInvites
  BY <1>2, <1>3, <1>4 DEF IInv, InOrder, RequestsInOrder, CeremoniesInOrder,
     CeremonyKinds
<1>7. PICK x : x = [state |-> "open", host |-> host, invite |-> i, asked |-> c]
  OBVIOUS
<1>8. /\ x \in PasskeyRows /\ x.state = "open" /\ x.invite = i /\ x.asked = c
  <2>1. host \in 0..MaxEvents + 1
    BY <1>1, SignInAssumption
  <2> QED
    BY <1>6, <1>7, <2>1 DEF PasskeyRows, States
<1>9. /\ passkeys' \in [1..NumPasskeys -> PasskeyRows]
      /\ passkeys[k].state = "none" /\ passkeys'[k] = x
      /\ \A m \in 1..NumPasskeys : m # k => passkeys'[m] = passkeys[m]
  <2>1. passkeys' = [passkeys EXCEPT ![k] = x] /\ passkeys[k].state = "none"
    BY <1>5, <1>7 DEF registerPasskey, Fresh
  <2> QED
    BY <1>1, <1>8, <2>1
<1>10. invites' \in [1..NumInvites -> States] /\ invites'[i] = "used"
       /\ UsedStays
  BY <1>1, <1>4, <1>6 DEF States, UsedStays
<1>11. /\ sessions' \in [1..NumSessions -> SessionRows]
       /\ request' \in [Requests -> AllRequests] /\ IdleIsIdle'
  <2>1. k \in 0..NumLinks + NumPasskeys /\ c \in 0..NumCeremonies
    BY <1>6, SignInAssumption
  <2> QED
    BY <1>4, <1>5, <2>1, StartIs
<1>12. spent' \subseteq 1..NumCeremonies
  BY <1>1, <1>4, <1>6 DEF spendChallenge
<1>13. TypeOK'
  BY <1>4, <1>9, <1>10, <1>11, <1>12, Typed, TypedNext DEF IInv, kept
<1>14. /\ SessionsInOrder' /\ LinksInOrder' /\ RequestsInOrder'
       /\ CeremoniesInOrder' /\ EndedIsOver' /\ SessionsOnce'
       /\ GivenStays /\ Given(c)' /\ ~Given(c)
  <2>1. \A m \in 1..NumPasskeys :
           passkeys[m].state = "open" => passkeys'[m].state = "open"
    BY <1>8, <1>9
  <2> QED
    BY <1>4, <1>5, <1>6, <1>8, <1>9, <1>13, <2>1, PasskeyStarts DEF kept
<1>15. PasskeysInOrder'
  <2>1. SUFFICES ASSUME NEW m \in 1..NumPasskeys
                 PROVE  /\ passkeys'[m].state # "none" =>
                              /\ passkeys'[m].asked \in 1..NumCeremonies
                              /\ Given(passkeys[m].asked)'
                        /\ passkeys'[m].invite # 0 =>
                              invites'[passkeys'[m].invite] = "used"
    BY Zenon DEF PasskeysInOrder
  <2>2. CASE m = k
    BY <1>6, <1>8, <1>9, <1>10, <1>14, <2>2 DEF Given
  <2>3. CASE m # k
    <3>1. passkeys'[m] = passkeys[m] /\ passkeys[m].invite \in 0..NumInvites
      BY <1>1, <1>9, <2>3 DEF PasskeyRows
    <3> QED
      BY <1>10, <1>14, <3>1 DEF IInv, InOrder, PasskeysInOrder, GivenStays,
         Given, UsedStays
  <2> QED
    BY <2>2, <2>3
<1>16. PasskeysOnce'
  <2>1. PasskeysOnce
    BY OnceIs DEF IInv, SignInsAreSound
  <2>2. ASSUME NEW m \in 1..NumPasskeys, m # k, passkeys[m].state # "none"
        PROVE  passkeys[m].asked # c /\ passkeys[m].invite # i
    BY <1>4, <1>6, <1>14, <2>2 DEF IInv, InOrder, PasskeysInOrder
  <2> QED
    BY <1>8, <1>9, <2>1, <2>2 DEF PasskeysOnce
<1> QED
  BY <1>13, <1>14, <1>15, <1>16, OnceIs DEF IInv, InOrder, SignInsAreSound

LEMMA SignInKeeps ==
    ASSUME IInv, NEW r \in Requests, signInWithPasskey(r)
    PROVE  IInv'
<1>1. /\ spent \subseteq 1..NumCeremonies
      /\ DOMAIN passkeys = 1..NumPasskeys
      /\ DOMAIN sessions = 1..NumSessions
  BY Typed DEF IInv
<1>2. PICK c : c = request[r].what
  OBVIOUS
<1>3. /\ request[r].pc = "in" /\ request[r].kind = "sign-in"
      /\ spendChallenge(c)
      /\ UNCHANGED <<person, invites, links, passkeys, kept>>
  BY <1>2 DEF signInWithPasskey, Handles
<1>4. PICK k \in 1..NumPasskeys, s \in 1..NumSessions :
         passkeys[k].state = "open" /\ startSession(r, s, "passkey", k, c)
  BY <1>1, <1>2 DEF signInWithPasskey
<1>5. /\ c \in 1..NumCeremonies /\ ceremonies[c].kind = "sign-in"
  BY <1>2, <1>3 DEF IInv, InOrder, RequestsInOrder, CeremonyKinds
<1>6. /\ sessions' \in [1..NumSessions -> SessionRows]
      /\ request' \in [Requests -> AllRequests] /\ IdleIsIdle'
  <2>1. k \in 0..NumLinks + NumPasskeys /\ c \in 0..NumCeremonies
    BY <1>5, SignInAssumption
  <2> QED
    BY <1>3, <1>4, <2>1, StartIs
<1>7. spent' \subseteq 1..NumCeremonies
  BY <1>1, <1>3, <1>5 DEF spendChallenge
<1>8. TypeOK'
  BY <1>3, <1>6, <1>7, Typed, TypedNext DEF IInv, kept
<1>9. /\ SessionsInOrder' /\ LinksInOrder' /\ RequestsInOrder'
      /\ CeremoniesInOrder' /\ EndedIsOver' /\ SessionsOnce' /\ GivenStays
  BY <1>3, <1>4, <1>5, <1>8, PasskeyStarts DEF kept
<1>10. PasskeysInOrder' /\ PasskeysOnce'
  BY <1>3, <1>9, OnceIs DEF IInv, InOrder, SignInsAreSound, PasskeysInOrder,
     PasskeysOnce, GivenStays, Given
<1> QED
  BY <1>8, <1>9, <1>10, OnceIs DEF IInv, InOrder, SignInsAreSound

LEMMA AddKeeps ==
    ASSUME IInv, NEW r \in Requests, addPasskey(r)
    PROVE  IInv'
<1>1. /\ passkeys \in [1..NumPasskeys -> PasskeyRows]
      /\ spent \subseteq 1..NumCeremonies
      /\ DOMAIN passkeys = 1..NumPasskeys
      /\ host \in 1..events + 1 /\ events \in 0..MaxEvents
  BY Typed DEF IInv
<1>2. PICK c : c = request[r].what
  OBVIOUS
<1>3. /\ request[r].kind = "add" /\ spendChallenge(c) /\ Refuse(r)
      /\ UNCHANGED <<person, sessions, invites, links, kept>>
  BY <1>2 DEF addPasskey, Handles
<1>4. PICK k \in 1..NumPasskeys : registerPasskey(k, 0, c)
  BY <1>1, <1>2 DEF addPasskey
<1>5. c \in 1..NumCeremonies /\ ceremonies[c].kind = "add"
  BY <1>2, <1>3 DEF IInv, InOrder, RequestsInOrder, CeremonyKinds
<1>6. PICK x : x = [state |-> "open", host |-> host, invite |-> 0, asked |-> c]
  OBVIOUS
<1>7. /\ x \in PasskeyRows /\ x.state = "open" /\ x.invite = 0 /\ x.asked = c
  <2>1. host \in 0..MaxEvents + 1
    BY <1>1, SignInAssumption
  <2> QED
    BY <1>5, <1>6, <2>1, SignInAssumption DEF PasskeyRows, States
<1>8. /\ passkeys' \in [1..NumPasskeys -> PasskeyRows]
      /\ passkeys[k].state = "none" /\ passkeys'[k] = x
      /\ \A m \in 1..NumPasskeys : m # k => passkeys'[m] = passkeys[m]
  <2>1. passkeys' = [passkeys EXCEPT ![k] = x] /\ passkeys[k].state = "none"
    BY <1>4, <1>6 DEF registerPasskey, Fresh
  <2> QED
    BY <1>1, <1>7, <2>1
<1>9. /\ request' \in [Requests -> AllRequests] /\ IdleIsIdle'
      /\ RequestsInOrder' /\ CeremoniesInOrder'
  BY <1>3, RefuseKeeps DEF kept
<1>10. spent' \subseteq 1..NumCeremonies
  BY <1>1, <1>3, <1>5 DEF spendChallenge
<1>11. TypeOK'
  BY <1>3, <1>8, <1>9, <1>10, Typed, TypedNext DEF IInv, kept
<1>12. GivenStays /\ Given(c)' /\ ~Given(c)
  BY <1>3, <1>5 DEF spendChallenge, GivenStays, Given, kept
<1>13. SessionsInOrder' /\ LinksInOrder'
  BY <1>3, <1>12 DEF IInv, InOrder, SessionsInOrder, LinksInOrder,
     GivenStays, Given
<1>14. PasskeysInOrder'
  <2>1. SUFFICES ASSUME NEW m \in 1..NumPasskeys
                 PROVE  /\ passkeys'[m].state # "none" =>
                              /\ passkeys'[m].asked \in 1..NumCeremonies
                              /\ Given(passkeys[m].asked)'
                        /\ passkeys'[m].invite # 0 =>
                              invites'[passkeys'[m].invite] = "used"
    BY Zenon DEF PasskeysInOrder
  <2>2. CASE m = k
    BY <1>5, <1>7, <1>8, <1>12, <2>2 DEF Given
  <2>3. CASE m # k
    BY <1>3, <1>8, <1>12, <2>3 DEF IInv, InOrder, PasskeysInOrder,
       GivenStays, Given
  <2> QED
    BY <2>2, <2>3
<1>15. PasskeysOnce' /\ SessionsOnce'
  <2>1. PasskeysOnce /\ SessionsOnce
    BY OnceIs DEF IInv, SignInsAreSound
  <2>2. ASSUME NEW m \in 1..NumPasskeys, m # k, passkeys[m].state # "none"
        PROVE  passkeys[m].asked # c
    BY <1>5, <1>12, <2>2 DEF IInv, InOrder, PasskeysInOrder
  <2>3. PasskeysOnce'
    BY <1>7, <1>8, <2>1, <2>2 DEF PasskeysOnce
  <2> QED
    BY <1>3, <2>1, <2>3 DEF SessionsOnce
<1>16. EndedIsOver'
  <2>1. StoppedHasNoWayIn'
    BY <1>3, <1>11, SameSessions, NobodyStopped
  <2>2. PasskeySessions'
    BY <1>3, <1>7, <1>8, DomainsAre, DomainsNext DEF IInv, InOrder,
       SessionsInOrder, SignInsAreSound, EndedIsOver, PasskeySessions
  <2>3. ReplayEnds'
    BY <1>3 DEF IInv, SignInsAreSound, EndedIsOver, ReplayEnds
  <2> QED
    BY <2>1, <2>2, <2>3 DEF EndedIsOver
<1> QED
  BY <1>9, <1>11, <1>13, <1>14, <1>15, <1>16, OnceIs
     DEF IInv, InOrder, SignInsAreSound

\* A link used for the first time.
LEMMA FirstUseKeeps ==
    ASSUME IInv, NEW r \in Requests, NEW l \in 1..NumLinks,
           NEW s \in 1..NumSessions,
           request[r].pc = "in", links[l].state = "open",
           startSession(r, s, "link", l, 0),
           links' = [links EXCEPT ![l].state = "used", ![l].session = s],
           UNCHANGED <<person, invites, passkeys, spent, kept>>
    PROVE  IInv'
<1>1. /\ links \in [1..NumLinks -> LinkRows]
      /\ sessions \in [1..NumSessions -> SessionRows]
  BY Typed DEF IInv
<1>2. l \in 0..NumLinks + NumPasskeys /\ 0 \in 0..NumCeremonies
  BY SignInAssumption
<1>3. /\ Active /\ sessions[s].state = "none"
      /\ sessions' \in [1..NumSessions -> SessionRows]
      /\ sessions'[s].state = "open" /\ sessions'[s].via = "link"
      /\ sessions'[s].of = l /\ sessions'[s].asked = 0
      /\ \A t \in 1..NumSessions : t # s => sessions'[t] = sessions[t]
      /\ request' \in [Requests -> AllRequests] /\ IdleIsIdle'
      /\ \A q \in Requests : request'[q].kind = request[q].kind
                             /\ request'[q].what = request[q].what
  BY <1>2, StartIs
<1>4. PICK y : y = [links[l] EXCEPT !.state = "used", !.session = s]
  OBVIOUS
<1>5. /\ y \in LinkRows /\ y.state = "used" /\ y.session = s
      /\ y.replayed = links[l].replayed
  <2>1. links[l] \in LinkRows /\ s \in 0..NumSessions
    BY <1>1, SignInAssumption
  <2>2. PICK z : z = [links[l] EXCEPT !.state = "used"]
    OBVIOUS
  <2>3. /\ z \in LinkRows /\ z.state = "used"
        /\ z.replayed = links[l].replayed
    BY <2>1, <2>2, SMT DEF LinkRows, States
  <2>4. y = [z EXCEPT !.session = s]
    BY <1>4, <2>2
  <2> QED
    BY <2>1, <2>3, <2>4, SMT DEF LinkRows
<1>6. /\ links' \in [1..NumLinks -> LinkRows] /\ links'[l] = y
      /\ \A m \in 1..NumLinks : m # l => links'[m] = links[m]
  <2>1. links' = [links EXCEPT ![l] = y]
    BY <1>1, <1>4
  <2> QED
    BY <1>1, <1>5, <2>1
<1>7. TypeOK'
  BY <1>3, <1>6, Typed, TypedNext DEF IInv, kept
<1>8. links[l].session = 0 /\ ~links[l].replayed
  BY <1>1 DEF IInv, InOrder, LinksInOrder, LinkRows
<1>9. \A t \in 1..NumSessions : sessions[t].via = "link" =>
         sessions[t].of \in 1..NumLinks /\ sessions[t].of # l
  BY <1>8 DEF IInv, InOrder, SessionsInOrder
<1>10. RequestsInOrder' /\ CeremoniesInOrder' /\ PasskeysInOrder'
  BY <1>3 DEF IInv, InOrder, RequestsInOrder, CeremoniesInOrder,
     PasskeysInOrder, Given, kept
<1>11. SessionsInOrder'
  <2>1. SUFFICES ASSUME NEW t \in 1..NumSessions
                 PROVE  /\ sessions'[t].via = "link" =>
                              /\ sessions'[t].of \in 1..NumLinks
                              /\ sessions'[t].asked = 0
                              /\ links'[sessions'[t].of].session = t
                        /\ sessions'[t].via = "passkey" =>
                              /\ sessions'[t].of \in 1..NumPasskeys
                              /\ sessions'[t].asked \in 1..NumCeremonies
                              /\ Given(sessions[t].asked)'
    BY Zenon DEF SessionsInOrder
  <2>2. CASE t = s
    BY <1>3, <1>5, <1>6, <2>2
  <2>3. CASE t # s
    BY <1>3, <1>6, <1>9, <2>3 DEF IInv, InOrder, SessionsInOrder, Given, kept
  <2> QED
    BY <2>2, <2>3
<1>12. ASSUME NEW m \in 1..NumLinks, m # l, links[m].session # 0
       PROVE  /\ links[m].session \in 1..NumSessions
              /\ sessions'[links[m].session] = sessions[links[m].session]
              /\ sessions[links[m].session].state # "none"
  <2>1. sessions[links[m].session].state # "none"
    BY <1>12 DEF IInv, InOrder, LinksInOrder
  <2>2. links[m].session \in 1..NumSessions
    BY <1>1, <1>12 DEF LinkRows
  <2> QED
    BY <1>3, <2>1, <2>2
<1>13. LinksInOrder'
  <2>1. SUFFICES ASSUME NEW m \in 1..NumLinks
                 PROVE  /\ links'[m].session # 0 <=> links'[m].state = "used"
                        /\ links'[m].replayed => links'[m].state = "used"
                        /\ links'[m].session # 0 =>
                             sessions'[links'[m].session].state # "none"
    BY DEF LinksInOrder
  <2>2. CASE m = l
    BY <1>3, <1>5, <1>6, <2>2
  <2>3. CASE m # l
    BY <1>6, <1>12, <2>3 DEF IInv, InOrder, LinksInOrder
  <2> QED
    BY <2>2, <2>3
<1>14. EndedIsOver'
  <2>1. StoppedHasNoWayIn'
    BY <1>3, StoppedAtStart
  <2>2. PasskeySessions'
    BY <1>3, DomainsAre, DomainsNext, <1>7 DEF IInv, SignInsAreSound,
       EndedIsOver, PasskeySessions
  <2>3. SUFFICES ASSUME NEW m \in 1..NumLinks, links'[m].replayed
                 PROVE  sessions'[links'[m].session].state # "open"
    BY <1>7, <2>1, <2>2, DomainsNext DEF EndedIsOver, ReplayEnds
  <2>4. m # l /\ links'[m] = links[m]
    BY <1>5, <1>6, <1>8, <2>3
  <2>5. links[m].session # 0
    BY <2>3, <2>4 DEF IInv, InOrder, LinksInOrder
  <2>6. sessions[links[m].session].state # "open"
    BY <2>3, <2>4, DomainsAre DEF IInv, SignInsAreSound, EndedIsOver,
       ReplayEnds
  <2> QED
    BY <1>12, <2>4, <2>5, <2>6
<1>15. SessionsOnce' /\ PasskeysOnce'
  <2>1. SessionsOnce /\ PasskeysOnce
    BY OnceIs DEF IInv, SignInsAreSound
  <2>2. ASSUME NEW t \in 1..NumSessions, t # s, sessions[t].via # "none"
        PROVE  sessions[t].asked # 0 \/ sessions[t].of # l
    <3>1. sessions[t].via \in {"link", "passkey"}
      <4>1. sessions[t] \in SessionRows
        BY <1>1
      <4> QED
        BY <2>2, <4>1 DEF SessionRows
    <3> QED
      BY <1>9, <3>1 DEF IInv, InOrder, SessionsInOrder
  <2>3. SessionsOnce'
    BY <1>3, <2>1, <2>2 DEF SessionsOnce
  <2> QED
    BY <2>1, <2>3 DEF PasskeysOnce
<1> QED
  BY <1>7, <1>10, <1>11, <1>13, <1>14, <1>15, OnceIs
     DEF IInv, InOrder, SignInsAreSound

\* A link used again.
LEMMA ReplayKeeps ==
    ASSUME IInv, NEW r \in Requests, NEW l \in 1..NumLinks,
           links[l].state = "used", Replayed(l), Refuse(r),
           UNCHANGED <<person, invites, passkeys, spent, kept>>
    PROVE  IInv'
<1>1. /\ links \in [1..NumLinks -> LinkRows]
      /\ sessions \in [1..NumSessions -> SessionRows]
  BY Typed DEF IInv
<1>2. PICK y : y = [links[l] EXCEPT !.replayed = TRUE]
  OBVIOUS
<1>3. /\ y \in LinkRows /\ y.state = "used" /\ y.session = links[l].session
      /\ y.replayed
  <2>1. links[l] \in LinkRows
    BY <1>1
  <2>2. links[l] = [state |-> links[l].state, session |-> links[l].session,
                    replayed |-> links[l].replayed]
    BY <2>1, Zenon DEF LinkRows
  <2>3. y = [state |-> links[l].state, session |-> links[l].session,
             replayed |-> TRUE]
    BY <1>2, <2>2, Zenon
  <2>4. links[l].state \in States /\ links[l].session \in 0..NumSessions
    BY <2>1 DEF LinkRows
  <2> QED
    BY <2>3, <2>4 DEF LinkRows
<1>4. /\ links' \in [1..NumLinks -> LinkRows] /\ links'[l] = y
      /\ \A m \in 1..NumLinks : m # l => links'[m] = links[m]
  <2>1. links' = [links EXCEPT ![l] = y]
    BY <1>2 DEF Replayed
  <2> QED
    BY <1>1, <1>3, <2>1
<1>5. SessionsEnd /\ sessions' \in [1..NumSessions -> SessionRows]
  BY <1>1, EndedEnds DEF Replayed
<1>6. /\ request' \in [Requests -> AllRequests] /\ IdleIsIdle'
      /\ RequestsInOrder' /\ CeremoniesInOrder'
  BY RefuseKeeps DEF kept
<1>7. TypeOK'
  BY <1>4, <1>5, <1>6, Typed, TypedNext DEF IInv, kept
<1>8. \A m \in 1..NumLinks : /\ links'[m].session = links[m].session
                             /\ links'[m].state = links[m].state
                             /\ links'[m].replayed => links[m].replayed
                                                      \/ m = l
  BY <1>3, <1>4
<1>9. ASSUME NEW m \in 1..NumLinks, links[m].session # 0
      PROVE  /\ links[m].session \in 1..NumSessions
             /\ sessions[links[m].session].state # "none"
             /\ sessions'[links[m].session].state # "none"
  <2>1. sessions[links[m].session].state # "none"
    BY <1>9 DEF IInv, InOrder, LinksInOrder
  <2>2. links[m].session \in 1..NumSessions
    BY <1>1, <1>9 DEF LinkRows
  <2> QED
    BY <1>5, <2>1, <2>2 DEF SessionsEnd
<1>10. LinksInOrder'
  BY <1>8, <1>9 DEF IInv, InOrder, LinksInOrder
<1>11. SessionsInOrder' /\ PasskeysInOrder'
  <2>1. SUFFICES ASSUME NEW t \in 1..NumSessions
                 PROVE  /\ sessions'[t].via = "link" =>
                              /\ sessions'[t].of \in 1..NumLinks
                              /\ sessions'[t].asked = 0
                              /\ links'[sessions'[t].of].session = t
                        /\ sessions'[t].via = "passkey" =>
                              /\ sessions'[t].of \in 1..NumPasskeys
                              /\ sessions'[t].asked \in 1..NumCeremonies
                              /\ Given(sessions[t].asked)'
    BY DEF SessionsInOrder, PasskeysInOrder, IInv, InOrder, Given, kept
  <2>2. /\ sessions'[t].via = sessions[t].via
        /\ sessions'[t].of = sessions[t].of
        /\ sessions'[t].asked = sessions[t].asked
    BY <1>5 DEF SessionsEnd
  <2> QED
    BY <1>8, <2>2 DEF IInv, InOrder, SessionsInOrder, Given, kept
<1>12. EndedIsOver'
  <2>1. StoppedHasNoWayIn'
    BY <1>5, <1>7, NobodyStopped
  <2>2. PasskeySessions'
    BY <1>5, <1>7, SamePasskeys, DomainsNext
       DEF PasskeySessions, GoesWithIt, SessionsEnd
  <2>3. SUFFICES ASSUME NEW m \in 1..NumLinks, links'[m].replayed
                 PROVE  sessions'[links'[m].session].state # "open"
    BY <1>7, <2>1, <2>2, DomainsNext DEF EndedIsOver, ReplayEnds
  <2>4. links[m].session # 0
    BY <1>8, <2>3 DEF IInv, InOrder, LinksInOrder
  <2>5. links'[m].session = links[m].session
        /\ links[m].session \in 1..NumSessions
    BY <1>8, <1>9, <2>4
  <2>6. CASE m = l
    BY <1>1, <2>5, <2>6, EndedIs DEF Replayed
  <2>7. CASE m # l
    <3>1. sessions[links[m].session].state # "open"
      BY <1>8, <2>3, <2>7, DomainsAre DEF IInv, SignInsAreSound, EndedIsOver,
         ReplayEnds
    <3> QED
      BY <1>5, <2>5, <3>1 DEF SessionsEnd
  <2> QED
    BY <2>6, <2>7
<1>13. SessionsOnce' /\ PasskeysOnce'
  <2>1. SessionsOnce /\ PasskeysOnce
    BY OnceIs DEF IInv, SignInsAreSound
  <2>2. SessionsOnce'
    BY <1>5, <2>1 DEF SessionsOnce, SessionsEnd
  <2> QED
    BY <2>1, <2>2 DEF PasskeysOnce
<1> QED
  BY <1>6, <1>7, <1>10, <1>11, <1>12, <1>13, OnceIs
     DEF IInv, InOrder, SignInsAreSound

LEMMA RedeemKeeps ==
    ASSUME IInv, NEW r \in Requests, redeemSignInLink(r)
    PROVE  IInv'
<1>1. PICK l : l = request[r].what
  OBVIOUS
<1>2. /\ request[r].pc = "in" /\ request[r].kind = "link"
      /\ UNCHANGED <<person, invites, passkeys, spent, kept>>
      /\ \/ /\ links[l].state = "open"
            /\ \E s \in DOMAIN sessions :
                  /\ startSession(r, s, "link", l, 0)
                  /\ links' = [links EXCEPT ![l].state = "used",
                                            ![l].session = s]
         \/ links[l].state = "used" /\ Replayed(l) /\ Refuse(r)
         \/ Refuse(r) /\ UNCHANGED <<sessions, links>>
  BY <1>1, Zenon DEF redeemSignInLink, Handles
<1>3. l \in 1..NumLinks /\ DOMAIN sessions = 1..NumSessions
  BY <1>1, <1>2, DomainsAre DEF IInv, InOrder, RequestsInOrder
<1>4. CASE /\ links[l].state = "open"
           /\ \E s \in DOMAIN sessions :
                 /\ startSession(r, s, "link", l, 0)
                 /\ links' = [links EXCEPT ![l].state = "used",
                                           ![l].session = s]
  <2>1. PICK s \in 1..NumSessions :
           /\ startSession(r, s, "link", l, 0)
           /\ links' = [links EXCEPT ![l].state = "used", ![l].session = s]
    BY <1>3, <1>4
  <2> QED
    BY <1>2, <1>3, <1>4, <2>1, FirstUseKeeps
<1>5. CASE links[l].state = "used" /\ Replayed(l) /\ Refuse(r)
  BY <1>2, <1>3, <1>5, ReplayKeeps
<1>6. CASE Refuse(r) /\ UNCHANGED <<sessions, links>>
  BY <1>2, <1>6, RefusedKeeps
<1> QED
  BY <1>2, <1>4, <1>5, <1>6

-----------------------------------------------------------------------------
(* The theorems.                                                           *)

LEMMA InitInOrder ==
    ASSUME Init
    PROVE  IInv
<1>. USE SignInAssumption
<1>1. PICK b : b = CHOOSE d \in Browsers : TRUE
  OBVIOUS
<1>2. b \in Browsers
  BY <1>1
<1>3. /\ person \in [locked : BOOLEAN, retired : BOOLEAN]
      /\ NoRow \in SessionRows /\ NoRow.state = "none" /\ NoRow.via = "none"
      /\ NoLink \in LinkRows /\ NoLink.session = 0 /\ ~NoLink.replayed
      /\ NoLink.state = "none"
      /\ NoKey \in PasskeyRows /\ NoKey.state = "none" /\ NoKey.invite = 0
      /\ NoneAsked \in Ceremonies /\ NoneAsked.kind = "none"
      /\ Idle(b) \in AllRequests /\ Idle(b).kind = "none"
      /\ Idle(b).browser = b
  BY <1>2 DEF Init, NoRow, NoLink, NoKey, NoneAsked, Idle, SessionRows,
     LinkRows, PasskeyRows, Ceremonies, AllRequests, States
<1>4. /\ sessions = [s \in 1..NumSessions |-> NoRow]
      /\ invites = [i \in 1..NumInvites |-> "none"]
      /\ links = [l \in 1..NumLinks |-> NoLink]
      /\ passkeys = [k \in 1..NumPasskeys |-> NoKey]
      /\ spent = {}
      /\ ceremonies = [c \in 1..NumCeremonies |-> NoneAsked]
      /\ cookie = [c \in Browsers |-> 0]
      /\ request = [r \in Requests |-> Idle(b)]
      /\ host = 1 /\ events = 0
  BY <1>1, Zenon DEF Init
<1>5. IdleIsIdle
  BY <1>3, <1>4 DEF IdleIsIdle
<1>6. /\ sessions \in [1..NumSessions -> SessionRows]
      /\ invites \in [1..NumInvites -> States]
      /\ links \in [1..NumLinks -> LinkRows]
      /\ passkeys \in [1..NumPasskeys -> PasskeyRows]
      /\ ceremonies \in [1..NumCeremonies -> Ceremonies]
      /\ request \in [Requests -> AllRequests]
  BY <1>3, <1>4 DEF States
<1>7. /\ cookie \in [Browsers -> 0..NumSessions]
      /\ host \in 1..events + 1 /\ events \in 0..MaxEvents
      /\ spent \subseteq 1..NumCeremonies
  BY <1>4
<1>8. TypeOK
  BY <1>3, <1>5, <1>6, <1>7, Typed
<1>9. /\ RequestsInOrder /\ CeremoniesInOrder /\ SessionsInOrder
      /\ LinksInOrder /\ PasskeysInOrder
  BY <1>3, <1>4 DEF RequestsInOrder, CeremoniesInOrder, SessionsInOrder,
     LinksInOrder, PasskeysInOrder, CeremonyKinds
<1>10. EndedIsOver
  BY <1>3, <1>4 DEF EndedIsOver, StoppedHasNoWayIn, PasskeySessions,
     ReplayEnds
<1>11. UsedOnce
  BY <1>3, <1>4, <1>8, OnceIs DEF SessionsOnce, PasskeysOnce
<1> QED
  BY <1>8, <1>9, <1>10, <1>11 DEF IInv, InOrder, SignInsAreSound

LEMMA StepInOrder ==
    ASSUME IInv, [Next]_vars
    PROVE  IInv'
<1>1. CASE lockUser
  BY <1>1, LockKeeps
<1>2. CASE unlockUser
  BY <1>2, UnlockKeeps
<1>3. CASE retireUser
  BY <1>3, RetireKeeps
<1>4. CASE issueInvite
  BY <1>4, IssueInviteKeeps
<1>5. CASE issueSignInLink
  BY <1>5, IssueLinkKeeps
<1>6. CASE TunnelStarts
  BY <1>6, TunnelKeeps
<1>7. CASE SessionLapses
  BY <1>7, SessionLapsesKeeps
<1>8. CASE LinkLapses
  BY <1>8, LinkLapsesKeeps
<1>9. CASE InviteLapses
  BY <1>9, InviteLapsesKeeps
<1>10. CASE CeremonyLapses
  BY <1>10, CeremonyLapsesKeeps
<1>11. CASE Options
  BY <1>11, OptionsKeeps
<1>12. ASSUME NEW r \in Requests,
              \/ Arrive(r) \/ SignedInAs(r) \/ Logout(r)
              \/ redeemSignInLink(r) \/ Answered(r) \/ AnswerFails(r)
              \/ acceptInvite(r) \/ addPasskey(r) \/ signInWithPasskey(r)
              \/ removePasskey(r) \/ NothingToRemove(r)
       PROVE  IInv'
  BY <1>12, ArriveKeeps, SignedInKeeps, LogoutKeeps, RedeemKeeps,
     AnsweredKeeps, AcceptKeeps, AddKeeps, SignInKeeps, RemoveKeeps
<1>13. CASE UNCHANGED vars
  <2>1. UNCHANGED <<person, sessions, invites, links, passkeys, spent,
                    ceremonies, cookie, host, events, request>>
    BY <1>13, Zenon DEF vars, rows, kept
  <2>2. TypeOK'
    BY <2>1, Typed, TypedNext DEF IInv, IdleIsIdle
  <2>3. SessionsEnd /\ UsedStays /\ LinksStay
    BY <2>1, SameSessions, SameLinks DEF UsedStays
  <2>4. PasskeysEnd /\ GoesWithIt
    BY <2>1, <2>3, SamePasskeys
  <2>5. StoppedHasNoWayIn'
    BY <2>1, <2>2, <2>3, NobodyStopped
  <2>6. RequestsInOrder' /\ CeremoniesInOrder' /\ GivenStays
    BY <2>1, SameRequests
  <2> QED
    BY <2>2, <2>3, <2>4, <2>5, <2>6, QuietKeeps
<1> QED
  BY <1>1, <1>2, <1>3, <1>4, <1>5, <1>6, <1>7, <1>8, <1>9, <1>10, <1>11,
     <1>12, <1>13, Zenon DEF Next

\* Whatever stops, lapses, is sent again or answered late, a request, a link
\* and an invite are of what they name, and a challenge is answered once.
THEOREM SignInInOrder == Spec => []IInv
BY InitInOrder, StepInOrder, PTL DEF Spec

\* The state has its types.
THEOREM SignInTyped == Spec => []TypeOK
<1>1. IInv => TypeOK
  BY DEF IInv
<1> QED
  BY <1>1, SignInInOrder, PTL

\* A stop leaves nobody a way in, a session lives no longer than its passkey,
\* a link used again ends what it started; and a link starts one session, an
\* invite makes one passkey, a challenge has one answer.
THEOREM SignInsStaySound == Spec => []SignInsAreSound
<1>1. IInv => SignInsAreSound
  BY DEF IInv
<1> QED
  BY <1>1, SignInInOrder, PTL
=============================================================================
