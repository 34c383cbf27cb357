--------------------------- MODULE KeyDistributor ---------------------------
(***************************************************************************)
(* The Key Distributor service: key-distributor/server.js on top of        *)
(* conference.js (membership) and keys.js (key material).  Node runs every *)
(* request, socket event and message handler to completion on one thread,  *)
(* so each handler is one action.                                          *)
(*                                                                         *)
(*   - A secret drawn by crypto.randomBytes is the number of the handler   *)
(*     that drew it (`clock`): two secrets of one kind are equal only when *)
(*     they are the same draw.  keys.js draws the KEK and the E2E salt     *)
(*     together, `kek` stands for both.                                    *)
(*   - A conference or endpoint id is the sequence of its colon-separated  *)
(*     parts, which is what the string tests of broadcastToConference see. *)
(*   - `sent` keeps what the server wrote to each socket, in order.        *)
(*   - Endpoint.ws, ssrcs, joinedAt and createdAt are written and never    *)
(*     read by a decision, and are left out; so are the GET routes, which  *)
(*     change nothing, and the 400 replies to a body without endpointId.   *)
(***************************************************************************)
EXTENDS Naturals, Sequences, SequencesExt

CONSTANTS
    Conferences,    \* conference ids in use, each a sequence of parts
    Endpoints,      \* endpoint ids in use, each a sequence of parts
    Sockets,        \* WebSocket connections, each used at most once
    NullId,         \* the id <<"null">>: how `:${null}` reads in a key
    NoSocket,       \* Map.get of an absent key
    MaxHandlers     \* bound: request and message handlers run

ASSUME HandlersAssumption == MaxHandlers \in Nat
ASSUME NoSocketAssumption == NoSocket \notin Sockets

VARIABLES
    conferences,         \* ConferenceManager.conferences
    endpointConnections, \* `${conferenceId}:${endpointId}` -> socket
    sfuConnections,      \* conferenceId -> socket
    socket,              \* the server's end of each WebSocket
    sent,                \* messages written to each socket
    issued,              \* history: key bundles handed out, with their receiver
    clock                \* handlers run so far

vars == <<conferences, endpointConnections, sfuConnections, socket, sent,
          issued, clock>>

Keys == {c \o e : c \in Conferences, e \in Endpoints}

NoKey == 0
NoConference == [born |-> 0]
Live(c) == conferences[c].born # 0
Unused == [state |-> "unused"]

-----------------------------------------------------------------------------
(* keys.js.  An operator whose name ends in _ and a phrase is not the code:  *)
(* it is a slip the properties must catch, kept beside what it breaks.       *)

GenerateKek_SpiKept(conf, n) ==
    [conf EXCEPT !.kek = n, !.e2eGroupKey = IF @ = NoKey THEN n ELSE @]
GenerateKek_GroupKeyRenewed(conf, n) ==
    [conf EXCEPT !.kek = n, !.kekSpi = @ + 1, !.e2eGroupKey = n]

GenerateKek(conf, n) ==
    [conf EXCEPT !.kek = n,
                 !.kekSpi = @ + 1,
                 !.e2eGroupKey = IF @ = NoKey THEN n ELSE @]

GenerateEndpointE2eKey(conf, e, n) ==
    [conf EXCEPT !.endpointKeys[e] = n]

(* conference.js; `born` names the Conference object *)

NewConference_NoKek(n) ==
    [born |-> n, kek |-> NoKey, kekSpi |-> 0, e2eGroupKey |-> NoKey,
     endpoints |-> {}, endpointKeys |-> [e \in Endpoints |-> NoKey]]
NewConference(n) ==
    GenerateKek([born |-> n, kek |-> NoKey, kekSpi |-> 0, e2eGroupKey |-> NoKey,
                 endpoints |-> {}, endpointKeys |-> [e \in Endpoints |-> NoKey]], n)

CreatedConference(c, n) == IF Live(c) THEN conferences[c] ELSE NewConference(n)

AddEndpoint(conf, e, n) ==
    IF e \in conf.endpoints
    THEN conf
    ELSE [GenerateEndpointE2eKey(conf, e, n) EXCEPT !.endpoints = @ \cup {e}]

RemoveEndpoint_KeyKept(conf, e, n) ==
    LET rest == [conf EXCEPT !.endpoints = @ \ {e}]
    IN  IF rest.endpoints = {} THEN rest ELSE GenerateKek(rest, n)
RemoveEndpoint_NoRotation(conf, e, n) ==
    [conf EXCEPT !.endpoints = @ \ {e}, !.endpointKeys[e] = NoKey]
RemoveEndpoint(conf, e, n) ==
    LET rest == [conf EXCEPT !.endpoints = @ \ {e},
                             !.endpointKeys[e] = NoKey]
    IN  IF rest.endpoints = {} THEN rest ELSE GenerateKek(rest, n)

Bundle(c, conf) ==
    [conf |-> c, born |-> conf.born, kekSpi |-> conf.kekSpi, kek |-> conf.kek,
     e2eMasterKey |-> conf.e2eGroupKey]

RekeyMessage_BuiltBefore(c, conf) ==
    [type |-> "rekey", bundle |-> Bundle(c, conf), allKeys |-> conferences[c].endpointKeys]
RekeyMessage(c, conf) ==
    [type |-> "rekey", bundle |-> Bundle(c, conf), allKeys |-> conf.endpointKeys]

-----------------------------------------------------------------------------
(* server.js: sockets and sending *)

IsOpen(s) == socket[s].state = "open"

(* The keys a broadcast addresses: key.startsWith(`${c}:`) and not           *)
(* key.endsWith(`:${except}`).                                               *)
Addressed_NullIsNobody(c, except) ==
    {k \in Keys : except # NullId /\ IsStrictPrefix(c, k) /\ ~IsStrictSuffix(except, k)}
Addressed(c, except) ==
    {k \in Keys : IsStrictPrefix(c, k) /\ ~IsStrictSuffix(except, k)}

(* Ids that these tests tell apart: the keys of a conference begin with its  *)
(* id, those of an endpoint end in its id, and nobody is called null.  Ids   *)
(* without a colon are so.  They come from requests, which may send others.  *)
IdsApart ==
    /\ NullId \notin Endpoints
    /\ \A c, d \in Conferences, e \in Endpoints :
          IsStrictPrefix(d, c \o e) <=> d = c
    /\ \A c \in Conferences, e \in Endpoints, x \in Endpoints \cup {NullId} :
          IsStrictSuffix(x, c \o e) <=> x = e

Receivers(connections, c, except) ==
    {s \in Sockets : IsOpen(s) /\ \E k \in Addressed(c, except) : connections[k] = s}

SfuReceivers_ExistingOnly(connections, c) ==
    {s \in Sockets : Live(c) /\ IsOpen(s) /\ connections[c] = s}
SfuReceivers(connections, c) == {s \in Sockets : IsOpen(s) /\ connections[c] = s}

(* Each of `receivers` gets the messages of `out` appended.                  *)
Deliver(log, receivers, out) ==
    [s \in Sockets |-> IF s \in receivers THEN log[s] \o out ELSE log[s]]

Tick == clock < MaxHandlers /\ clock' = clock + 1

Now == clock + 1    \* the number of the handler that is running

(* History: conf's bundle was handed to these endpoints.                     *)
Issue(c, conf, endpoints) ==
    {[to |-> e, member |-> e \in conf.endpoints, bundle |-> Bundle(c, conf)] :
        e \in endpoints}

Owners(receivers) == {socket[s].endpoint : s \in receivers}

-----------------------------------------------------------------------------
Init ==
    /\ conferences = [c \in Conferences |-> NoConference]
    /\ endpointConnections = [k \in Keys |-> NoSocket]
    /\ sfuConnections = [c \in Conferences |-> NoSocket]
    /\ socket = [s \in Sockets |-> Unused]
    /\ sent = [s \in Sockets |-> <<>>]
    /\ issued = {}
    /\ clock = 0

(* POST /conference: a new conference, at spi 1 and empty.  An existing one  *)
(* is returned as it is.                                                     *)
CreateConference(c) ==
    /\ ~Live(c)
    /\ Tick
    /\ conferences' = [conferences EXCEPT ![c] = NewConference(Now)]
    /\ UNCHANGED <<endpointConnections, sfuConnections, socket, sent, issued>>

(* POST /conference/:id/join.  The reply carries the bundle; the members     *)
(* already connected are told of the newcomer, and so is the SFU.            *)
Join(c, e) ==
    LET conf == AddEndpoint(CreatedConference(c, Now), e, Now)
        newMember == [type |-> "new_member", endpointId |-> e,
                      e2eKey |-> conf.endpointKeys[e]]
        joined == [type |-> "endpoint_joined", endpointId |-> e]
    IN  /\ Tick
        /\ conferences' = [conferences EXCEPT ![c] = conf]
        /\ sent' = Deliver(Deliver(sent, Receivers(endpointConnections, c, e), <<newMember>>),
                           SfuReceivers(sfuConnections, c), <<joined>>)
        /\ issued' = issued \cup Issue(c, conf, {e})
        /\ UNCHANGED <<endpointConnections, sfuConnections, socket>>

(* POST /conference/:id/leave.  The caller need not be a member.  The last   *)
(* one out removes the conference and the SFU's registration, otherwise the  *)
(* KEK is rotated and the bundle broadcast.                                  *)
Leave(c, e) ==
    LET conf == RemoveEndpoint(conferences[c], e, Now)
        removed == conf.endpoints = {}
        connections == [endpointConnections EXCEPT ![c \o e] = NoSocket]
        sfus == IF removed THEN [sfuConnections EXCEPT ![c] = NoSocket] ELSE sfuConnections
        receivers == IF removed THEN {} ELSE Receivers(connections, c, NullId)
        left == [type |-> "endpoint_left", endpointId |-> e]
        toSfu == IF removed THEN <<left>> ELSE <<[type |-> "rekey_notice"], left>>
    IN  /\ Live(c)
        /\ Tick
        /\ conferences' = [conferences EXCEPT ![c] = IF removed THEN NoConference ELSE conf]
        /\ endpointConnections' = connections
        /\ sfuConnections' = sfus
        /\ sent' = Deliver(Deliver(sent, receivers, <<RekeyMessage(c, conf)>>),
                           SfuReceivers(sfus, c), toSfu)
        /\ issued' = issued \cup Issue(c, conf, Owners(receivers))
        /\ UNCHANGED socket

(* An endpoint's WebSocket is accepted: the newest one replaces the entry.   *)
(* Nothing is sent to it.                                                    *)
EndpointConnect(s, c, e) ==
    /\ socket[s] = Unused
    /\ socket' = [socket EXCEPT ![s] = [state |-> "open", role |-> "endpoint",
                                         conf |-> c, endpoint |-> e, since |-> clock]]
    /\ endpointConnections' = [endpointConnections EXCEPT ![c \o e] = s]
    /\ UNCHANGED <<conferences, sfuConnections, sent, issued, clock>>

(* The SFU's WebSocket is accepted, and told who is in the conference.       *)
SfuConnect(s, c) ==
    LET state == [type |-> "conference_state", endpoints |-> conferences[c].endpoints]
    IN  /\ socket[s] = Unused
        /\ socket' = [socket EXCEPT ![s] = [state |-> "open", role |-> "sfu",
                                             conf |-> c, since |-> clock]]
        /\ sfuConnections' = [sfuConnections EXCEPT ![c] = s]
        /\ sent' = IF Live(c) THEN Deliver(sent, {s}, <<state>>) ELSE sent
        /\ UNCHANGED <<conferences, endpointConnections, issued, clock>>

(* The connection ends: readyState is no longer OPEN, the close event is due. *)
Disconnect(s) ==
    /\ IsOpen(s)
    /\ socket' = [socket EXCEPT ![s].state = "closing"]
    /\ UNCHANGED <<conferences, endpointConnections, sfuConnections, sent, issued, clock>>

(* ws.on('close') of an endpoint: deletes whatever its key now maps to.      *)
EndpointClosed(s) ==
    /\ socket[s].state = "closing" /\ socket[s].role = "endpoint"
    /\ socket' = [socket EXCEPT ![s].state = "closed"]
    /\ endpointConnections' =
           [endpointConnections EXCEPT ![socket[s].conf \o socket[s].endpoint] = NoSocket]
    /\ UNCHANGED <<conferences, sfuConnections, sent, issued, clock>>

(* ws.on('close') of the SFU.                                                *)
SfuClosed(s) ==
    /\ socket[s].state = "closing" /\ socket[s].role = "sfu"
    /\ socket' = [socket EXCEPT ![s].state = "closed"]
    /\ sfuConnections' = [sfuConnections EXCEPT ![socket[s].conf] = NoSocket]
    /\ UNCHANGED <<conferences, endpointConnections, sent, issued, clock>>

(* handleEndpointMessage, 'ekt_tag': forwarded to the other endpoints.       *)
ForwardEktTag(s) ==
    LET c == socket[s].conf
        e == socket[s].endpoint
    IN  /\ IsOpen(s) /\ socket[s].role = "endpoint"
        /\ Tick
        /\ sent' = Deliver(sent, Receivers(endpointConnections, c, e),
                           <<[type |-> "peer_ekt_tag", fromEndpoint |-> e]>>)
        /\ UNCHANGED <<conferences, endpointConnections, sfuConnections, socket, issued>>

(* handleEndpointMessage, 'request_rekey': rotate the KEK, give the          *)
(* requester a new endpoint key if it is a member, broadcast the bundle.     *)
RequestRekey(s) ==
    LET c == socket[s].conf
        e == socket[s].endpoint
        rotated == GenerateKek(conferences[c], Now)
        conf == IF e \in rotated.endpoints
                THEN GenerateEndpointE2eKey(rotated, e, Now) ELSE rotated
        receivers == Receivers(endpointConnections, c, NullId)
    IN  /\ IsOpen(s) /\ socket[s].role = "endpoint"
        /\ Live(c)
        /\ Tick
        /\ conferences' = [conferences EXCEPT ![c] = conf]
        /\ sent' = Deliver(sent, receivers, <<RekeyMessage(c, conf)>>)
        /\ issued' = issued \cup Issue(c, conf, Owners(receivers))
        /\ UNCHANGED <<endpointConnections, sfuConnections, socket>>

(* handleSfuMessage, 'request_keys': answered on the registered SFU socket.  *)
RequestKeys(s) ==
    LET c == socket[s].conf
        keys == [type |-> "conference_keys", endpoints |-> conferences[c].endpoints]
    IN  /\ IsOpen(s) /\ socket[s].role = "sfu"
        /\ Live(c)
        /\ Tick
        /\ sent' = Deliver(sent, SfuReceivers(sfuConnections, c), <<keys>>)
        /\ UNCHANGED <<conferences, endpointConnections, sfuConnections, socket, issued>>

Next ==
    \/ \E c \in Conferences : CreateConference(c)
    \/ \E c \in Conferences, e \in Endpoints : Join(c, e) \/ Leave(c, e)
    \/ \E s \in Sockets, c \in Conferences, e \in Endpoints : EndpointConnect(s, c, e)
    \/ \E s \in Sockets, c \in Conferences : SfuConnect(s, c)
    \/ \E s \in Sockets : \/ Disconnect(s) \/ EndpointClosed(s) \/ SfuClosed(s)
                          \/ ForwardEktTag(s) \/ RequestRekey(s) \/ RequestKeys(s)

Spec == Init /\ [][Next]_vars

-----------------------------------------------------------------------------
Secrets == Nat
Drawn == Nat \ {NoKey}
KeyMaps == [Endpoints -> Secrets]
Conference == [born : Nat \ {0}, kek : Drawn, kekSpi : Nat \ {0}, e2eGroupKey : Drawn,
               endpoints : SUBSET Endpoints,
               endpointKeys : KeyMaps]
Bundles == [conf : Conferences, born : Nat, kekSpi : Nat, kek : Secrets,
            e2eMasterKey : Secrets]
Messages ==
    [type : {"rekey"}, bundle : Bundles, allKeys : KeyMaps]
    \cup [type : {"new_member"}, endpointId : Endpoints, e2eKey : Secrets]
    \cup [type : {"peer_ekt_tag"}, fromEndpoint : Endpoints]
    \cup [type : {"endpoint_joined", "endpoint_left"}, endpointId : Endpoints]
    \cup [type : {"conference_state", "conference_keys"}, endpoints : SUBSET Endpoints]
    \cup [type : {"rekey_notice"}]
States == {"open", "closing", "closed"}
SocketRecords ==
    {Unused}
    \cup [state : States, role : {"endpoint"}, conf : Conferences,
          endpoint : Endpoints, since : Nat]
    \cup [state : States, role : {"sfu"}, conf : Conferences, since : Nat]

(* The variables have the shapes the handlers give them, and a conference    *)
(* that can be looked up has a KEK and a group key: getRekeyBundle           *)
(* (conference.js:87-97) calls toString on both.                             *)
TypeOK ==
    /\ conferences \in [Conferences -> {NoConference} \cup Conference]
    /\ endpointConnections \in [Keys -> Sockets \cup {NoSocket}]
    /\ sfuConnections \in [Conferences -> Sockets \cup {NoSocket}]
    /\ socket \in [Sockets -> SocketRecords]
    /\ sent \in [Sockets -> Seq(Messages)]
    /\ issued \subseteq [to : Endpoints, member : BOOLEAN, bundle : Bundles]
    /\ clock \in Nat

(* A registered socket was accepted for the key it is registered under.      *)
RegisteredOwn ==
    /\ \A k \in Keys : endpointConnections[k] # NoSocket =>
          LET r == socket[endpointConnections[k]]
          IN  r # Unused /\ r.role = "endpoint" /\ k = r.conf \o r.endpoint
    /\ \A c \in Conferences : sfuConnections[c] # NoSocket =>
          LET r == socket[sfuConnections[c]]
          IN  r # Unused /\ r.role = "sfu" /\ c = r.conf

KeyHolders(c) == {e \in Endpoints : conferences[c].endpointKeys[e] # NoKey}

(* Members and key entries are two maps in two objects: each member has an   *)
(* entry and each entry a member, so that join always finds the key it       *)
(* announces (conference.js:141) and allKeys lists nobody who has left.      *)
KeysMatchMembers ==
    \A c \in Conferences :
        Live(c) => KeyHolders(c) = conferences[c].endpoints

(* kekSpi selects the epoch: two bundles of one Conference object that carry *)
(* the same kekSpi, by join reply or by rekey and to whomever, carry the     *)
(* same KEK, salt and group key.                                             *)
SameEpochSameKeys ==
    \A i, j \in issued :
        (/\ i.bundle.conf = j.bundle.conf
         /\ i.bundle.born = j.bundle.born
         /\ i.bundle.kekSpi = j.bundle.kekSpi) => i.bundle = j.bundle

IsRekey(m) == m.type = "rekey"

Older(a, b) == \/ a.born < b.born
               \/ a.born = b.born /\ a.kekSpi < b.kekSpi

(* A client installs each rekey as it arrives, without comparing epochs: on  *)
(* one socket the epochs of the rekeys only go up.  A conference that is     *)
(* opened again is later than the one before, though its kekSpi starts at 1. *)
RekeysInOrder ==
    \A s \in Sockets : \A i, j \in DOMAIN sent[s] :
        (i < j /\ IsRekey(sent[s][i]) /\ IsRekey(sent[s][j]))
            => Older(sent[s][i].bundle, sent[s][j].bundle)

(* The peer of s can know the KEK in force: it was in force when s connected,*)
(* or it is the first of its conference (which join replies carry), or a     *)
(* rekey that carries it was written to s.                                   *)
UpToDate(s, c) ==
    \/ conferences[c].kek <= socket[s].since
    \/ conferences[c].kek = conferences[c].born
    \/ \E i \in DOMAIN sent[s] :
          IsRekey(sent[s][i]) /\ sent[s][i].bundle = Bundle(c, conferences[c])

(* No rotation misses a registered endpoint whose connection is up.          *)
RegisteredUpToDate ==
    \A c \in Conferences, e \in Endpoints :
        LET s == endpointConnections[c \o e]
        IN  (Live(c) /\ s # NoSocket) => (IsOpen(s) => UpToDate(s, c))

(* "Rotate KEK when someone leaves (forward secrecy)", conference.js:55: a   *)
(* KEK that an endpoint got as a member is not in force once it has left.    *)
DepartedKekRetired ==
    \A r \in issued :
        LET c == r.bundle.conf
        IN  (r.member /\ Live(c) /\ conferences[c].kek = r.bundle.kek)
                => r.to \in conferences[c].endpoints

(* Who is in the conference, as the SFU learns it from its messages: whoever *)
(* is there by the last message that tells of it.                            *)
TellsWhetherThere(m, e) ==
    \/ m.type \in {"conference_state", "conference_keys"}
    \/ m.type \in {"endpoint_joined", "endpoint_left"} /\ m.endpointId = e
TellsItIsThere(m, e) ==
    \/ m.type \in {"conference_state", "conference_keys"} /\ e \in m.endpoints
    \/ m.type = "endpoint_joined" /\ m.endpointId = e
SfuViewOf(log) ==
    {e \in Endpoints : \E i \in DOMAIN log :
        /\ TellsItIsThere(log[i], e)
        /\ \A j \in DOMAIN log : j > i => ~TellsWhetherThere(log[j], e)}
SfuView(s) == SfuViewOf(sent[s])

(* The registered SFU that reads all it was sent knows the members exactly.  *)
SfuViewAccurate ==
    \A c \in Conferences :
        LET s == sfuConnections[c]
        IN  s # NoSocket => (IsOpen(s) =>
                SfuView(s) = IF Live(c) THEN conferences[c].endpoints ELSE {})

(* A reader of log knows x's endpoint key to be key: the last message that   *)
(* tells it says so.                                                         *)
TellsKeyOf(m, x) == \/ m.type = "rekey"
                    \/ m.type = "new_member" /\ m.endpointId = x
KeyTold(m, x) == IF m.type = "rekey" THEN m.allKeys[x] ELSE m.e2eKey
KnowsKey(log, x, key) ==
    \E i \in DOMAIN log :
        /\ TellsKeyOf(log[i], x) /\ KeyTold(log[i], x) = key
        /\ \A j \in DOMAIN log : j > i => ~TellsKeyOf(log[j], x)

(* A registered endpoint that has had a rekey from the conference can replay *)
(* rekeys and new_member messages to the exact keys of the other members.    *)
PeerKeysAccurate ==
    \A c \in Conferences, e \in Endpoints :
        LET s == endpointConnections[c \o e]
            rekeyed == \E i \in DOMAIN sent[s] :
                           /\ IsRekey(sent[s][i])
                           /\ sent[s][i].bundle.born = conferences[c].born
        IN  (Live(c) /\ s # NoSocket) => ((IsOpen(s) /\ rekeyed) =>
                \A x \in Endpoints \ {e} :
                    KnowsKey(sent[s], x, conferences[c].endpointKeys[x]))

(* The distributor implements the abstract group: kekSpi is the epoch and    *)
(* the conference group key the media key.                                   *)
GroupOf(conf) ==
    IF conf.born # 0
    THEN [epoch |-> conf.kekSpi, members |-> conf.endpoints, mediaKey |-> conf.e2eGroupKey]
    ELSE [epoch |-> 0]
GK == INSTANCE GroupKeying
          WITH Groups <- Conferences, Members <- Endpoints,
               group <- [c \in Conferences |-> GroupOf(conferences[c])], step <- clock

(* A conference only ever opens, adds, removes, rotates and closes the way   *)
(* GroupKeying allows (conference.js:109-162, keys.js:49-61): whatever       *)
(* requests and registrations come in between, no departure with somebody    *)
(* left keeps the epoch, and nothing else than a departure or a rekey request*)
(* starts one.  Documents that want one from a join: see                     *)
(* MembershipChangeRekeys.                                                   *)
ImplementsGroupKeying == GK!Spec

-----------------------------------------------------------------------------
(* What the documents and comments say, and the code does not do.            *)

(* s is e's connection to c, open, and accepted after every other one.       *)
NewestConnection(s, c, e) ==
    LET Of(t) == /\ socket[t] # Unused /\ socket[t].role = "endpoint"
                 /\ socket[t].conf = c /\ socket[t].endpoint = e
    IN  /\ IsOpen(s) /\ Of(s)
        /\ \A t \in Sockets \ {s} : Of(t) => socket[t].since < socket[s].since

(* "When an endpoint leaves, KD rotates KEK and notifies remaining           *)
(* endpoints" (server.js:18): a member whose newest connection is open, and  *)
(* was made after it joined, hears of every rotation.                        *)
RemainingNotified ==
    \A c \in Conferences, e \in Endpoints, s \in Sockets :
        (/\ Live(c) /\ e \in conferences[c].endpoints
         /\ NewestConnection(s, c, e)
         /\ conferences[c].endpointKeys[e] <= socket[s].since) => UpToDate(s, c)

(* "Notify SFU" (server.js:136, 188): an SFU whose connection is open has    *)
(* been told of every arrival and departure since.                           *)
OpenSfuViewAccurate ==
    \A s \in Sockets :
        (IsOpen(s) /\ socket[s].role = "sfu") =>
            SfuView(s) = IF Live(socket[s].conf)
                         THEN conferences[socket[s].conf].endpoints ELSE {}

(* "Member join/leave (or a `request_rekey`) rotates the KEK and pushes new  *)
(* keys" (README.md:287; docs/architecture.md:101, 360), with the diagram of *)
(* architecture.md:91-96, in which a join is followed by "rotate KEK, notify *)
(* members" and "install new E2E key": whenever somebody comes to a          *)
(* conference that has members, or goes from one and leaves members behind,  *)
(* its epoch goes up and the key media is encrypted with changes.  A join    *)
(* changes neither (conference.js:35-49), a rotation only the epoch          *)
(* (keys.js:53).                                                             *)
MembershipChangeRekeys ==
    [][\A c \in Conferences :
           LET before == conferences[c]
               after == conferences'[c]
           IN  (/\ Live(c) /\ Live(c)' /\ before.born = after.born
                /\ before.endpoints # {}
                /\ before.endpoints # after.endpoints)
               => /\ before.kekSpi < after.kekSpi
                  /\ before.e2eGroupKey # after.e2eGroupKey]_vars
=============================================================================
