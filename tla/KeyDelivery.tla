---------------------------- MODULE KeyDelivery ----------------------------
(***************************************************************************)
(* How keys get from the Key Distributor to the native peers: the service  *)
(* of KeyDistributor composed with the part of each client (client.js)     *)
(* that joins, opens the KD WebSocket and installs what comes.             *)
(*                                                                         *)
(*   - A client of this repository joins once, opens one WebSocket after   *)
(*     the reply has come, does not reconnect and never POSTs leave.  The  *)
(*     leave route is used by somebody else, an operator.                  *)
(*   - Messages of a socket arrive in order, at any time; those that were  *)
(*     not read when the connection ends are lost.                         *)
(*   - A bundle keeps `born`, by which the properties know the Conference  *)
(*     object it came from; the client does not see that.                  *)
(*                                                                         *)
(* An operator whose name ends in _ and a phrase is not the code: it is a  *)
(* slip the properties must catch, kept beside what it breaks.             *)
(***************************************************************************)
EXTENDS Naturals, Sequences

CONSTANTS
    Meeting,        \* the conference id all clients were given
    Endpoints,      \* the clients, by name; each names its one socket too
    NullId, NoSocket,
    NoBundle,       \* no key is installed
    MaxHandlers     \* bound: request and message handlers the service runs

VARIABLES
    conferences, endpointConnections, sfuConnections, socket, sent, issued,
    clock,          \* the service, see KeyDistributor
    agent,          \* how far each client's joinPercConference is
    open,           \* the clients with a native peer: pc is not null
    reply,          \* the reply to each client's join
    read,           \* how many messages of its socket the client has handled
    installed       \* the bundle whose key is in the native peer

service == <<conferences, endpointConnections, sfuConnections, socket, sent,
             issued, clock>>
clients == <<agent, open, reply, read, installed>>
vars == <<service, clients>>

KD == INSTANCE KeyDistributor WITH Conferences <- {Meeting}, Sockets <- Endpoints

ASSUME HandlersAssumption == MaxHandlers \in Nat
ASSUME NoSocketAssumption == NoSocket \notin Endpoints
ASSUME NoBundleAssumption == NoBundle \notin KD!Bundles

Init ==
    /\ KD!Init
    /\ agent = [e \in Endpoints |-> "idle"]
    /\ open = {}
    /\ reply = [e \in Endpoints |-> NoBundle]
    /\ read = [e \in Endpoints |-> 0]
    /\ installed = [e \in Endpoints |-> NoBundle]

Conference == conferences[Meeting]
Current == KD!Bundle(Meeting, Conference)
Inbox(e) == sent[e]
Connected(e) == KD!IsOpen(e)
Unread(e) == read[e] < Len(Inbox(e))

(* The command connect and POST /conference.                                 *)
CreateConference(e) ==
    /\ agent[e] = "idle"
    /\ agent' = [agent EXCEPT ![e] = "created"]
    /\ open' = open \cup {e}
    /\ \/ KD!CreateConference(Meeting)
       \/ KD!Live(Meeting) /\ UNCHANGED service
    /\ UNCHANGED <<reply, read, installed>>

(* The service answers POST .../join; the reply is under way.                *)
Join(e) ==
    /\ agent[e] = "created"
    /\ agent' = [agent EXCEPT ![e] = "joined"]
    /\ KD!Join(Meeting, e)
    /\ reply' = [reply EXCEPT ![e] = KD!Bundle(Meeting, conferences'[Meeting])]
    /\ UNCHANGED <<open, read, installed>>

InstallE2eKeys_NoPeer(e, bundle) == installed' = [installed EXCEPT ![e] = bundle]
(* installE2eKeys: whatever comes replaces what there was, if there is a     *)
(* peer.                                                                     *)
InstallE2eKeys(e, bundle) ==
    installed' = [installed EXCEPT ![e] = IF e \in open THEN bundle ELSE @]

(* The reply arrives: its key is installed and the WebSocket opened.         *)
JoinReply(e) ==
    /\ agent[e] = "joined"
    /\ agent' = [agent EXCEPT ![e] = "connecting"]
    /\ InstallE2eKeys(e, reply[e])
    /\ UNCHANGED <<service, open, reply, read>>

(* The socket does not wait for the reply.                                   *)
Register_BeforeReply(e) ==
    /\ agent[e] \in {"joined", "connecting"}
    /\ KD!EndpointConnect(e, Meeting, e)
    /\ UNCHANGED clients

(* The service accepts the WebSocket of connectKdWebSocket.                  *)
Register(e) ==
    /\ agent[e] = "connecting"
    /\ KD!EndpointConnect(e, Meeting, e)
    /\ UNCHANGED clients

(* A rekey is installed, any other message the service sends is ignored.     *)
Handle(e, m) ==
    \/ m.type = "rekey" /\ InstallE2eKeys(e, m.bundle)
    \/ m.type # "rekey" /\ UNCHANGED installed

(* Only the older message type is understood.                                *)
KdWsMessage_KeyUpdateOnly(e) ==
    /\ Connected(e) /\ Unread(e)
    /\ read' = [read EXCEPT ![e] = @ + 1]
    /\ UNCHANGED <<service, agent, open, reply, installed>>

(* One message is handled and those behind it are dropped.                   *)
KdWsMessage_Skips(e) ==
    /\ Connected(e) /\ Unread(e)
    /\ read' = [read EXCEPT ![e] = Len(Inbox(e))]
    /\ Handle(e, Inbox(e)[read[e] + 1])
    /\ UNCHANGED <<service, agent, open, reply>>

(* The WebSocket's message callback.                                         *)
KdWsMessage(e) ==
    /\ Connected(e) /\ Unread(e)
    /\ read' = [read EXCEPT ![e] = @ + 1]
    /\ Handle(e, Inbox(e)[read[e] + 1])
    /\ UNCHANGED <<service, agent, open, reply>>

(* The command rekey, and the service's answer to it.                        *)
Rekey(e) ==
    /\ Connected(e)
    /\ KD!RequestRekey(e)
    /\ UNCHANGED clients

(* The command disconnect closes the peer and leaves the rest: no leave is   *)
(* sent and the WebSocket stays open.                                        *)
Disconnect(e) ==
    /\ e \in open
    /\ open' = open \ {e}
    /\ installed' = [installed EXCEPT ![e] = NoBundle]
    /\ UNCHANGED <<service, agent, reply, read>>

(* The client quits or its connection is lost; the service notices later.    *)
ConnectionLost(e) ==
    /\ Connected(e)
    /\ KD!Disconnect(e)
    /\ UNCHANGED clients
ConnectionClosed(e) ==
    /\ socket[e] # KD!Unused
    /\ KD!EndpointClosed(e)
    /\ UNCHANGED clients

(* Somebody POSTs leave for an endpoint, a member or not.                    *)
Leave(e) ==
    /\ KD!Leave(Meeting, e)
    /\ UNCHANGED clients

Next ==
    \E e \in Endpoints :
        \/ CreateConference(e) \/ Join(e) \/ JoinReply(e)
        \/ Register(e) \/ KdWsMessage(e) \/ Rekey(e) \/ Disconnect(e)
        \/ ConnectionLost(e) \/ ConnectionClosed(e) \/ Leave(e)

(* A client's event loop gets to every message of an open socket.            *)
Fairness == \A e \in Endpoints : WF_vars(KdWsMessage(e))

Spec == Init /\ [][Next]_vars /\ Fairness

-----------------------------------------------------------------------------
(* The shapes of the clients' variables; a key is installed in a peer only,  *)
(* and every client that has registered had a reply.                         *)
TypeOK ==
    /\ agent \in [Endpoints -> {"idle", "created", "joined", "connecting"}]
    /\ open \subseteq Endpoints
    /\ reply \in [Endpoints -> KD!Bundles \cup {NoBundle}]
    /\ read \in [Endpoints -> Nat]
    /\ installed \in [Endpoints -> KD!Bundles \cup {NoBundle}]
    /\ \A e \in Endpoints :
          /\ installed[e] # NoBundle => e \in open
          /\ socket[e] # KD!Unused => reply[e] # NoBundle
          /\ read[e] <= Len(Inbox(e))

(* A client does not compare epochs, it installs what arrives: nonetheless   *)
(* the epoch in its peer never goes back, neither to the join's reply after  *)
(* a rekey nor to an older rekey, nor from a conference to one that had its  *)
(* id before (client.js:421-430, 436-458).                                   *)
EpochsGoUp ==
    [][\A e \in Endpoints :
           (/\ installed[e] # NoBundle /\ installed'[e] # NoBundle
            /\ installed'[e] # installed[e])
           => KD!Older(installed[e], installed'[e])]_vars

(* Participants whose keys come from the same conference object can read     *)
(* each other's media, whatever epochs they are at and messages they have    *)
(* missed: "Join works without rekey (stable group key)" (docs/plan.md:208). *)
OneMediaKey ==
    \A e, f \in open :
        (/\ installed[e] # NoBundle /\ installed[f] # NoBundle
         /\ installed[e].born = installed[f].born)
        => installed[e].e2eMasterKey = installed[f].e2eMasterKey

(* A client that has read all its messages, and had a rekey from the present *)
(* conference since it was registered, holds the bundle in force, unless the *)
(* service has dropped its registration.                                     *)
Registered(e) == endpointConnections[Meeting \o e] = e

CaughtUp ==
    \A e \in open :
        (/\ Connected(e) /\ Registered(e) /\ ~Unread(e)
         /\ KD!Live(Meeting)
         /\ \E i \in DOMAIN Inbox(e) :
               /\ Inbox(e)[i].type = "rekey"
               /\ Inbox(e)[i].bundle.born = Conference.born)
        => installed[e] = Current

(* A rotation reaches the peer of every client that is registered when it    *)
(* happens: it comes to hold that epoch or a later one, unless the           *)
(* connection or the peer goes first (server.js:382-390, client.js:470-482). *)
Reached(e, n) ==
    installed[e] # NoBundle /\ installed[e].kek >= n

RotationReaches ==
    \A e \in Endpoints : \A n \in 1..MaxHandlers :
        (/\ e \in open /\ Connected(e) /\ Registered(e)
         /\ KD!Live(Meeting) /\ Conference.kek = n
         /\ n > Conference.born /\ n > socket[e].since)
        ~> (e \notin open \/ ~Connected(e) \/ Reached(e, n))

(* "Every endpoint in a conference receives the same conference group key    *)
(* (same `key_id`), so any participant can decrypt any other"                *)
(* (docs/architecture.md:102-103): members that are connected and have read  *)
(* everything are at one epoch.  One that registers after a rotation it was  *)
(* not registered for is not.                                                *)
Settled(e) ==
    /\ e \in open /\ e \in Conference.endpoints
    /\ Connected(e) /\ Registered(e) /\ ~Unread(e)

SameKeyId ==
    KD!Live(Meeting) =>
        \A e, f \in Endpoints :
            (/\ Settled(e) /\ Settled(f)
             /\ installed[e].born = installed[f].born)
            => installed[e].kekSpi = installed[f].kekSpi
=============================================================================
