--------------------------- MODULE ClientSession ---------------------------
(***************************************************************************)
(* The client's session (client.js): the commands connect, disconnect and  *)
(* quit, the join at the Key Distributor that precedes the first offer,    *)
(* the offers POSTed to the SFU, and the poller that tops up receive slots *)
(* and offers again when the conference grows.                             *)
(*                                                                         *)
(* JavaScript runs one handler at a time, so an action is a handler: the   *)
(* code between two awaits, a timer's tick, an event's callback.  What     *)
(* interleaves are the handlers, and the requests between them.            *)
(*                                                                         *)
(* External parts, as client.js uses them: the SFU answers an offer, or    *)
(* tells the client to wait, or refuses; libwebrtc creates offers and      *)
(* accepts an answer if an offer of as many slots is pending; the Key      *)
(* Distributor replies, with or without a bundle.  A request may fail.     *)
(*                                                                         *)
(* A reply to GET /signal is read and delivered in one step: the SFU may   *)
(* change its mind at any time before, so no order of replies is lost.     *)
(*                                                                         *)
(* An operator whose name ends in _ and a phrase is not the code: it is a  *)
(* slip the properties must catch, kept beside what it breaks.             *)
(***************************************************************************)
EXTENDS Integers, Sequences, SequencesExt

CONSTANTS
    MaxSlots,    \* the most receive slots per kind the SFU asks for
    MaxPolls,    \* bound: GET requests of one kind under way at a time
    MaxFaults    \* bound: requests that fail, in one behavior

ASSUME SlotsAssumption == MaxSlots \in Nat \ {0}
ASSUME PollsAssumption == MaxPolls \in Nat \ {0}
ASSUME FaultsAssumption == MaxFaults \in Nat

VARIABLES
    proc,               \* the client process
    sfuMode, percMode,  \* state of client.js, like the next five
    pc,                 \* also inCall, pollTimer, sfuSignalTimer: all set by
                        \* connect and cleared by endCall
    percClientId, percRecvSlots, percRenegotiating,
    sfuPollTimer,       \* the timer that polls GET /answer is set
    kdWs,               \* readyState of the KD WebSocket
    kd,                 \* how far joinPercConference is
    keyed,              \* the native peer has a media key
    peer,               \* the native peer's offers and slots
    offers,             \* POST /offer requests under way
    polls,              \* number of GET /signal requests under way
    answerPolls,        \* number of GET /answer requests under way
    desired,            \* recv_slots the SFU publishes for this client
    fresh,              \* history: offers sent without a client id
    asked,              \* history: the most slots the SFU has asked for
    faults,             \* number of requests that have failed
    lost                \* history: an offer was not created or not answered

mode == <<proc, sfuMode, percMode>>
reneg == <<percClientId, percRecvSlots, percRenegotiating>>
keys == <<kdWs, kd, keyed>>
http == <<offers, polls, answerPolls, sfuPollTimer>>
sfu == <<desired, asked>>
history == <<fresh, faults, lost>>
vars == <<mode, pc, reneg, keys, peer, http, sfu, history>>

Running == proc = "running"
Open == pc = "open"

(* A peer has its own sendrecv lines, one slot per kind.  creating counts  *)
(* createOffer calls without a result, events are the offers created and   *)
(* not yet polled, local is the pending local offer (0: none), negotiated  *)
(* what the last accepted answer covers.                                   *)
NewPeer == [slots |-> 1, creating |-> 0, events |-> <<>>,
            local |-> 0, negotiated |-> 0]

Events == Seq(1..MaxSlots)
Peers == [slots : 1..MaxSlots, creating : Nat, events : Events,
          local : 0..MaxSlots, negotiated : 0..MaxSlots]
Offer == [client : {"none", "assigned"}, slots : 1..MaxSlots]

TypeOK ==
    /\ proc \in {"running", "exited", "crashed"}
    /\ sfuMode \in BOOLEAN /\ percMode \in BOOLEAN
    /\ pc \in {"null", "open"}
    /\ percClientId \in {"none", "assigned"}
    /\ percRecvSlots \in 1..MaxSlots
    /\ percRenegotiating \in BOOLEAN
    /\ sfuPollTimer \in BOOLEAN
    /\ kdWs \in {"null", "connecting", "open"}
    /\ kd \in {"none", "creating", "joining", "joined", "refused", "failed"}
    /\ keyed \in BOOLEAN
    /\ peer \in Peers
    /\ offers \in Seq(Offer)
    /\ polls \in 0..MaxPolls /\ answerPolls \in 0..MaxPolls
    /\ desired \in 0..MaxSlots /\ asked \in 0..MaxSlots
    /\ fresh \in Nat /\ faults \in 0..MaxFaults /\ lost \in BOOLEAN

Init ==
    /\ proc = "running" /\ sfuMode = FALSE /\ percMode = FALSE
    /\ pc = "null" /\ peer = NewPeer
    /\ percClientId = "none" /\ percRecvSlots = 1 /\ percRenegotiating = FALSE
    /\ kdWs = "null" /\ kd = "none" /\ keyed = FALSE
    /\ offers = <<>> /\ polls = 0 /\ answerPolls = 0 /\ sfuPollTimer = FALSE
    /\ desired = 0 /\ asked = 0
    /\ fresh = 0 /\ faults = 0 /\ lost = FALSE

Fault == faults < MaxFaults /\ faults' = faults + 1
NoFault == UNCHANGED faults

-----------------------------------------------------------------------------
(* The native peer, as client.js calls it.                                 *)

(* pc.createOffer(): the result comes later, as an event.  On a null pc it *)
(* throws; in the continuations of the join nobody catches that, and Node  *)
(* ends the process.                                                       *)
CreateOfferOrCrash ==
    IF Open
    THEN peer' = [peer EXCEPT !.creating = @ + 1] /\ UNCHANGED proc
    ELSE proc' = "crashed" /\ UNCHANGED peer

(* The native side has created the offer, with the slots there are by then,*)
(* and queues the event; or it could not and queues an error, which        *)
(* handlePeerEvent only logs.                                              *)
OfferCreated ==
    /\ Running /\ Open /\ peer.creating > 0
    /\ \/ /\ peer' = [peer EXCEPT !.creating = @ - 1,
                                  !.events = Append(@, peer.slots)]
          /\ NoFault /\ UNCHANGED lost
       \/ /\ peer' = [peer EXCEPT !.creating = @ - 1]
          /\ Fault /\ lost' = TRUE
    /\ UNCHANGED <<mode, pc, reneg, keys, http, sfu, fresh>>

(* setRemoteDescription of an answer of n slots: accepted if that many are *)
(* on offer, otherwise an error event that is only logged.  A null pc      *)
(* throws, and all callers catch.                                          *)
SetRemoteDescription(n) ==
    peer' = IF Open /\ peer.local = n
            THEN [peer EXCEPT !.local = 0, !.negotiated = n]
            ELSE peer

-----------------------------------------------------------------------------
(* Commands.                                                               *)

(* connect: refused while sfuMode or percMode; the constructor of the      *)
(* native peer may throw, which ends the process.                          *)
Connect ==
    /\ Running /\ ~sfuMode /\ ~percMode
    /\ sfuMode' = TRUE /\ percMode' = TRUE
    /\ \/ /\ pc' = "open" /\ peer' = NewPeer
          /\ percClientId' = "none" /\ percRecvSlots' = 1
          /\ percRenegotiating' = FALSE
          /\ kd' = "creating"
          /\ NoFault /\ UNCHANGED proc
       \/ /\ proc' = "crashed" /\ Fault
          /\ UNCHANGED <<pc, peer, reneg, kd>>
    /\ UNCHANGED <<kdWs, keyed, http, sfu, fresh, lost>>

EndCall ==
    /\ pc' = "null" /\ peer' = NewPeer
    /\ percClientId' = "none" /\ percRecvSlots' = 1
    /\ percRenegotiating' = FALSE
    /\ keyed' = FALSE

(* disconnect: leaves percMode, the KD WebSocket and the conference as     *)
(* they are.                                                               *)
Disconnect ==
    /\ Running /\ sfuMode
    /\ EndCall
    /\ sfuPollTimer' = FALSE /\ sfuMode' = FALSE
    /\ UNCHANGED <<proc, percMode, kdWs, kd, offers, polls, answerPolls,
                   sfu, history>>

Quit ==
    /\ Running
    /\ proc' = "exited"
    /\ UNCHANGED <<sfuMode, percMode, pc, reneg, keys, peer, http, sfu, history>>

-----------------------------------------------------------------------------
(* The Key Distributor.                                                    *)

(* installE2eKeys that succeeds; nothing happens without a peer.  One that *)
(* fails changes nothing: see JoinReply; on a rekey it is no step.         *)
InstallE2eKeys == keyed' = (keyed \/ Open)

ConferenceReply_NotAwaited ==
    /\ Running /\ kd = "creating"
    /\ CreateOfferOrCrash
    /\ \/ kd' = "joining" /\ NoFault
       \/ kd' = "failed" /\ Fault
    /\ UNCHANGED <<sfuMode, percMode, pc, reneg, kdWs, keyed, http, sfu,
                   fresh, lost>>

(* POST /conference has returned and joinPercConference goes on, or it     *)
(* failed and connect's catch offers without encryption.                   *)
ConferenceReply ==
    /\ Running /\ kd = "creating"
    /\ \/ /\ kd' = "joining"
          /\ NoFault /\ UNCHANGED <<proc, peer>>
       \/ /\ kd' = "failed" /\ CreateOfferOrCrash
          /\ Fault
    /\ UNCHANGED <<sfuMode, percMode, pc, reneg, kdWs, keyed, http, sfu,
                   fresh, lost>>

(* POST .../join has returned: the keys are installed, the WebSocket is    *)
(* opened and the first offer is created, all before another handler runs. *)
(* "refused" is a join that goes on without a key: an error reply, which   *)
(* has no bundle and is not told from a success, or a bundle without a     *)
(* master key, or an install that returns an error or throws, which        *)
(* installE2eKeys only logs.                                               *)
JoinReply ==
    /\ Running /\ kd = "joining"
    /\ CreateOfferOrCrash
    /\ \/ kd' = "joined" /\ InstallE2eKeys /\ kdWs' = "connecting" /\ NoFault
       \/ kd' = "refused" /\ kdWs' = "connecting" /\ Fault /\ UNCHANGED keyed
       \/ kd' = "failed" /\ Fault /\ UNCHANGED <<keyed, kdWs>>
    /\ UNCHANGED <<sfuMode, percMode, pc, reneg, http, sfu, fresh, lost>>

(* The KD WebSocket's callbacks.                                           *)
KdWsOpen ==
    /\ Running /\ kdWs = "connecting"
    /\ kdWs' = "open"
    /\ UNCHANGED <<mode, pc, reneg, kd, keyed, peer, http, sfu, history>>

KdWsMessage ==
    /\ Running /\ kdWs = "open"
    /\ InstallE2eKeys
    /\ UNCHANGED <<mode, pc, reneg, kd, kdWs, peer, http, sfu, history>>

KdWsClose ==
    /\ Running /\ kdWs # "null"
    /\ kdWs' = "null"
    /\ UNCHANGED <<mode, pc, reneg, kd, keyed, peer, http, sfu, history>>

-----------------------------------------------------------------------------
(* Offers.                                                                 *)

HandlePeerEvents_LatestFirst ==
    /\ Running /\ Open /\ peer.events # <<>>
    /\ peer' = [peer EXCEPT !.events = <<>>, !.local = Head(peer.events)]
    /\ offers' = offers \o [i \in DOMAIN peer.events |->
                    [client |-> percClientId, slots |-> peer.events[i]]]
    /\ fresh' = fresh + IF percClientId = "none" THEN Len(peer.events) ELSE 0
    /\ UNCHANGED <<mode, pc, reneg, keys, polls, answerPolls, sfuPollTimer,
                   sfu, faults, lost>>

(* The tick of pollTimer: pollEvents takes all events.  Every offer is set *)
(* as the local description and POSTed, with the client id if there is one.*)
HandlePeerEvents ==
    /\ Running /\ Open /\ peer.events # <<>>
    /\ peer' = [peer EXCEPT !.events = <<>>, !.local = Last(peer.events)]
    /\ offers' = offers \o [i \in DOMAIN peer.events |->
                    [client |-> percClientId, slots |-> peer.events[i]]]
    /\ fresh' = fresh + IF percClientId = "none" THEN Len(peer.events) ELSE 0
    /\ UNCHANGED <<mode, pc, reneg, keys, polls, answerPolls, sfuPollTimer,
                   sfu, faults, lost>>

RenegotiationEnds_Never(o) == UNCHANGED percRenegotiating

(* sfuSendOffer's finally: a re-offer ends the renegotiation, whatever     *)
(* came of it.                                                             *)
RenegotiationEnds(o) ==
    percRenegotiating' = (percRenegotiating /\ o.client = "none")

(* The reply to an offer is an answer or, for the first, may be "waiting". *)
(* It may bring the client id, which is taken if there is none yet.        *)
SfuOfferReply(i) ==
    LET o == offers[i] IN
    /\ Running
    /\ offers' = RemoveAt(offers, i)
    /\ percClientId' \in {percClientId, "assigned"}
    /\ \/ SetRemoteDescription(o.slots) /\ UNCHANGED sfuPollTimer
       \/ o.client = "none" /\ sfuPollTimer' = TRUE /\ UNCHANGED peer
    /\ RenegotiationEnds(o)
    /\ UNCHANGED <<mode, pc, percRecvSlots, keys, polls, answerPolls, sfu,
                   history>>

(* The offer is given up: the SFU reports an error, which also ends a       *)
(* renegotiation that this offer is no part of; or the request failed; or  *)
(* the reply says nothing of use, though it may bring the client id.       *)
SfuOfferError(i) ==
    /\ Running
    /\ offers' = RemoveAt(offers, i)
    /\ \/ percRenegotiating' = FALSE /\ UNCHANGED percClientId
       \/ /\ RenegotiationEnds(offers[i])
          /\ percClientId' \in {percClientId, "assigned"}
    /\ Fault /\ lost' = TRUE
    /\ UNCHANGED <<mode, pc, percRecvSlots, keys, peer, polls, answerPolls,
                   sfuPollTimer, sfu, fresh>>

(* The tick of sfuPollTimer.  Once disconnected there is no sfuUrl and the *)
(* request fails at once.                                                  *)
AnswerTick ==
    /\ Running /\ sfuPollTimer /\ sfuMode
    /\ answerPolls < MaxPolls
    /\ answerPolls' = answerPolls + 1
    /\ UNCHANGED <<mode, pc, reneg, keys, peer, offers, polls, sfuPollTimer,
                   sfu, history>>

(* The reply to GET /answer: the answer to the first offer, or "waiting".  *)
AnswerReply ==
    /\ Running /\ answerPolls > 0
    /\ answerPolls' = answerPolls - 1
    /\ \/ SetRemoteDescription(1) /\ sfuPollTimer' = FALSE
       \/ UNCHANGED <<peer, sfuPollTimer>>
    /\ UNCHANGED <<mode, pc, reneg, keys, offers, polls, sfu, history>>

-----------------------------------------------------------------------------
(* Receive slots.                                                          *)

SignalTick_NoId ==
    /\ Running /\ Open
    /\ ~percRenegotiating
    /\ polls < MaxPolls
    /\ polls' = polls + 1
    /\ UNCHANGED <<mode, pc, reneg, keys, peer, offers, answerPolls,
                   sfuPollTimer, sfu, history>>

(* The tick of sfuSignalTimer.  Nothing keeps a second request from being  *)
(* sent before the first is answered.                                      *)
SignalTick ==
    /\ Running /\ Open
    /\ percClientId # "none" /\ ~percRenegotiating
    /\ polls < MaxPolls
    /\ polls' = polls + 1
    /\ UNCHANGED <<mode, pc, reneg, keys, peer, offers, answerPolls,
                   sfuPollTimer, sfu, history>>

TopUp_Always ==
    /\ percRenegotiating' = TRUE
    /\ IF Open
       THEN /\ percRecvSlots' = desired
            /\ peer' = [peer EXCEPT !.creating = @ + 1]
       ELSE UNCHANGED <<percRecvSlots, peer>>

TopUp_NotCounted ==
    /\ desired > percRecvSlots
    /\ percRenegotiating' = TRUE
    /\ IF Open
       THEN peer' = [peer EXCEPT !.slots = @ + (desired - percRecvSlots),
                                 !.creating = @ + 1]
       ELSE UNCHANGED peer
    /\ UNCHANGED percRecvSlots

TopUp_NoOffer ==
    /\ desired > percRecvSlots
    /\ percRenegotiating' = TRUE
    /\ IF Open
       THEN /\ percRecvSlots' = desired
            /\ peer' = [peer EXCEPT !.slots = @ + (desired - percRecvSlots)]
       ELSE UNCHANGED <<percRecvSlots, peer>>

(* More slots are wanted than are offered: transceivers are added and an   *)
(* offer is created.  Without a peer the handler throws before that, and   *)
(* catches.                                                                *)
TopUp ==
    /\ desired > percRecvSlots
    /\ percRenegotiating' = TRUE
    /\ IF Open
       THEN /\ percRecvSlots' = desired
            /\ peer' = [peer EXCEPT !.slots = @ + (desired - percRecvSlots),
                                    !.creating = @ + 1]
       ELSE UNCHANGED <<percRecvSlots, peer>>

(* The reply to GET /signal.                                               *)
SignalReply ==
    /\ Running /\ polls > 0
    /\ polls' = polls - 1
    /\ asked' = IF desired > asked THEN desired ELSE asked
    /\ \/ TopUp
       \/ /\ desired <= percRecvSlots
          /\ UNCHANGED <<percRecvSlots, percRenegotiating, peer>>
    /\ UNCHANGED <<mode, pc, percClientId, keys, offers, answerPolls,
                   sfuPollTimer, desired, history>>

(* GET /signal failed: try again on the next tick.                         *)
SignalError ==
    /\ Running /\ polls > 0
    /\ polls' = polls - 1
    /\ Fault
    /\ UNCHANGED <<mode, pc, reneg, keys, peer, offers, answerPolls,
                   sfuPollTimer, sfu, fresh, lost>>

(* Participants come and go at the SFU.                                    *)
MembershipChanges ==
    /\ desired' \in (0..MaxSlots) \ {desired}
    /\ UNCHANGED <<mode, pc, reneg, keys, peer, http, asked, history>>

-----------------------------------------------------------------------------
Next ==
    \/ Connect \/ Disconnect \/ Quit
    \/ ConferenceReply \/ JoinReply \/ KdWsOpen \/ KdWsMessage \/ KdWsClose
    \/ OfferCreated \/ HandlePeerEvents
    \/ \E i \in DOMAIN offers : SfuOfferReply(i) \/ SfuOfferError(i)
    \/ AnswerTick \/ AnswerReply
    \/ SignalTick \/ SignalReply \/ SignalError
    \/ MembershipChanges

(* Intervals tick and queued events are polled for as long as there is a   *)
(* peer (50 ms, 500 ms), libwebrtc completes createOffer, and the SFU      *)
(* answers what it is sent.  No user command and no Key Distributor reply  *)
(* is assumed.                                                             *)
Fairness ==
    /\ WF_vars(OfferCreated) /\ WF_vars(HandlePeerEvents)
    /\ WF_vars(\E i \in DOMAIN offers : SfuOfferReply(i))
    /\ WF_vars(SignalTick) /\ WF_vars(SignalReply)

Spec == Init /\ [][Next]_vars /\ Fairness

-----------------------------------------------------------------------------
(* No offer exists before the Key Distributor has replied or failed, and   *)
(* unless it failed or refused the media key is installed by then: no      *)
(* order of replies, key updates and disconnects makes the client offer in *)
(* clear while its keys are on the way (connect, joinPercConference).      *)
Offering == peer.creating > 0 \/ peer.events # <<>> \/ peer.negotiated > 0

KeysBeforeOffer ==
    Open /\ Offering =>
        /\ kd \in {"joined", "refused", "failed"}
        /\ kd = "joined" => keyed

(* At most one offer of a session goes out without a client id, so the SFU *)
(* never takes a re-offer for a new participant (sfuSendOffer, isReneg),   *)
(* also when polls overlap or a reply is late.                             *)
FreshOfferOnce == fresh <= 1

(* Transceivers and percRecvSlots are counted apart, over polls that may   *)
(* overlap: they agree, and no slot is added that the SFU did not ask for. *)
SlotsAccounted ==
    Open => /\ peer.slots = percRecvSlots
            /\ percRecvSlots > 1 => percRecvSlots <= asked

(* When no offer is under way and none was lost, every slot is negotiated  *)
(* and the client is ready for the next request: overlapping re-offers,    *)
(* whose answers may come in either order and be refused by libwebrtc, and *)
(* the older /answer poll leave nothing half done.                         *)
Quiet == peer.creating = 0 /\ peer.events = <<>> /\ offers = <<>>
         /\ ~sfuPollTimer /\ answerPolls = 0

QuietMeansNegotiated ==
    Open /\ Quiet /\ fresh > 0 /\ ~lost =>
        /\ peer.negotiated = percRecvSlots
        /\ peer.local = 0
        /\ ~percRenegotiating

(* While the SFU keeps asking for n slots, a client it has given an id     *)
(* negotiates them, unless an offer is lost or the client disconnects.     *)
Healthy == Running /\ Open /\ percClientId = "assigned" /\ ~lost

GrowthNegotiated ==
    \A n \in 2..MaxSlots :
        <>[](Healthy /\ desired >= n) => <>(peer.negotiated >= n)

(* The session moves the peer only as OfferAnswer says, which NativePeer   *)
(* implements: whatever handlers overlap, each offer is taken once and in  *)
(* order, the newest is the one pending, an answer is taken for that one   *)
(* only, and no slot is asked for beyond MaxSlots or taken back.           *)
OA == INSTANCE OfferAnswer WITH
    open <- Open, slots <- peer.slots, creating <- peer.creating,
    events <- peer.events, local <- peer.local, negotiated <- peer.negotiated

FollowsOfferAnswer == OA!Spec

(* client.js:84-85 says percRenegotiating guards against overlapping       *)
(* re-offers: no more than one is being created, queued or answered.  Two  *)
(* replies to GET /signal break it.                                        *)
OneReofferAtATime ==
    LET isReoffer(o) == o.client # "none" IN
    fresh > 0 => peer.creating + Len(peer.events)
                 + Len(SelectSeq(offers, isReoffer)) <= 1
=============================================================================
