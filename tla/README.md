# Specifications of str0m-e2ee

TLA+ modules of the Key Distributor and of the client of this repository, the
TLC configurations that check them on small instances, and proofs, checked by
TLAPS, of what they guarantee for any number of conferences, endpoints, sockets,
senders, receivers and slots. Paths below are relative to the repository's root.

    tlc -config KeyDistributor.cfg MCKeyDistributor      # check
    tlapm KeyDistributorProofs.tla                       # prove

Contents: [the system](#the-system) · [modules](#modules) · [runs](#runs) ·
[bounds](#bounds) · [fairness](#fairness) · [proofs](#proofs) ·
[what the code and its documents disagree on](#disagreements) ·
[what is not modelled](#not-modelled) · [plan](#plan).

## The system

Clients in a conference send media through an SFU that must not be able to read
it. A Key Distributor (KD) gives every client of a conference the same media
key. Each client seals each encoded frame before it is packetized and opens each
frame it receives.

| component | state | operations | talks to |
|---|---|---|---|
| KD, key manager (`key-distributor/keys.js`) | per conference: KEK, salt, `kekSpi`, group key, a key per endpoint | `generateKek` (rotation), `generateEndpointE2eKey`, `removeEndpoint`, wrapping and EKT tags | called by conference.js |
| KD, conferences (`conference.js`) | conferences and their members | create, join, leave (removes the conference that empties), key bundles | called by server.js |
| KD, server (`server.js`) | the registered socket of each endpoint and each SFU | HTTP create/join/leave; WebSocket connect, message, close; broadcasts | clients by HTTP and WebSocket, the SFU by WebSocket |
| client session (`client/client.js`) | mode flags, the peer, SFU id, receive slots, `percRenegotiating`, timers, KD socket | connect, disconnect, quit; event, signal and answer pollers; re-offers; key installation | KD by HTTP and WebSocket, SFU by HTTP, native peer by calls and a polled queue |
| frame transformer (`client/src/e2ee_transformer.*`) | key, key id, frame counter, `armed_`, callbacks | `SetE2eKey`, `Transform`, callback registration | one for each RTP sender and receiver; called on media threads |
| native peer (`client/src/webrtc_core.cc`) | stored key, lists of transformers, event queue, renderers, camera | install key, attach transformer on `OnTrack`, offers, descriptions, slots, close, destroy | transformers, libwebrtc, Node, window and camera threads |
| Node add-on glue (`client/src/addon.cc`, `peer_connection_wrapper.*`) | `peer_` | constructor, the methods of the JavaScript class, finalizer | client session, native peer |
| configuration loader (`config-loader.js`) | none | comment stripping, deep merge, lookup order | all three programs |
| SFU | in another repository | answers offers, publishes receive slots, forwards frames unchanged | external |

What is hard about it, and what must hold:

- **KD.** Node runs handlers one at a time, but joins, leaves, rekey requests,
  reconnections and late close events come in any order, and messages on the
  sockets are the only way anybody learns of a change. Membership (conference.js)
  and key entries (keys.js) are kept in two objects that must agree. An epoch
  number must identify its keys; epochs must reach a client in order, because a
  client installs whatever arrives; a KEK must be out of force once one of its
  holders has left; whoever is registered must be told of every rotation; and the
  SFU must know who is in the conference.
- **Frame transformers.** Media threads seal and open frames while the Node thread
  installs keys one transformer after the other and the signalling thread attaches
  new receivers. All streams share one key, so IVs must differ across them. Every
  transformer must end up with the stored key, no armed transformer may let a frame
  through in clear or unopened, and peers that agree on the key must understand
  each other at once.
- **Client session.** Every await lets timers, replies, socket messages and user
  commands in. No offer may precede the media key; a session may present itself to
  the SFU as new only once; slots counted in JavaScript, transceivers of the peer
  and what the SFU asked for must agree over overlapping polls and re-offers; a
  conference that grows must be followed; a request that fails must not wedge the
  client.

- **Native peer.** Node's thread, libwebrtc's signalling thread, the decoders, the
  camera and a window thread per renderer share it. Tracks keep plain pointers to
  renderers as their sinks, nobody removes a sink, and renderers are destroyed: it
  must be that no frame is under way to one. `hwnd_` is read and written without a
  lock, so a frame's request to repaint and a destructor's request to close may find
  it null. A receiver may be given a transformer once. Offers must reach client.js in
  order, none lost, across a queue, libwebrtc's chain of operations and a timer.

`PROJECT.json` lists the hazards line by line, with the properties that cover
each, or why none does. A hazard that the code falls into is paired with a property
that a run refutes, or with none, never with one that grants it as an exception.

## Modules

**GroupKeying** is the life of a group as the KD's code has it, without sockets or
messages: a group opens at epoch 1 with a media key of its own, joins keep the
epoch, each departure that leaves somebody behind starts the next, the media key
stays until the group closes. The documents contradict each other on two of these
points: `docs/plan.md:197-209` and `README.md:330` agree with the code;
`README.md:287`, `docs/architecture.md:94, 101, 360` and `docs/generate_deck.py:294`
let a join rotate the KEK, and `architecture.md:94-96` lets a rotation renew the media
key. That the KD implements GroupKeying shows that no order of requests makes it do
anything but what its code says of one request; it says nothing for the second
account, which the run `join_keeps_keys` refutes.

**KeyDistributor** models the whole service, one action per handler:

| code | model |
|---|---|
| `ConferenceManager.conferences`, with each conference's `KeyManager` | `conferences`; `born` tells apart the objects that share an id |
| `endpointConnections`, `sfuConnections` | the same names |
| the three POST routes | `CreateConference`, `Join`, `Leave` |
| `connection` of a WebSocket, its messages, `close` | `EndpointConnect`, `SfuConnect`, `ForwardEktTag`, `RequestRekey`, `RequestKeys`, `Disconnect`, `EndpointClosed`, `SfuClosed` |
| `broadcastToConference`'s tests on strings | `Addressed`, on ids as sequences of their colon-separated parts |
| what was written to a socket | `sent`, in order |

A random secret is the number of the handler that drew it. A socket that
disconnects is no longer open at once, but its close event is an action of its
own and comes at any later time. `issued` is a history of the bundles handed out.

**FrameTransformer** models the cipher, keying, sending and receiving of any
number of transformers, and the part of the native peer that keys them.
`mu_` is held through each call on a transformer, so each is an action; an install
holds `e2ee_mutex` and takes `mu_` of one transformer at a time, so `InstallKey`
takes the mutex and each `InstallNext` keys one, while frames go on.
`AttachRecvTransformer` waits for the mutex. A frame that was sent stays on the
wire: a receiver may get it late, repeatedly or never. AES-GCM is modelled by
what it promises: it opens what was sealed under the same key. BCrypt may fail.

**ClientSession** models `client.js`: the commands, the join at the KD with its
continuations, offers and their replies, the three pollers, and key installation.
An action is the code between two awaits. `pc` also stands for `inCall` and the
two timers that are set and cleared together with it. Requests under way are
`offers`, `polls` and `answerPolls`; their replies come in any order. The SFU, the
KD and libwebrtc's offer/answer state (`peer`) are external and modelled by how
`client.js` uses them. `kd = "refused"` stands for every join that goes on without a key:
an error reply, a bundle without a key, an install that fails. `percMode` is never reset
by the code, so a process has at most one session.

**KeyDelivery** composes the two sides: it instantiates KeyDistributor for one
conference, with a socket for each endpoint, and adds what decides which key a
client holds (`agent`, how far `joinPercConference` is; `open`, whether there is a
native peer; `reply`, `read`, how many messages of its socket were handled;
`installed`). A step of the service is a step of KeyDistributor, restricted to
what a client of this repository does: it joins once, opens one WebSocket after
the reply has come, never reconnects and never POSTs leave; leave is somebody
else's. `disconnect` closes the peer and keeps the WebSocket. ClientSession and
KeyDelivery look at the same client from two sides: the first at offers and slots,
with a key being there or not, the second at which key it is.

**VideoRenderer** models a renderer: the decoder's `OnFrame` up to the lock and from
it, the window thread from `CreateWindowExW` to the end of its message loop, the
destructor and its join. What happens under `buffer_mutex_` is a step; an access to
`hwnd_` is a step of its own, or belongs to one that does nothing else others see.
A frame is its number; conversion and drawing are left out.

**NativePeer** extends it with `PeerConnectionWrapper` and `WebrtcPeer`:

| code | model |
|---|---|
| `peer_`, and where Node's thread is in `Close` and the finalizer | `node` |
| `WebrtcPeer::events` | `events`, by the slots an offer covers |
| the array `pollEvents` returned, as far as `handlePeerEvent` has not come | `batch` |
| `video_renderers`, `e2ee_attached_receivers` | the same names; a receiver is the number of its slot |
| `video_source`, its thread, `Stop()` | `capture` |
| libwebrtc: operations asked for, descriptions, transceivers, tracks to be announced | `chain`, `descriptions`, `transceivers`, `ontrack` |
| `webrtc_close`: `pc->Close()`, `video_renderers.clear()`, `StopCapture()` | `PcClose`, `FramesEnded`, `ClearRenderer`, `RendererJoined`, `RenderersCleared`, `StopCapture` |
| `webrtc_destroy` | `Finalize`, `PreviewJoined` |

What it takes for granted of libwebrtc: a call from Node waits until the signalling
thread is free; operations run in the order asked for and call back on that thread;
`AddTransceiver` and `SetLocalDescription` succeed (client.js ignores the count that
`addRecvTransceivers` returns, so slots that were not added stay missing); an answer is
accepted if an offer of as many slots is pending; once `Close` has returned nobody is called and no remote
frame comes. Both ways out of client.js (`disconnect`, `quit`) call `close` before
the wrapper can be collected, so the finalizer comes after `close`.

**OfferAnswer** is what is promised to client.js: a peer with slots, offers created of
the slots there are, taken all at once and in order, the last being the pending one,
and answers taken for it. It stands between the two models: NativePeer implements it
(`ImplementsOfferAnswer`: operations that were asked for count as done), and
ClientSession moves its peer by its steps only (`FollowsOfferAnswer`), so what
ClientSession assumes of its peer is what the native code gives.

The theorems are in modules of their own: **KeyDistributorProofs**,
**KeyDistributorMessageProofs** (what is written to the sockets), **KeyDeliveryProofs**,
**FrameTransformerProofs**, **ClientSessionProofs**, **NativePeerProofs** and
**NativePeerRefinementProofs** (NativePeer implements OfferAnswer).
`MCKeyDistributor`, `MCFrameTransformer` and `MCKeyDelivery` give constants their values.
Operators such as `GenerateKek_SpiKept` are slips kept beside the definition they
imitate: put in its place, each breaks the property it is paired with in
`PROJECT.json`.

## Runs

| run | result |
|---|---|
| `key_distributor` | passes: types; members and key entries agree; an epoch identifies its keys; rekeys on a socket go up; registered sockets are up to date; a departed member's KEK is out of force; the registered SFU knows the members; endpoint keys are learned exactly; KeyDistributor implements GroupKeying, in which joins keep the epoch |
| `frame_transformer` | passes: types; transformers agree with the stored key between installs; nobody is left unkeyed; IVs are unique within an install; armed senders seal; armed receivers hand on only what they opened; peers in sync decode |
| `client_session` | passes: types; keys before offers; one fresh offer; slots accounted for; when quiet all slots are negotiated; a growing conference is negotiated (liveness); the peer is moved as OfferAnswer says |
| `key_delivery` | passes: types; one media key per conference object whatever was missed; a client that read everything since a rekey is up to date; epochs in a client go up; a rotation reaches every client registered for it (liveness) |
| `native_peer` | passes: types; no frame is in a renderer that is being destroyed; a receiver is keyed once, and before it is shown; close leaves no remote window or thread, the finalizer none; a frame is seen in the end (liveness); close returns (liveness); NativePeer implements OfferAnswer |
| `stale_close`, `sfu_forgotten`, `join_keeps_keys`, `fails_open`, `iv_reuse`, `overlapping_reoffers`, `join_gap` | each violates one statement of the documents or comments, [below](#disagreements) |

## Bounds

- KeyDistributor: one conference, two endpoints, two sockets of either role, four
  requests. Four requests reach a join, a second join, a departure with a rotation
  and another rotation; or emptying a conference and opening it again under the
  same id. Socket events are not counted. Two sockets give an endpoint its
  reconnection with the old close event outstanding, or an endpoint and an SFU.
  The proofs remove these bounds.
- FrameTransformer: an audio and a video sender of one peer, one video receiver of
  another, two keys, three installs, two frames, one BCrypt error. Three installs
  give either peer a key, and one of them the next while the other is behind; two
  frames are what IV uniqueness needs. The proofs remove the bounds.
- ClientSession: the SFU asks for up to three slots, which makes two top-ups that
  may overlap; two requests of a kind under way, the fewest that overlap; one
  fault. `MaxSlots` bounds what the SFU asks and with it the number of re-offers. The
  proofs remove the bounds.
- KeyDelivery: two clients, one socket each, five handlers of the service: create,
  two joins, and two rotations, before, between or after the registrations; or a
  conference that empties and is created again while a client holds an old key. The
  proofs remove the bounds on clients and handlers; one conference and one socket per
  client are what this composition is about.
- NativePeer: two slots, two calls of `createOffer` (the first offer and one after a
  top-up, or two without), two remote tracks, so that the clearing destroys one
  renderer while the other lives, and the preview. One renderer at a time is reached
  by frames, and by two: one starts the window and the next meets it while it is
  being made, painted or closed. With two windows and one frame each the run passes
  as well and takes four times as long. The proofs remove the bounds.
- Symmetry: sockets, endpoints and keys are only compared, so their permutations
  are symmetries; no run with a liveness property uses one.

Deadlock is not checked: with all requests used up, or after quit, the programs
rightly stop. NativePeer also stops where the code does: a destructor that runs
between the start of its window's thread and the assignment of `hwnd_` asks no window
to close and waits until the user does (`webrtc_core.cc:562-569`).

## Fairness

KeyDistributor and FrameTransformer have safety properties only, and no fairness.
KeyDelivery assumes weak fairness of each client's `KdWsMessage`: Node's event loop
gets to every message of an open socket. `RotationReaches` lets the connection or
the peer go first.
ClientSession assumes weak fairness of: libwebrtc completing `createOffer`, the
event timer (50 ms, `client.js:148`), the SFU answering an offer, the signal timer
(500 ms, `client.js:312`), and the reply to a poll. Timers run as long as the
process lives and the peer exists; replies of the SFU are an assumption about the
network, since the code has no timeout of its own. Nothing is assumed of the user
or the KD. `GrowthNegotiated` speaks of sessions in which no offer is lost: the
code does not retry one.
NativePeer assumes weak fairness of threads that have something to do: Node within
`close` and the finalizer, `OnTrack`, the end of `OnFrame`, each window thread.
Nothing is assumed of the user, of calls by client.js, of frames arriving or of the
garbage collector. `CloseReturns` leaves out behaviours with the window overlooked
as just described: it shows that nothing else keeps `close` from returning.

## Proofs

Every invariant, action property and refinement that a passing run checks is also a
theorem, for every value of the constants. Assumptions are the named `ASSUME`s of the
modules: bounds are naturals, the number of slots is not zero, what stands for "none"
(no socket, no bundle, no key) is not a value, senders are not receivers, each transformer
has one owner and `SenderOrder` lists the owner's senders. Theorems about broadcasts have
one more hypothesis, `IdsApart`, explained below.

**KeyDistributorProofs.**
`TypeCorrect` needs, beyond `TypeOK`, that a registered socket was accepted for the
key it is registered under (`RegisteredOwn`): without it nothing is known of the
socket a broadcast or a close event finds. `TypeInv` is the two together.
`KeyInv` is the invariant about key material: all secrets in use or handed out were
drawn by handlers that have run (`DrawnBefore`), and a bundle handed out by the
current conference object has an earlier epoch, or is exactly the bundle in force
(`IssuedEarlierOrCurrent`); with that, members and key entries agree and no holder
of the KEK in force has left. Under each action one step shows each conjunct. From it follow
`KeysFollowMembership`, `EpochIdentifiesKeys` and `DepartureRetiresKek`.
`DistributorImplementsGroupKeying` maps `kekSpi` to the epoch and the group key to
the media key; each action is a step of GroupKeying.

**KeyDistributorMessageProofs.** The properties here read a socket's whole log, and are
shown by what one more message does to a log (`SfuViewAppend`, `RekeyBundlesAppend`,
`InOrderAppend`, `KnowsKeyAppend`). `SfuKnowsMembers` needs that a socket was sent nothing
before it was accepted (`SilentUntilAccepted`), so that its replay of the members on
registration comes first; from there each join and departure adds the one message that
keeps the view right. For rekeys every step of the service is one of three moves: it
welcomes (a join: `new_member` to the others), broadcasts (a rotation: a newer bundle to
everybody registered) or is quiet. The invariant `RekeyInv` adds that a rekey on a socket
is of that socket's conference and no newer than its epoch (`RekeysOwn`), and that whoever
is registered and was written a rekey of this conference object was written the one in
force (`RekeyedToDate`). From it follow `RekeysArriveInOrder`,
`NoRotationMissed` and `PeerKeysStayExact`.

These three assume `IdsApart`. The code finds the sockets of a conference by testing
whether a string begins with the conference's id and a colon, and leaves the sender out by
testing whether it ends in a colon and the endpoint's id (`server.js:382`). Ids come from
requests, and with colons in them one can be taken for another's. `IdsApart` says that the
tests tell the ids in use apart; `OnePartIds` proves that ids without a colon satisfy it,
and TLC evaluates it on both instances (`TheIdsAreApart`). `SfuKnowsMembers` does not need
it: an SFU is found by its conference's id.

**KeyDeliveryProofs.** `ServiceSpec`: the composition implements the service, so that all
that is proved of the service holds in it. On top of it the invariant is about what clients
were handed, in a reply or a rekey (`Handed`). Bundles of one conference object carry one
media key (`HandedOneKey`), which gives `ParticipantsShareMediaKey`. A client's reply is
older than every rekey on its socket (`ReplyFirst`), because it opens the socket after the
reply; what it has installed it has read (`InstalledWasRead`), and it is the newest it has
read (`NewestInstalled`), because rekeys on a socket go up. With that, a client that
installs whatever comes never goes back (`InstalledEpochsGoUp`), and one that has read
everything is at the epoch in force (`ReadersCatchUp`); both need `IdsApart`.

**FrameTransformerProofs.** The invariant is `TypeInv /\ WireInv /\ AllKeyed /\
ThroughInv`. `TypeInv` adds who owns which transformer and that nobody is armed
before its peer stores a key. `WireInv` ties each sealed frame to the sender's
counter and number of installs, which is what makes IVs unique. `AllKeyed` says
that a transformer holds the stored key or the running install still has to reach
it, which is why attachment and installation cannot miss each other. `ThroughInv` is
about frames sent or decoded while armed. All seven properties follow for any
number of peers, senders, receivers, installs and frames.

**ClientSessionProofs.** `SlotsInv` is types and `SlotsAccounted` together: that a
top-up stays a type-correct number of transceivers rests on there being
`percRecvSlots` of them. `SessionInv` is what the other two need. A session starts
once, so its counts start from nothing (`NeverConnected`); until the KD has answered
or failed nothing has been offered and no client id can have come (`JoinPrecedes`);
until the id comes at most one offer is being created, waits or was sent, and no
poll is under way (`OneFirstOffer`), for a poll needs the id and only a poll starts
another offer; a client that joined has its keys (`JoinedHasKeys`). `FreshOnce` and
`KeysFirst` follow, `KeysFirst` from `JoinPrecedes` and `JoinedHasKeys`.

`SessionFollowsOfferAnswer` goes through `PeerMoves`: each handler does one of four
things to its peer, opens it or closes it; each is a step of OfferAnswer. It needs
that a client without a peer has a fresh one in the model (`NoPeerIsFresh`), and the
two invariants.

`NothingHalfDone` needs the offers that are pending, queued and answered to be in order of
their slots, although polls and re-offers overlap. `OffersInv`: as long as the client has no
id its offers have one slot (`FirstHasOneSlot`); while `percRenegotiating` is set a re-offer
is under way (`ReofferUnderWay`); with none being created, the newest offer, queued, pending
or accepted, covers all slots (`NewestCoversAll`); and an answer to the pending offer is
still to come (`AnswerComes`). The last three hold as long as no offer was lost. A client
that waits for nothing has then nothing left of them but an accepted offer of all slots.

**NativePeerProofs.** `pc->Close()` is the boundary. Before it each renderer of
`video_renderers` is live (`RemoteLives`); after it the signalling thread is quiet
(`Quiet`) and, as `Close` waits for frames, no thread is in a remote renderer when the
clearing begins (`FramesEnd`). The camera, stopped by `close`, is that for the preview
(`PreviewLives`). `ThreadsJoined` says that a renderer outlives its thread,
`PlacesLeft` that each track to be announced has a place, and `Keyed` that the set of
attached receivers is the truth. Each renderer's step is one of seven moves
(`RendererMoves`) whose effects are lemmas. All invariants of the run follow, for
any number of slots, offers, tracks, windows and frames.

**NativePeerRefinementProofs.** OfferAnswer's `local` and `negotiated` are what the
descriptions will be when all operations that client.js has asked for, those of the polled
batch included, have run (`Promised`). That is the last value of a recursive function along
the operations (`Outcomes`), and what is needed of it are four facts: what it is of no
operation, how it changes when an operation is asked for at the end of the chain
(`OutcomeOfMore`), when a whole batch is taken (`OutcomeOfLocals`), and that running the
first operation leaves it as it was (`OutcomeOfRest`). The library's induction theorems
cannot be used here, as they take an operator as a parameter; the inductions are by the
least element of the set of places where a claim fails (`LeastElement`, from the library's
facts on well-founded relations, which are about sets). Then each action is a step of
OfferAnswer or none: `createOffer` and `addRecvTransceivers` are `Request`, the result is
`OfferCreated`, a poll is `TakeOffers`, and an answer is `Answered` when client.js passes it
on, if the offer it answers is then the promised one, and dropped otherwise; when libwebrtc
applies it nothing is left to be seen. The invariants are `TypeOK` and that nothing has
happened to a peer that is not yet made (`Pristine`). The result is
`PeerImplementsOfferAnswer`.

Only model-checked: the liveness properties `GrowthNegotiated`, `RotationReaches`,
`FrameShown` and `CloseReturns`, which are out of the prover's reach, and the seven
statements that runs refute.

<a id="disagreements"></a>
## What the code and its documents disagree on

- `stale_close`: an endpoint that reconnects before the close event of its old
  socket is dropped from the registry by that event, and misses rotations
  (`server.js:306`, against `server.js:18`).
- `sfu_forgotten`: on the last departure the SFU's registration is deleted before it
  is notified (`server.js:177`, against the comment at 188).
- `join_keeps_keys`: a join gives the newcomer the KEK, epoch and media key in force,
  rotates nothing and sends no rekey (`conference.js:35-49`, `server.js:116-150`), and
  what does rotate, a departure or a request, keeps the group key, which is the key
  media is encrypted with (`keys.js:53`; theorem `DistributorImplementsGroupKeying`).
  Against `README.md:287` and `docs/architecture.md:94-96, 101, 360`;
  `docs/plan.md:199, 208` and `README.md:330` describe the code.
- `fails_open`: when BCrypt refuses the key or fails to encrypt, an armed sender's frames
  go to the SFU as they came (`e2ee_transformer.cc:352-356, 392`, against `README.md:31`
  and `docs/architecture.md:46`). `ArmedSendsSealed` shows that nothing else lets one
  through.
- `iv_reuse`: installing the same key again, as a rotation does, resets the frame
  counter, so IVs repeat under one key (`e2ee_transformer.cc:96`, against 106-109).
- `overlapping_reoffers`: `percRenegotiating` is checked when a poll is sent and not
  when it is answered (`client.js:313`, against 84-85). `QuietMeansNegotiated` shows
  that the overlap does no lasting harm.
- `join_gap`: a rotation between a client's join reply and the registration of its
  WebSocket is never delivered, and nothing is sent on registering, so the client
  stays at the older key id and drops the others' frames (`client.js:429`,
  `server.js:295`, against `docs/architecture.md:102-103`). The media key itself is
  the same (`OneMediaKey`), and the next rotation mends it (`CaughtUp`).

Behaviour of the same kind that the models contain, and no run is spent on:

- `disconnect` leaves `percMode` set, so `connect` asks the user to disconnect for ever
  (`client.js:562`, against 506-507). `NeverConnected` in ClientSessionProofs rests on it.
- A conference that empties and is opened again counts epochs from 1, so a client of the
  old one and one of the new mark frames with the same key id and hold different keys
  (`conference.js:156`, against `docs/architecture.md:100`). The GCM tag keeps them from
  decoding each other's frames.
- A join that is refused by an HTTP status, or whose key cannot be installed, counts as
  joined, and the client offers without a key and without the announced fallback
  (`client.js:417-426, 443-457`, against `README.md:293-294`). `KeysBeforeOffer` shows
  that this and a failed request are the only ways to it.

<a id="not-modelled"></a>
## What is not modelled

- The EKT full tag and AES key wrap (`keys.js:77-117, 159-228`): nobody calls them.
- The configuration loader: a function of files, run once before anything else; what
  it gets wrong (commas within strings, `config-loader.js:66`) is about text, and is
  listed as a hazard.
- `createAnswer` and `addIceCandidate` of the native peer: nobody calls them.
- In the native peer: conversion of pixels and of arguments, drawing, the log sink,
  the two diagnostics, which only read, and events client.js only logs.
- Registration of the add-on's class, SDP munging, logging, console output and the
  read-only commands and routes: no state that a decision reads.
- The SFU, libwebrtc and BCrypt: external.
- Escaping of ids in URLs (the path is not decoded, the query is) and more than one
  colon in the key of a socket's map beyond what the parts of an id show.
- Epochs beyond 255 in runs; `KeyIdOf` truncates as the code does.

## Plan

In order of importance; the first five are done.

1. GroupKeying, KeyDistributor and their proofs.
2. FrameTransformer and its proofs.
3. ClientSession and its proofs.
4. KeyDelivery, composing KeyDistributor with the key agents of clients, and its proofs.
5. NativePeer with VideoRenderer, OfferAnswer between it and ClientSession, and
   their proofs.
6. The EKT tag and AES key wrap as operators against a reference definition, over
   bounded inputs, should they come into use.
7. Safety under liveness: for each property that is only model-checked, the invariant
   that some step it waits for is always there to be taken (an unread message, a dirty
   renderer, a re-offer under way), which is what can be proved of it.
