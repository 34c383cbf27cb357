----------------------------- MODULE NativePeer -----------------------------
(***************************************************************************)
(* The native peer: PeerConnectionWrapper, which client.js calls, and      *)
(* WebrtcPeer of webrtc_core.cc beneath it.  These threads meet in it:     *)
(* Node's, which runs client.js and every webrtc_ function; libwebrtc's    *)
(* signalling thread, which runs the operations on descriptions and the    *)
(* observer's callbacks; the decoders and the camera, which bring frames;  *)
(* and a window thread for each renderer (VideoRenderer).                  *)
(*                                                                         *)
(* External, as the code uses it: libwebrtc runs operations in the order   *)
(* they were asked for, calls back on the signalling thread, lets a call   *)
(* from Node wait until that thread is free, and once Close has returned   *)
(* calls nobody and brings no remote frame.  A description is the number   *)
(* of receive slots of a kind that it has; an answer is accepted if an     *)
(* offer of as many is pending.  A slot's audio and video are treated      *)
(* alike, so they are one here.                                            *)
(*                                                                         *)
(* Of the events only the offers are kept, client.js just logs the others. *)
(* A client process makes one peer (ClientSession: percMode is not reset). *)
(*                                                                         *)
(* An operator whose name ends in _ and a phrase is not the code: it is a  *)
(* slip the properties must catch, kept beside what it breaks.             *)
(***************************************************************************)
EXTENDS VideoRenderer, Sequences, SequencesExt

CONSTANTS
    MaxSlots,       \* the most receive slots of a kind client.js asks for
    MaxOffers,      \* bound: calls of createOffer
    MaxRenderers    \* bound: remote tracks that are announced

ASSUME SlotsAssumption == MaxSlots \in Nat \ {0}
ASSUME OffersAssumption == MaxOffers \in Nat
ASSUME RenderersAssumption ==
    MaxRenderers \in Nat /\ Renderers = 0..MaxRenderers
ASSUME FramesAssumption == MaxFrames \in Nat

VARIABLES
    node,           \* where Node's thread is with the peer
    batch,          \* the polled offers client.js has not handled yet
    posted,         \* per slots: offers that the SFU may still answer
    asked,          \* number of calls of createOffer
    events,         \* the queue of the peer
    chain,          \* libwebrtc's operations, in the order asked for
    transceivers,   \* receive slots of a kind
    descriptions,   \* the pending local offer (0: none), what is negotiated
    receiving,      \* slots the last accepted answer sends in
    ontrack,        \* slots the signalling thread has yet to announce
    pcClosed,       \* pc has been closed
    capture,        \* the camera's thread
    video_renderers,          \* the slot each remote renderer shows
    e2ee_attached_receivers,
    given           \* history: SetFrameTransformer calls per receiver

(* Renderer 0 is the local preview, the others are video_renderers.        *)
Preview == 0
Remote == 1..MaxRenderers
Slots == 1..MaxSlots

js == <<node, batch, posted, asked>>
rtc == <<chain, transceivers, descriptions, receiving, ontrack, pcClosed>>
receivers == <<e2ee_attached_receivers, given>>
peerVars == <<js, events, rtc, receivers, capture, video_renderers>>
vars == <<peerVars, rendererVars>>

Operations == [op : {"create", "local", "remote"}, slots : 0..MaxSlots]
Descriptions == [local : 0..MaxSlots, negotiated : 0..MaxSlots]

TypeOK ==
    /\ node \in {"start", "failed", "idle", "requesting", "closing", "draining",
                 "clearing", "stopping", "closed", "destroying", "gone"}
    /\ batch \in Seq(Slots) /\ events \in Seq(Slots)
    /\ posted \in [Slots -> Nat] /\ asked \in 0..MaxOffers
    /\ chain \in Seq(Operations)
    /\ transceivers \in Slots /\ descriptions \in Descriptions
    /\ receiving \in SUBSET Slots /\ ontrack \in SUBSET Slots
    /\ pcClosed \in BOOLEAN
    /\ capture \in {"none", "running", "stopping"}
    /\ video_renderers \in Seq(Slots) /\ Len(video_renderers) <= MaxRenderers
    /\ e2ee_attached_receivers \in SUBSET Slots
    /\ given \in [Slots -> Nat]
    /\ RendererTypeOK

Init ==
    /\ node = "start" /\ batch = <<>> /\ events = <<>>
    /\ posted = [s \in Slots |-> 0] /\ asked = 0
    /\ chain = <<>> /\ transceivers = 1
    /\ descriptions = [local |-> 0, negotiated |-> 0]
    /\ receiving = {} /\ ontrack = {} /\ pcClosed = FALSE
    /\ capture = "none" /\ video_renderers = <<>>
    /\ e2ee_attached_receivers = {} /\ given = [s \in Slots |-> 0]
    /\ RendererInit

-----------------------------------------------------------------------------
(* Construction.                                                           *)

AttachRecvTransformer_Unchecked(s) ==
    /\ e2ee_attached_receivers' = e2ee_attached_receivers \cup {s}
    /\ given' = [given EXCEPT ![s] = @ + 1]

(* A receiver gets a transformer once: libwebrtc ends the process if it is *)
(* given a second one.                                                     *)
AttachRecvTransformer(s) ==
    /\ e2ee_attached_receivers' = e2ee_attached_receivers \cup {s}
    /\ given' = IF s \in e2ee_attached_receivers THEN given
                ELSE [given EXCEPT ![s] = @ + 1]

(* The camera, a device or synthetic, runs a thread of its own.            *)
CreateVideoSource == capture' = "running"

(* With a camera the peer has a video track: the preview is its sink, and  *)
(* its receiver is there and attached at once.  Without one the first      *)
(* offer makes the slot.                                                   *)
WebrtcCreate ==
    \/ /\ CreateVideoSource
       /\ New(Preview)
       /\ AttachRecvTransformer(1)
    \/ UNCHANGED <<capture, receivers, rendererVars>>

(* The constructor throws if the peer, its threads or its factory cannot   *)
(* be made.                                                                *)
Construct ==
    /\ node = "start"
    /\ \/ node' = "idle" /\ WebrtcCreate
       \/ node' = "failed" /\ UNCHANGED <<capture, receivers, rendererVars>>
    /\ UNCHANGED <<batch, posted, asked, events, rtc, video_renderers>>

-----------------------------------------------------------------------------
(* Calls of client.js that pass an operation to libwebrtc.                 *)

SignallingIdle == ontrack = {}

Chain(op, n) ==
    /\ SignallingIdle
    /\ chain' = Append(chain, [op |-> op, slots |-> n])

WebrtcCreateOffer == Chain("create", 0)

WebrtcSetLocalDescription(n) == Chain("local", n)

WebrtcSetRemoteDescription(n) == Chain("remote", n)

WebrtcAddRecvTransceivers(k) ==
    /\ SignallingIdle
    /\ transceivers' = transceivers + k

(* createOffer, of the join's continuation or after a top-up.              *)
CreateOffer ==
    /\ node \in {"idle", "requesting"} /\ batch = <<>>
    /\ asked < MaxOffers
    /\ node' = "idle" /\ asked' = asked + 1
    /\ WebrtcCreateOffer
    /\ UNCHANGED <<batch, posted, events, transceivers, descriptions, receiving,
                   ontrack, pcClosed, receivers, capture, video_renderers,
                   rendererVars>>

AddRecvTransceivers_ByTotal ==
    /\ node = "idle" /\ batch = <<>>
    /\ asked < MaxOffers
    /\ \E n \in Slots : n > transceivers /\ WebrtcAddRecvTransceivers(n)
    /\ node' = "requesting"
    /\ UNCHANGED <<batch, posted, asked, events, chain, descriptions, receiving,
                   ontrack, pcClosed, receivers, capture, video_renderers,
                   rendererVars>>

(* addRecvTransceivers(k, k), which createOffer follows in the same        *)
(* handler; n slots are wanted and k are missing.                          *)
AddRecvTransceivers ==
    /\ node = "idle" /\ batch = <<>>
    /\ asked < MaxOffers
    /\ \E n \in Slots : /\ n > transceivers
                       /\ WebrtcAddRecvTransceivers(n - transceivers)
    /\ node' = "requesting"
    /\ UNCHANGED <<batch, posted, asked, events, chain, descriptions, receiving,
                   ontrack, pcClosed, receivers, capture, video_renderers,
                   rendererVars>>

WebrtcPollEvents_FirstOnly ==
    /\ batch' = SubSeq(events, 1, 1) /\ events' = <<>>

(* All events, first in first out, under events_mutex.                     *)
WebrtcPollEvents ==
    /\ batch' = events /\ events' = <<>>

(* The tick of pollTimer.                                                  *)
PollEvents ==
    /\ node = "idle" /\ batch = <<>> /\ events # <<>>
    /\ WebrtcPollEvents
    /\ UNCHANGED <<node, posted, asked, rtc, receivers, capture,
                   video_renderers, rendererVars>>

(* handlePeerEvent: the offer becomes the local description and goes out.  *)
SetLocalDescription ==
    /\ node = "idle" /\ batch # <<>>
    /\ WebrtcSetLocalDescription(Head(batch))
    /\ batch' = Tail(batch)
    /\ posted' = [posted EXCEPT ![Head(batch)] = @ + 1]
    /\ UNCHANGED <<node, asked, events, transceivers, descriptions, receiving,
                   ontrack, pcClosed, receivers, capture, video_renderers,
                   rendererVars>>

(* The SFU's answer to an offer of n slots.                                *)
SetRemoteDescription(n) ==
    /\ node = "idle" /\ batch = <<>> /\ posted[n] > 0
    /\ posted' = [posted EXCEPT ![n] = @ - 1]
    /\ WebrtcSetRemoteDescription(n)
    /\ UNCHANGED <<node, batch, asked, events, transceivers, descriptions,
                   receiving, ontrack, pcClosed, receivers, capture,
                   video_renderers, rendererVars>>

-----------------------------------------------------------------------------
(* The signalling thread.                                                  *)

Apply(d, o) ==
    CASE o.op = "local" -> [d EXCEPT !.local = o.slots]
      [] o.op = "remote" /\ d.local = o.slots ->
             [local |-> 0, negotiated |-> o.slots]
      [] OTHER -> d

PushEvent(n) == events' = Append(events, n)

(* createOffer's result: the offer, of the slots there are now, is queued; *)
(* or an error is.                                                         *)
OfferCreated ==
    /\ chain # <<>> /\ Head(chain).op = "create" /\ SignallingIdle
    /\ chain' = Tail(chain)
    /\ PushEvent(transceivers) \/ UNCHANGED events
    /\ UNCHANGED <<js, transceivers, descriptions, receiving, ontrack, pcClosed,
                   receivers, capture, video_renderers, rendererVars>>

(* A description is applied or refused.  An accepted answer says in which  *)
(* slots the SFU sends; each that it did not send in before is announced.  *)
ApplyDescription ==
    LET o == Head(chain)
        accepted == o.op = "remote" /\ descriptions.local = o.slots
    IN
    /\ chain # <<>> /\ o.op # "create" /\ SignallingIdle
    /\ chain' = Tail(chain)
    /\ descriptions' = Apply(descriptions, o)
    /\ \/ /\ accepted
          /\ receiving' \in SUBSET (1..o.slots)
          /\ ontrack' = receiving' \ receiving
          /\ Len(video_renderers) + Cardinality(ontrack') <= MaxRenderers
       \/ ~accepted /\ UNCHANGED <<receiving, ontrack>>
    /\ UNCHANGED <<js, events, transceivers, pcClosed, receivers, capture,
                   video_renderers, rendererVars>>

(* OnTrack: the receiver gets its transformer and its track a renderer.    *)
OnTrack(s) ==
    /\ s \in ontrack /\ ontrack' = ontrack \ {s}
    /\ AttachRecvTransformer(s)
    /\ New(Len(video_renderers) + 1)
    /\ video_renderers' = Append(video_renderers, s)
    /\ UNCHANGED <<js, events, chain, transceivers, descriptions, receiving,
                   pcClosed, capture>>

-----------------------------------------------------------------------------
(* Frames, the windows.                                                    *)

(* A decoder or the camera calls a renderer.  The camera's loop may have   *)
(* passed its check of running_ when that is reset.                        *)
FrameArrives(r) ==
    /\ IF r = Preview THEN capture # "none"
       ELSE r \in DOMAIN video_renderers /\ ~pcClosed
    /\ OnFrame(r)
    /\ UNCHANGED peerVars

FrameStored(r) == StoreFrame(r) /\ UNCHANGED peerVars
WindowStep(r) == WindowThread(r) /\ UNCHANGED peerVars
UserCloses(r) == ~closeMsg[r] /\ WindowCloses(r) /\ UNCHANGED peerVars

-----------------------------------------------------------------------------
Close_ClearsFirst ==
    /\ node = "idle" /\ batch = <<>>
    /\ node' = "clearing"
    /\ UNCHANGED <<batch, posted, asked, events, rtc, receivers, capture,
                   video_renderers, rendererVars>>

(* close, from disconnect or quit: client.js lets go of the peer.          *)
Close ==
    /\ node = "idle" /\ batch = <<>>
    /\ node' = "closing"
    /\ UNCHANGED <<batch, posted, asked, events, rtc, receivers, capture,
                   video_renderers, rendererVars>>

(* pc->Close() runs on the signalling thread; operations still queued fail.*)
PcClose ==
    /\ node = "closing" /\ SignallingIdle
    /\ pcClosed' = TRUE /\ chain' = <<>>
    /\ node' = "draining"
    /\ UNCHANGED <<batch, posted, asked, events, transceivers, descriptions,
                   receiving, ontrack, receivers, capture, video_renderers,
                   rendererVars>>

(* It returns when no remote frame is being handled.                       *)
FramesEnded ==
    /\ node = "draining"
    /\ \A r \in Remote : ~frame[r]
    /\ node' = "clearing"
    /\ UNCHANGED <<batch, posted, asked, events, rtc, receivers, capture,
                   video_renderers, rendererVars>>

(* video_renderers.clear(): one destructor after the other.                *)
ClearRenderer ==
    /\ node = "clearing"
    /\ \A r \in Remote : life[r] # "dying"
    /\ \E r \in DOMAIN video_renderers : life[r] = "live" /\ Destroy(r)
    /\ UNCHANGED peerVars

RendererJoined(r) ==
    /\ node = "clearing" /\ r \in Remote
    /\ Joined(r)
    /\ UNCHANGED peerVars

RenderersCleared ==
    /\ node = "clearing"
    /\ \A r \in DOMAIN video_renderers : life[r] = "gone"
    /\ video_renderers' = <<>>
    /\ node' = "stopping"
    /\ capture' = IF capture = "running" THEN "stopping" ELSE capture
    /\ UNCHANGED <<batch, posted, asked, events, rtc, receivers, rendererVars>>

(* StopCapture joins the camera's thread, and close returns.               *)
StopCapture ==
    /\ node = "stopping" /\ ~frame[Preview]
    /\ capture' = "none" /\ node' = "closed"
    /\ UNCHANGED <<batch, posted, asked, events, rtc, receivers,
                   video_renderers, rendererVars>>

(* The garbage collector has found the wrapper: webrtc_destroy, where only *)
(* the preview is left to do.                                              *)
Finalize ==
    /\ node = "closed"
    /\ \/ life[Preview] = "live" /\ node' = "destroying" /\ Destroy(Preview)
       \/ life[Preview] # "live" /\ node' = "gone" /\ UNCHANGED rendererVars
    /\ UNCHANGED <<batch, posted, asked, events, rtc, receivers, capture,
                   video_renderers>>

PreviewJoined ==
    /\ node = "destroying" /\ Joined(Preview)
    /\ node' = "gone"
    /\ UNCHANGED <<batch, posted, asked, events, rtc, receivers, capture,
                   video_renderers>>

-----------------------------------------------------------------------------
NodeGoesOn ==
    \/ PcClose \/ FramesEnded \/ ClearRenderer
    \/ \E r \in Remote : RendererJoined(r)
    \/ RenderersCleared \/ StopCapture \/ PreviewJoined

Next ==
    \/ Construct \/ CreateOffer \/ AddRecvTransceivers
    \/ PollEvents \/ SetLocalDescription
    \/ \E n \in Slots : SetRemoteDescription(n)
    \/ OfferCreated \/ ApplyDescription \/ \E s \in Slots : OnTrack(s)
    \/ \E r \in Renderers : FrameArrives(r) \/ FrameStored(r)
                            \/ WindowStep(r) \/ UserCloses(r)
    \/ Close \/ NodeGoesOn \/ Finalize

(* Threads that have something to do go on.  Nothing is assumed of the     *)
(* user, of client.js's calls, of frames or of the garbage collector.      *)
Fairness ==
    /\ WF_vars(NodeGoesOn)
    /\ WF_vars(\E s \in Slots : OnTrack(s))
    /\ \A r \in Renderers : WF_vars(FrameStored(r)) /\ WF_vars(WindowStep(r))

Spec == Init /\ [][Next]_vars /\ Fairness

-----------------------------------------------------------------------------
(* A renderer that is handed a frame is alive to the end of OnFrame: the   *)
(* tracks hold plain pointers to their sinks and nobody removes them, so   *)
(* all rests on the order of webrtc_close and webrtc_destroy.              *)
FramesReachLiveSinks == \A r \in Renderers : frame[r] => life[r] = "live"

(* No receiver is given a second transformer, which libwebrtc would punish *)
(* by ending the process, and what is shown comes from a receiver that has *)
(* one, though webrtc_create and OnTrack both attach, and a slot may be    *)
(* announced again (AttachRecvTransformer).                                *)
ReceiversKeyedOnce ==
    /\ \A s \in Slots : given[s] <= 1
    /\ \A r \in DOMAIN video_renderers : given[video_renderers[r]] = 1

(* Whatever the signalling thread announced while close was called, close  *)
(* leaves no remote window and no renderer behind, and the collected       *)
(* wrapper none at all, also of windows that were just being created.      *)
Left(r) == life[r] \in {"live", "dying"} \/ thread[r] \notin {"none", "ended"}

NoWindowLeft ==
    /\ node \in {"stopping", "closed", "destroying", "gone"} =>
           \A r \in Remote : ~Left(r)
    /\ node = "gone" => ~Left(Preview)

(* A frame is seen in the end, with no later frame to help it, unless its  *)
(* window is not there or goes: the decoder's InvalidateRect, which is     *)
(* skipped as long as hwnd_ is null, and WM_PAINT's copy of the buffer     *)
(* never miss each other (VideoRenderer).                                  *)
FrameShown ==
    \A r \in Renderers :
        painted[r] < stored[r]
            ~> painted[r] = stored[r] \/ thread[r] \in {"quitting", "ended"}

(* A destructor that runs between the start of the window thread and the   *)
(* assignment of hwnd_ asks no window to close, and waits for it.          *)
Overlooked(r) == life[r] = "dying" /\ thread[r] = "starting"

(* But for that, close returns: no thread it waits for waits for it.       *)
CloseReturns ==
    [](\A r \in Renderers : ~Overlooked(r))
        => (node = "closing" ~> node = "closed")

(* To client.js all this is OfferAnswer's peer: threads, the event queue   *)
(* and libwebrtc's chain of operations neither lose, repeat nor reorder    *)
(* offers, and an answer is taken for the offer it answers.  What has been *)
(* asked for and not yet run counts as done.                               *)
Usable == node \in {"idle", "requesting"}

SetLocals(offers) ==
    [i \in DOMAIN offers |-> [op |-> "local", slots |-> offers[i]]]

Underway == chain \o SetLocals(batch)

(* What comes of the first operations, of none, one, and so on.            *)
Outcomes(d, operations) ==
    LET after[i \in 0..Len(operations)] ==
            IF i = 0 THEN d ELSE Apply(after[i - 1], operations[i])
    IN  after

Promised == Outcomes(descriptions, Underway)[Len(Underway)]

Creates(operations) == {i \in DOMAIN operations : operations[i].op = "create"}

OA == INSTANCE OfferAnswer WITH
    open <- Usable,
    slots <- IF Usable THEN transceivers ELSE 1,
    creating <- IF Usable THEN Cardinality(Creates(chain)) ELSE 0,
    events <- IF Usable THEN events ELSE <<>>,
    local <- IF Usable THEN Promised.local ELSE 0,
    negotiated <- IF Usable THEN Promised.negotiated ELSE 0

ImplementsOfferAnswer == OA!Spec
=============================================================================
