-------------------------- MODULE NativePeerProofs --------------------------
(***************************************************************************)
(* Proofs about NativePeer, for any number of slots, calls, remote tracks, *)
(* windows and frames.                                                     *)
(*                                                                         *)
(* The argument: pc->Close() is the boundary.  Before it every renderer of *)
(* video_renderers is live; after it nothing is announced any more and no  *)
(* remote frame begins, so that the renderers are destroyed when no thread *)
(* is in them, one after the other.  The camera plays the same part for    *)
(* the preview: it is gone when close returns, and the preview is          *)
(* destroyed later still.                                                  *)
(***************************************************************************)
EXTENDS NativePeer, TLAPS, FiniteSetTheorems

Ended == {"draining", "clearing", "stopping", "closed", "destroying", "gone"}
Cleared == {"stopping", "closed", "destroying", "gone"}

(* Once pc is closed the signalling thread has nothing left to do.         *)
Quiet ==
    /\ pcClosed <=> node \in Ended
    /\ node \in Ended => chain = <<>> /\ ontrack = {}

(* There is a place for every track that is yet to be announced.           *)
PlacesLeft == Len(video_renderers) + Cardinality(ontrack) <= MaxRenderers

(* A receiver is in the set if and only if it has its transformer.         *)
Keyed ==
    /\ \A s \in Slots : given[s] = IF s \in e2ee_attached_receivers THEN 1 ELSE 0
    /\ \A r \in DOMAIN video_renderers :
           video_renderers[r] \in e2ee_attached_receivers

(* A renderer lives as long as it is in video_renderers.                   *)
RemoteLives ==
    \A r \in Remote :
        /\ node \notin Cleared /\ r > Len(video_renderers) => life[r] = "none"
        /\ node \notin Cleared \cup {"clearing"} /\ r <= Len(video_renderers)
               => life[r] = "live"
        /\ node = "clearing" /\ r <= Len(video_renderers) => life[r] # "none"
        /\ node \in Cleared => life[r] \in {"none", "gone"}

(* The camera's sink outlives the camera.                                  *)
PreviewLives ==
    /\ node \notin {"destroying", "gone"} => life[Preview] \in {"none", "live"}
    /\ node = "gone" => life[Preview] \in {"none", "gone"}
    /\ capture # "none" => life[Preview] = "live"
    /\ node \in {"closed", "destroying", "gone"} => capture = "none"

(* Nobody is in a renderer that frames no longer reach.                    *)
FramesEnd ==
    /\ \A r \in Remote : node \in Cleared \cup {"clearing"} => ~frame[r]
    /\ capture = "none" => ~frame[Preview]

(* A frame is for a live renderer, and is counted when it ends.            *)
FramesLive ==
    \A r \in Renderers : frame[r] => life[r] = "live" /\ stored[r] < MaxFrames

(* A renderer is gone only after its thread.                               *)
ThreadsJoined ==
    \A r \in Renderers :
        /\ life[r] = "none" => thread[r] = "none"
        /\ life[r] = "gone" => thread[r] \in {"none", "ended"}

PeerInv == Quiet /\ PlacesLeft /\ Keyed
LifeInv == RemoteLives /\ PreviewLives /\ FramesEnd /\ FramesLive /\ ThreadsJoined
IInv == TypeOK /\ PeerInv /\ LifeInv

-----------------------------------------------------------------------------
(* The renderers' types.  Frames are for live renderers only, and a        *)
(* renderer is destroyed when no frame is in it.                           *)

RendererMoves(r) ==
    \/ New(r) \/ (OnFrame(r) /\ life[r] = "live") \/ StoreFrame(r)
    \/ WindowThread(r) \/ WindowCloses(r)
    \/ (Destroy(r) /\ ~frame[r]) \/ Joined(r)

LEMMA RendererTypes ==
    ASSUME RendererTypeOK, FramesLive, NEW r \in Renderers, RendererMoves(r)
    PROVE  RendererTypeOK'
<1> USE DEF RendererTypeOK, HasWindow, windowVars
<1>1. CASE New(r)
  BY <1>1 DEF New
<1>2. CASE OnFrame(r)
  BY <1>2 DEF OnFrame, EnsureWindow
<1>3. CASE StoreFrame(r)
  <2>1. stored[r] + 1 \in 0..MaxFrames
    BY <1>3, FramesAssumption DEF StoreFrame, FramesLive
  <2>2. stored' \in [Renderers -> 0..MaxFrames]
    BY <1>3, <2>1 DEF StoreFrame
  <2>3. frame' \in [Renderers -> BOOLEAN] /\ dirty' \in [Renderers -> BOOLEAN]
    BY <1>3, Zenon DEF StoreFrame
  <2> QED BY <1>3, <2>2, <2>3 DEF StoreFrame
<1>4. CASE CreateWindow(r)
  BY <1>4 DEF CreateWindow
<1>5. CASE BeginPaint(r)
  BY <1>5 DEF BeginPaint
<1>6. CASE Paint(r)
  BY <1>6 DEF Paint
<1>7. CASE WindowCloses(r)
  BY <1>7 DEF WindowCloses
<1>8. CASE LoopEnds(r)
  BY <1>8 DEF LoopEnds
<1>9. CASE Destroy(r)
  <2>1. closeMsg' \in [Renderers -> BOOLEAN]
    BY <1>9, Zenon DEF Destroy
  <2> QED BY <1>9, <2>1 DEF Destroy
<1>10. CASE Joined(r)
  BY <1>10 DEF Joined
<1> QED BY <1>1, <1>2, <1>3, <1>4, <1>5, <1>6, <1>7, <1>8, <1>9, <1>10
        DEF RendererMoves, WindowThread

LEMMA PlaceForTrack ==
    ASSUME TypeOK, PlacesLeft, NEW s \in ontrack
    PROVE  /\ Len(video_renderers) + 1 \in Remote
           /\ Cardinality(ontrack \ {s}) = Cardinality(ontrack) - 1
           /\ Cardinality(ontrack) \in Nat
<1>1. IsFiniteSet(Slots)
  BY FS_Interval, SlotsAssumption DEF Slots
<1>2. IsFiniteSet(ontrack) /\ video_renderers \in Seq(Slots)
  BY <1>1, FS_Subset DEF TypeOK
<1>3. /\ Cardinality(ontrack) \in Nat /\ Cardinality(ontrack \ {s}) \in Nat
      /\ Cardinality(ontrack \ {s}) = Cardinality(ontrack) - 1
  BY <1>2, FS_RemoveElement, FS_CardinalityType
<1> QED BY <1>2, <1>3, RenderersAssumption DEF PlacesLeft, Remote

LEMMA RendererSteps ==
    ASSUME IInv, [Next]_vars
    PROVE  UNCHANGED rendererVars \/ \E r \in Renderers : RendererMoves(r)
<1>0. /\ 0 \in Renderers /\ Remote \subseteq Renderers
      /\ DOMAIN video_renderers \subseteq Remote
  BY RenderersAssumption DEF Remote, IInv, TypeOK
<1>i. /\ TypeOK /\ Quiet /\ PlacesLeft
      /\ RemoteLives /\ PreviewLives /\ FramesEnd
  BY DEF IInv, PeerInv, LifeInv
<1>1. CASE Construct
  BY <1>0, <1>1 DEF Construct, WebrtcCreate, RendererMoves, Preview
<1>2. ASSUME NEW s \in Slots, OnTrack(s)
      PROVE  \E r \in Renderers : RendererMoves(r)
  <2>1. Len(video_renderers) + 1 \in Renderers
    BY <1>0, <1>2, <1>i, PlaceForTrack DEF OnTrack
  <2>2. New(Len(video_renderers) + 1)
    BY <1>2 DEF OnTrack
  <2> QED BY <2>1, <2>2 DEF RendererMoves
<1>3. ASSUME NEW r \in Renderers, FrameArrives(r) \/ FrameStored(r)
                                  \/ WindowStep(r) \/ UserCloses(r)
      PROVE  RendererMoves(r)
  <2>1. CASE FrameArrives(r)
    <3>1. CASE r = Preview
      BY <1>i, <2>1, <3>1 DEF FrameArrives, PreviewLives, RendererMoves
    <3>2. CASE r # Preview
      <4>1. r \in DOMAIN video_renderers /\ ~pcClosed
        BY <2>1, <3>2 DEF FrameArrives
      <4>2. r \in Remote /\ r <= Len(video_renderers) /\ node \notin Ended
        BY <1>0, <1>i, <4>1 DEF Quiet, TypeOK
      <4>3. life[r] = "live"
        BY <1>i, <4>2 DEF RemoteLives, Ended, Cleared
      <4> QED BY <2>1, <4>3 DEF FrameArrives, RendererMoves
    <3> QED BY <3>1, <3>2
  <2> QED BY <1>3, <2>1 DEF FrameStored, WindowStep, UserCloses, RendererMoves
<1>4. CASE ClearRenderer
  <2>1. PICK r \in DOMAIN video_renderers : Destroy(r)
    BY <1>4 DEF ClearRenderer
  <2>2. ~frame[r]
    BY <1>0, <1>4, <1>i DEF ClearRenderer, FramesEnd
  <2> QED BY <1>0, <2>1, <2>2 DEF RendererMoves
<1>5. ASSUME NEW r \in Remote, RendererJoined(r)
      PROVE  \E q \in Renderers : RendererMoves(q)
  BY <1>0, <1>5 DEF RendererJoined, RendererMoves
<1>6. CASE Finalize
  <2>1. ~frame[Preview]
    BY <1>6, <1>i DEF Finalize, PreviewLives, FramesEnd
  <2> QED BY <1>0, <1>6, <2>1 DEF Finalize, RendererMoves, Preview
<1>7. CASE PreviewJoined
  BY <1>0, <1>7 DEF PreviewJoined, RendererMoves, Preview
<1>8. CASE \/ CreateOffer \/ AddRecvTransceivers \/ PollEvents \/ SetLocalDescription
           \/ \E n \in Slots : SetRemoteDescription(n)
           \/ OfferCreated \/ ApplyDescription
  BY <1>8 DEF CreateOffer, AddRecvTransceivers, PollEvents, SetLocalDescription,
              SetRemoteDescription, OfferCreated, ApplyDescription
<1>9. CASE \/ Close \/ PcClose \/ FramesEnded \/ RenderersCleared \/ StopCapture
           \/ UNCHANGED vars
  BY <1>9 DEF Close, PcClose, FramesEnded, RenderersCleared, StopCapture, vars
<1> QED BY <1>1, <1>2, <1>3, <1>4, <1>5, <1>6, <1>7, <1>8, <1>9
        DEF Next, NodeGoesOn
-----------------------------------------------------------------------------
(* The peer's types.                                                       *)

PeerTypeOK ==
    /\ node \in Ended \cup {"start", "failed", "idle", "requesting", "closing"}
    /\ batch \in Seq(Slots) /\ events \in Seq(Slots)
    /\ posted \in [Slots -> Nat] /\ asked \in 0..MaxOffers
    /\ chain \in Seq(Operations)
    /\ transceivers \in Slots /\ descriptions \in Descriptions
    /\ receiving \in SUBSET Slots /\ ontrack \in SUBSET Slots
    /\ pcClosed \in BOOLEAN
    /\ capture \in {"none", "running", "stopping"}
    /\ video_renderers \in Seq(Slots) /\ Len(video_renderers) <= MaxRenderers
    /\ e2ee_attached_receivers \in SUBSET Slots
    /\ given \in [Slots -> Nat]

LEMMA TypeParts == TypeOK <=> PeerTypeOK /\ RendererTypeOK
BY DEF TypeOK, PeerTypeOK, Ended

LEMMA ChainType ==
    ASSUME chain \in Seq(Operations), NEW op \in {"create", "local", "remote"},
           NEW n \in 0..MaxSlots, Chain(op, n)
    PROVE  chain' \in Seq(Operations)
<1>1. [op |-> op, slots |-> n] \in Operations
  BY DEF Operations
<1> HIDE DEF Operations
<1> QED BY <1>1 DEF Chain

LEMMA HeadType ==
    ASSUME NEW S, NEW s \in Seq(S), s # <<>>
    PROVE  Head(s) \in S /\ Tail(s) \in Seq(S)
OBVIOUS

LEMMA ApplyType ==
    ASSUME NEW d \in Descriptions, NEW o \in Operations
    PROVE  Apply(d, o) \in Descriptions
<1>1. /\ d.local \in 0..MaxSlots /\ d.negotiated \in 0..MaxSlots
      /\ o.slots \in 0..MaxSlots /\ 0 \in 0..MaxSlots
  BY SlotsAssumption DEF Descriptions, Operations
<1>2. [d EXCEPT !.local = o.slots] \in Descriptions
  BY <1>1 DEF Descriptions
<1>3. [local |-> 0, negotiated |-> o.slots] \in Descriptions
  BY <1>1 DEF Descriptions
<1> HIDE DEF Descriptions
<1> QED BY <1>2, <1>3 DEF Apply

LEMMA AttachTypes ==
    ASSUME PeerTypeOK, NEW s \in Slots, AttachRecvTransformer(s)
    PROVE  /\ e2ee_attached_receivers' \in SUBSET Slots
           /\ given' \in [Slots -> Nat]
BY DEF PeerTypeOK, AttachRecvTransformer

LEMMA PeerTypes ==
    ASSUME TypeOK, PlacesLeft, [Next]_vars
    PROVE  PeerTypeOK'
<1> USE DEF peerVars, js, rtc, receivers, Ended
<1>0. PeerTypeOK /\ <<>> \in Seq(Slots) /\ <<>> \in Seq(Operations)
  BY TypeParts
<1>1. CASE Construct
  <2>1. 1 \in Slots
    BY SlotsAssumption DEF Slots
  <2>2. /\ e2ee_attached_receivers' \in SUBSET Slots
        /\ given' \in [Slots -> Nat]
    BY <1>0, <1>1, <2>1, AttachTypes DEF Construct, WebrtcCreate, PeerTypeOK
  <2>3. capture' \in {"none", "running", "stopping"}
    BY <1>0, <1>1 DEF Construct, WebrtcCreate, CreateVideoSource, PeerTypeOK
  <2> QED BY <1>0, <1>1, <2>2, <2>3 DEF Construct, PeerTypeOK
<1>2. CASE CreateOffer
  <2>1. chain' \in Seq(Operations)
    BY <1>0, <1>2, ChainType, SlotsAssumption
       DEF CreateOffer, WebrtcCreateOffer, PeerTypeOK
  <2>2. asked' \in 0..MaxOffers
    BY <1>0, <1>2, OffersAssumption DEF CreateOffer, PeerTypeOK
  <2> QED BY <1>0, <1>2, <2>1, <2>2 DEF CreateOffer, PeerTypeOK
<1>3. CASE AddRecvTransceivers
  <2>1. transceivers' \in Slots
    BY <1>0, <1>3 DEF AddRecvTransceivers, WebrtcAddRecvTransceivers,
                      PeerTypeOK, Slots
  <2>2. UNCHANGED chain
    BY <1>3 DEF AddRecvTransceivers
  <2> QED BY <1>0, <1>3, <2>1, <2>2 DEF AddRecvTransceivers, PeerTypeOK
<1>4. CASE PollEvents
  BY <1>0, <1>4 DEF PollEvents, WebrtcPollEvents, PeerTypeOK
<1>5. CASE SetLocalDescription
  <2>1. Head(batch) \in Slots /\ Tail(batch) \in Seq(Slots)
    BY <1>0, <1>5, HeadType DEF SetLocalDescription, PeerTypeOK
  <2>2. chain' \in Seq(Operations)
    <3>1. Head(batch) \in 0..MaxSlots
      BY <2>1 DEF Slots
    <3> QED BY <1>0, <1>5, <3>1, ChainType
            DEF SetLocalDescription, WebrtcSetLocalDescription, PeerTypeOK
  <2>3. posted' \in [Slots -> Nat]
    BY <1>0, <1>5, <2>1 DEF SetLocalDescription, PeerTypeOK
  <2> QED BY <1>0, <1>5, <2>1, <2>2, <2>3 DEF SetLocalDescription, PeerTypeOK
<1>6. ASSUME NEW n \in Slots, SetRemoteDescription(n)
      PROVE  PeerTypeOK'
  <2>1. chain' \in Seq(Operations)
    <3>1. n \in 0..MaxSlots
      BY DEF Slots
    <3> QED BY <1>0, <1>6, <3>1, ChainType
            DEF SetRemoteDescription, WebrtcSetRemoteDescription, PeerTypeOK
  <2>2. posted' \in [Slots -> Nat]
    BY <1>0, <1>6 DEF SetRemoteDescription, PeerTypeOK
  <2> QED BY <1>0, <1>6, <2>1, <2>2 DEF SetRemoteDescription, PeerTypeOK
<1>7. CASE OfferCreated
  <2>1. chain' \in Seq(Operations)
    BY <1>0, <1>7, HeadType DEF OfferCreated, PeerTypeOK
  <2>2. events' \in Seq(Slots)
    <3>1. events \in Seq(Slots) /\ transceivers \in Slots
      BY <1>0 DEF PeerTypeOK
    <3>2. Append(events, transceivers) \in Seq(Slots)
      BY <3>1
    <3> QED BY <1>7, <3>1, <3>2 DEF OfferCreated, PushEvent
  <2> QED BY <1>0, <1>7, <2>1, <2>2 DEF OfferCreated, PeerTypeOK
<1>8. CASE ApplyDescription
  <2>1. chain' \in Seq(Operations) /\ Head(chain) \in Operations
    BY <1>0, <1>8, HeadType DEF ApplyDescription, PeerTypeOK
  <2>2. descriptions' \in Descriptions
    BY <1>0, <1>8, <2>1, ApplyType DEF ApplyDescription, PeerTypeOK
  <2>3. receiving' \in SUBSET Slots /\ ontrack' \in SUBSET Slots
    <3>1. 1..Head(chain).slots \subseteq Slots
      <4>1. Head(chain).slots \in 0..MaxSlots
        BY <2>1 DEF Operations
      <4> QED BY <4>1, SlotsAssumption DEF Slots
    <3> QED BY <1>0, <1>8, <3>1 DEF ApplyDescription, PeerTypeOK
  <2> QED BY <1>0, <1>8, <2>1, <2>2, <2>3 DEF ApplyDescription, PeerTypeOK
<1>9. ASSUME NEW s \in Slots, OnTrack(s)
      PROVE  PeerTypeOK'
  <2>1. /\ e2ee_attached_receivers' \in SUBSET Slots
        /\ given' \in [Slots -> Nat]
    BY <1>0, <1>9, AttachTypes DEF OnTrack
  <2>2. /\ video_renderers' \in Seq(Slots)
        /\ Len(video_renderers') <= MaxRenderers
    <3>1. video_renderers \in Seq(Slots) /\ Len(video_renderers) + 1 \in Remote
      BY <1>0, <1>9, PlaceForTrack DEF OnTrack, PeerTypeOK
    <3>2. /\ Append(video_renderers, s) \in Seq(Slots)
          /\ Len(Append(video_renderers, s)) = Len(video_renderers) + 1
      BY <3>1
    <3>3. Len(video_renderers) + 1 <= MaxRenderers
      BY <3>1, RenderersAssumption DEF Remote
    <3> QED BY <1>9, <3>2, <3>3 DEF OnTrack
  <2> QED BY <1>0, <1>9, <2>1, <2>2 DEF OnTrack, PeerTypeOK
<1>10. ASSUME NEW r \in Renderers, FrameArrives(r) \/ FrameStored(r)
                                   \/ WindowStep(r) \/ UserCloses(r)
       PROVE  PeerTypeOK'
  BY <1>0, <1>10 DEF FrameArrives, FrameStored, WindowStep, UserCloses, PeerTypeOK
<1>11. CASE Close \/ FramesEnded \/ StopCapture \/ Finalize \/ PreviewJoined
  BY <1>0, <1>11 DEF Close, FramesEnded, StopCapture, Finalize, PreviewJoined, PeerTypeOK
<1>12. CASE PcClose
  BY <1>0, <1>12 DEF PcClose, PeerTypeOK
<1>13. CASE ClearRenderer \/ (\E r \in Remote : RendererJoined(r)) \/ UNCHANGED vars
  BY <1>0, <1>13 DEF ClearRenderer, RendererJoined, vars, PeerTypeOK
<1>14. CASE RenderersCleared
  BY <1>0, <1>14, RenderersAssumption DEF RenderersCleared, PeerTypeOK
<1> QED BY <1>1, <1>2, <1>3, <1>4, <1>5, <1>6, <1>7, <1>8, <1>9, <1>10,
           <1>11, <1>12, <1>13, <1>14 DEF Next, NodeGoesOn

LEMMA TypeStep ==
    ASSUME IInv, [Next]_vars
    PROVE  TypeOK'
<1>0. TypeOK /\ PlacesLeft /\ FramesLive
  BY DEF IInv, PeerInv, LifeInv
<1>1. PeerTypeOK' /\ RendererTypeOK
  BY <1>0, PeerTypes, TypeParts
<1>2. CASE UNCHANGED rendererVars
  <2>1. RendererTypeOK'
    BY <1>1, <1>2 DEF RendererTypeOK, rendererVars, HasWindow
  <2> QED BY <1>1, <2>1 DEF TypeOK, PeerTypeOK, Ended
<1>3. ASSUME NEW r \in Renderers, RendererMoves(r)
      PROVE  TypeOK'
  <2>1. RendererTypeOK'
    BY <1>0, <1>1, <1>3, RendererTypes
  <2> QED BY <1>1, <2>1 DEF TypeOK, PeerTypeOK, Ended
<1> QED BY <1>2, <1>3, RendererSteps

-----------------------------------------------------------------------------
(* The signalling thread and the receivers.                                *)

LEMMA QuietStep == TypeOK /\ Quiet /\ [Next]_vars => Quiet'
<1> SUFFICES ASSUME TypeOK, Quiet, [Next]_vars PROVE Quiet'
  OBVIOUS
<1> USE DEF Ended, peerVars, js, rtc
<1>1. CASE PcClose
  <2>1. node' = "draining" /\ chain' = <<>> /\ ontrack' = {}
    BY <1>1 DEF PcClose, SignallingIdle
  <2>2. pcClosed' <=> node' \in Ended
    BY <1>1 DEF PcClose
  <2> QED BY <2>1, <2>2 DEF Quiet
<1>2. CASE \/ Construct \/ CreateOffer \/ AddRecvTransceivers
           \/ PollEvents \/ SetLocalDescription
           \/ \E n \in Slots : SetRemoteDescription(n)
  <2>1. node \notin Ended /\ node' \notin Ended /\ pcClosed' = pcClosed
    BY <1>2 DEF Construct, CreateOffer, AddRecvTransceivers, PollEvents,
                SetLocalDescription, SetRemoteDescription
  <2> QED BY <2>1 DEF Quiet
<1>3. CASE OfferCreated \/ ApplyDescription \/ (\E s \in Slots : OnTrack(s)) \/ Close
  <2>1. node \notin Ended /\ node' \notin Ended /\ pcClosed' = pcClosed
    BY <1>3 DEF OfferCreated, ApplyDescription, OnTrack, Close, Quiet
  <2> QED BY <2>1 DEF Quiet
<1>4. CASE \/ FramesEnded \/ RenderersCleared \/ StopCapture
           \/ PreviewJoined \/ Finalize
  <2>1. /\ node \in Ended /\ node' \in Ended
        /\ pcClosed' = pcClosed /\ chain' = chain /\ ontrack' = ontrack
    BY <1>4 DEF FramesEnded, RenderersCleared, StopCapture, PreviewJoined, Finalize
  <2> QED BY <2>1 DEF Quiet
<1>5. CASE \/ \E r \in Renderers : FrameArrives(r) \/ FrameStored(r)
                                   \/ WindowStep(r) \/ UserCloses(r)
           \/ ClearRenderer \/ (\E r \in Remote : RendererJoined(r))
           \/ UNCHANGED vars
  <2>1. UNCHANGED <<node, pcClosed, chain, ontrack>>
    BY <1>5 DEF FrameArrives, FrameStored, WindowStep, UserCloses, ClearRenderer,
                RendererJoined, vars
  <2> QED BY <2>1 DEF Quiet
<1> QED BY <1>1, <1>2, <1>3, <1>4, <1>5 DEF Next, NodeGoesOn

(* Only OnTrack, an accepted answer and the clearing touch what PlacesLeft   *)
(* and Keyed are about; construction attaches the camera's receiver.         *)
Announcing ==
    ApplyDescription \/ (\E s \in Slots : OnTrack(s)) \/ RenderersCleared

LEMMA Unannounced ==
    ASSUME [Next]_vars, ~Announcing
    PROVE  /\ UNCHANGED <<ontrack, video_renderers>>
           /\ UNCHANGED receivers \/ AttachRecvTransformer(1)
BY DEF Announcing, Next, NodeGoesOn, Construct, WebrtcCreate, CreateOffer,
       AddRecvTransceivers, PollEvents, SetLocalDescription, SetRemoteDescription,
       OfferCreated, FrameArrives, FrameStored, WindowStep, UserCloses, Close,
       PcClose, FramesEnded, ClearRenderer, RendererJoined, StopCapture,
       PreviewJoined, Finalize, vars, peerVars, rtc

LEMMA PlacesStep ==
    ASSUME TypeOK, Quiet, PlacesLeft, [Next]_vars
    PROVE  PlacesLeft'
<1>1. CASE ApplyDescription
  BY <1>1 DEF ApplyDescription, PlacesLeft
<1>2. ASSUME NEW s \in Slots, OnTrack(s)
      PROVE  PlacesLeft'
  <2>1. /\ ontrack' = ontrack \ {s}
        /\ Cardinality(ontrack') = Cardinality(ontrack) - 1
        /\ Cardinality(ontrack) \in Nat
    BY <1>2, PlaceForTrack DEF OnTrack
  <2>2. video_renderers \in Seq(Slots)
    BY DEF TypeOK
  <2>3. Len(video_renderers') = Len(video_renderers) + 1
    BY <1>2, <2>2 DEF OnTrack
  <2> QED BY <2>1, <2>2, <2>3, RenderersAssumption DEF PlacesLeft
<1>3. CASE RenderersCleared
  <2>1. ontrack' = {} /\ video_renderers' = <<>>
    BY <1>3 DEF RenderersCleared, rtc, Quiet, Ended
  <2> QED BY <2>1, FS_EmptySet, RenderersAssumption DEF PlacesLeft
<1>4. CASE ~Announcing
  BY <1>4, Unannounced DEF PlacesLeft
<1> QED BY <1>1, <1>2, <1>3, <1>4 DEF Announcing

LEMMA AttachKeeps ==
    ASSUME TypeOK, Keyed, NEW s \in Slots, AttachRecvTransformer(s)
    PROVE  /\ \A t \in Slots :
                  given'[t] = IF t \in e2ee_attached_receivers' THEN 1 ELSE 0
           /\ s \in e2ee_attached_receivers'
           /\ e2ee_attached_receivers \subseteq e2ee_attached_receivers'
BY DEF AttachRecvTransformer, Keyed, TypeOK

LEMMA AppendElements ==
    ASSUME NEW S, NEW q \in Seq(S), NEW e \in S, NEW i \in DOMAIN Append(q, e)
    PROVE  Append(q, e)[i] = e \/ (i \in DOMAIN q /\ Append(q, e)[i] = q[i])
OBVIOUS

LEMMA KeyedStep ==
    ASSUME TypeOK, Keyed, [Next]_vars
    PROVE  Keyed'
<1>1. CASE ApplyDescription
  BY <1>1 DEF ApplyDescription, receivers, Keyed
<1>2. ASSUME NEW s \in Slots, OnTrack(s)
      PROVE  Keyed'
  <2>1. /\ AttachRecvTransformer(s)
        /\ video_renderers' = Append(video_renderers, s)
        /\ video_renderers \in Seq(Slots)
    BY <1>2 DEF OnTrack, TypeOK
  <2>2. \A r \in DOMAIN video_renderers' :
            \/ video_renderers'[r] = s
            \/ (r \in DOMAIN video_renderers /\ video_renderers'[r] = video_renderers[r])
    BY <2>1, AppendElements
  <2> QED BY <2>1, <2>2, AttachKeeps DEF Keyed
<1>3. CASE RenderersCleared
  <2>1. UNCHANGED receivers /\ video_renderers' = <<>>
    BY <1>3 DEF RenderersCleared
  <2>2. DOMAIN <<>> = {}
    OBVIOUS
  <2> QED BY <2>1, <2>2 DEF receivers, Keyed
<1>4. CASE ~Announcing
  <2>1. 1 \in Slots /\ UNCHANGED video_renderers
    BY <1>4, Unannounced, SlotsAssumption DEF Slots
  <2>2. CASE UNCHANGED receivers
    BY <2>1, <2>2 DEF receivers, Keyed
  <2>3. CASE AttachRecvTransformer(1)
    BY <2>1, <2>3, AttachKeeps DEF Keyed
  <2> QED BY <1>4, <2>2, <2>3, Unannounced
<1> QED BY <1>1, <1>2, <1>3, <1>4 DEF Announcing
-----------------------------------------------------------------------------
(* What a renderer's move does to its life, its frame and its thread.      *)

LEMMA Newborn ==
    ASSUME TypeOK, NEW r \in Renderers, New(r)
    PROVE  /\ life'[r] = "live" /\ \A q \in Renderers \ {r} : life'[q] = life[q]
           /\ UNCHANGED <<frame, thread, stored>>
BY DEF New, windowVars, TypeOK, RendererTypeOK

LEMMA FrameBegins ==
    ASSUME TypeOK, NEW r \in Renderers, OnFrame(r)
    PROVE  /\ UNCHANGED <<life, stored>> /\ stored[r] < MaxFrames
           /\ \A q \in Renderers \ {r} : thread'[q] = thread[q]
           /\ \A q \in Renderers \ {r} : frame'[q] <=> frame[q]
BY DEF OnFrame, EnsureWindow, TypeOK, RendererTypeOK

LEMMA FrameStops ==
    ASSUME TypeOK, NEW r \in Renderers, StoreFrame(r)
    PROVE  /\ UNCHANGED <<life, thread>> /\ ~frame'[r]
           /\ \A q \in Renderers \ {r} : stored'[q] = stored[q]
           /\ \A q \in Renderers \ {r} : frame'[q] <=> frame[q]
BY DEF StoreFrame, TypeOK, RendererTypeOK

LEMMA WindowMoves ==
    ASSUME TypeOK, NEW r \in Renderers, WindowThread(r) \/ WindowCloses(r)
    PROVE  /\ UNCHANGED <<life, frame, stored>>
           /\ thread[r] \notin {"none", "ended"} /\ thread'[r] # "none"
           /\ \A q \in Renderers \ {r} : thread'[q] = thread[q]
<1>1. CASE CreateWindow(r)
  BY <1>1 DEF CreateWindow, TypeOK, RendererTypeOK
<1>2. CASE BeginPaint(r) \/ Paint(r) \/ LoopEnds(r) \/ WindowCloses(r)
  BY <1>2 DEF BeginPaint, Paint, LoopEnds, WindowCloses, TypeOK, RendererTypeOK
<1> QED BY <1>1, <1>2 DEF WindowThread

LEMMA Dies ==
    ASSUME TypeOK, NEW r \in Renderers, Destroy(r)
    PROVE  /\ life'[r] = "dying" /\ \A q \in Renderers \ {r} : life'[q] = life[q]
           /\ UNCHANGED <<frame, thread, stored>>
BY DEF Destroy, TypeOK, RendererTypeOK

LEMMA Joins ==
    ASSUME TypeOK, NEW r \in Renderers, Joined(r)
    PROVE  /\ life[r] = "dying" /\ thread[r] \in {"none", "ended"}
           /\ life'[r] = "gone" /\ \A q \in Renderers \ {r} : life'[q] = life[q]
           /\ UNCHANGED <<frame, thread, stored>>
BY DEF Joined, windowVars, TypeOK, RendererTypeOK

-----------------------------------------------------------------------------
LEMMA SinksStep ==
    ASSUME IInv, [Next]_vars
    PROVE  FramesLive' /\ ThreadsJoined'
<1>0. TypeOK /\ FramesLive /\ ThreadsJoined
  BY DEF IInv, LifeInv
<1>1. CASE UNCHANGED rendererVars
  BY <1>0, <1>1 DEF rendererVars, FramesLive, ThreadsJoined
<1>2. ASSUME NEW r \in Renderers, RendererMoves(r)
      PROVE  FramesLive' /\ ThreadsJoined'
  <2>1. CASE New(r)
    BY <1>0, <2>1, Newborn DEF FramesLive, ThreadsJoined
  <2>2. CASE OnFrame(r) /\ life[r] = "live"
    BY <1>0, <2>2, FrameBegins DEF FramesLive, ThreadsJoined
  <2>3. CASE StoreFrame(r)
    BY <1>0, <2>3, FrameStops DEF FramesLive, ThreadsJoined
  <2>4. CASE WindowThread(r) \/ WindowCloses(r)
    BY <1>0, <2>4, WindowMoves DEF FramesLive, ThreadsJoined
  <2>5. CASE Destroy(r) /\ ~frame[r]
    BY <1>0, <2>5, Dies DEF FramesLive, ThreadsJoined
  <2>6. CASE Joined(r)
    BY <1>0, <2>6, Joins DEF FramesLive, ThreadsJoined
  <2> QED BY <1>2, <2>1, <2>2, <2>3, <2>4, <2>5, <2>6 DEF RendererMoves
<1> QED BY <1>1, <1>2, RendererSteps
(* The steps that leave the renderers' lives alone, by what they do to the  *)
(* peer: before the end, at the end, and not at all.                        *)
Elsewhere ==
    \/ \E r \in Renderers : FrameArrives(r) \/ FrameStored(r)
                            \/ WindowStep(r) \/ UserCloses(r)
    \/ UNCHANGED vars

Calls ==
    \/ CreateOffer \/ AddRecvTransceivers \/ PollEvents \/ SetLocalDescription
    \/ (\E n \in Slots : SetRemoteDescription(n)) \/ OfferCreated
    \/ ApplyDescription \/ Close

LEMMA ElsewhereFacts ==
    ASSUME TypeOK, Elsewhere
    PROVE  UNCHANGED <<node, video_renderers, capture, life>>
<1>1. ASSUME NEW r \in Renderers, FrameArrives(r) \/ FrameStored(r)
                                  \/ WindowStep(r) \/ UserCloses(r)
      PROVE  UNCHANGED <<node, video_renderers, capture, life>>
  BY <1>1, FrameBegins, FrameStops, WindowMoves
     DEF FrameArrives, FrameStored, WindowStep, UserCloses, peerVars, js
<1>2. CASE UNCHANGED vars
  BY <1>2 DEF vars, peerVars, js, rendererVars
<1> QED BY <1>1, <1>2 DEF Elsewhere

LEMMA CallsFacts ==
    ASSUME Quiet, Calls
    PROVE  /\ node \notin Ended
           /\ node' \in {node, "idle", "requesting", "closing"}
           /\ UNCHANGED <<video_renderers, capture, life, frame>>
BY DEF Calls, CreateOffer, AddRecvTransceivers, PollEvents, SetLocalDescription,
       SetRemoteDescription, OfferCreated, ApplyDescription, Close, Quiet, Ended,
       js, rendererVars

LEMMA RemoteStep ==
    ASSUME IInv, [Next]_vars
    PROVE  RemoteLives'
<1> USE DEF Ended, Cleared
<1>0. /\ TypeOK /\ Quiet /\ PlacesLeft /\ RemoteLives
      /\ Remote \subseteq Renderers /\ 0 \in Renderers /\ 0 \notin Remote
      /\ DOMAIN video_renderers = 1..Len(video_renderers)
      /\ Len(video_renderers) \in Nat
      /\ DOMAIN video_renderers \subseteq Remote
  BY RenderersAssumption DEF IInv, PeerInv, LifeInv, TypeOK, Remote
<1>1. CASE Construct
  <2>1. /\ \A r \in Remote : life'[r] = life[r]
        /\ node \notin Ended /\ node' \notin Ended
        /\ UNCHANGED video_renderers
    BY <1>0, <1>1, Newborn DEF Construct, WebrtcCreate, Preview, rendererVars
  <2> QED BY <1>0, <2>1 DEF RemoteLives
<1>2. CASE Calls
  <2>1. /\ node \notin Ended /\ node' \notin Ended
        /\ UNCHANGED <<video_renderers, life>>
    BY <1>0, <1>2, CallsFacts
  <2> QED BY <1>0, <2>1 DEF RemoteLives
<1>3. ASSUME NEW s \in Slots, OnTrack(s)
      PROVE  RemoteLives'
  <2> DEFINE r == Len(video_renderers) + 1
  <2>1. r \in Remote
    BY <1>0, <1>3, PlaceForTrack DEF OnTrack
  <2>2. Len(video_renderers') = r
    BY <1>0, <1>3 DEF OnTrack, TypeOK
  <2>3. New(r) /\ UNCHANGED node /\ node \notin Ended
    BY <1>0, <1>3 DEF OnTrack, Quiet, js
  <2>4. life'[r] = "live" /\ \A q \in Remote \ {r} : life'[q] = life[q]
    BY <1>0, <2>1, <2>3, Newborn
  <2>5. \A q \in Remote \ {r} : q > r <=> q > Len(video_renderers)
    BY <1>0 DEF Remote
  <2> QED BY <1>0, <2>1, <2>2, <2>3, <2>4, <2>5 DEF RemoteLives, Remote
<1>4. CASE Elsewhere
  <2>1. UNCHANGED <<node, video_renderers, life>>
    BY <1>0, <1>4, ElsewhereFacts
  <2> QED BY <1>0, <2>1 DEF RemoteLives
<1>5. CASE PcClose \/ FramesEnded
  <2>1. /\ node \in {"closing", "draining"} /\ node' \in {"draining", "clearing"}
        /\ UNCHANGED <<video_renderers, life>>
    BY <1>5 DEF PcClose, FramesEnded, rendererVars
  <2> QED BY <1>0, <2>1 DEF RemoteLives, Remote
<1>6. CASE ClearRenderer
  <2>1. PICK r \in DOMAIN video_renderers : Destroy(r)
    BY <1>6 DEF ClearRenderer
  <2>2. node = "clearing" /\ UNCHANGED <<node, video_renderers>>
    BY <1>6 DEF ClearRenderer, peerVars, js
  <2>3. life'[r] = "dying" /\ \A q \in Remote \ {r} : life'[q] = life[q]
    BY <1>0, <2>1, Dies
  <2> QED BY <1>0, <2>2, <2>3 DEF RemoteLives
<1>7. ASSUME NEW r \in Remote, RendererJoined(r)
      PROVE  RemoteLives'
  <2>1. node = "clearing" /\ UNCHANGED <<node, video_renderers>>
    BY <1>7 DEF RendererJoined, peerVars, js
  <2>2. /\ life[r] = "dying" /\ life'[r] = "gone"
        /\ \A q \in Remote \ {r} : life'[q] = life[q]
    BY <1>0, <1>7, Joins DEF RendererJoined
  <2>3. r <= Len(video_renderers)
    BY <1>0, <2>1, <2>2 DEF RemoteLives, Remote
  <2> QED BY <1>0, <2>1, <2>2, <2>3 DEF RemoteLives
<1>8. CASE RenderersCleared
  <2>1. /\ node = "clearing" /\ node' = "stopping" /\ UNCHANGED life
        /\ \A r \in DOMAIN video_renderers : life[r] = "gone"
    BY <1>8 DEF RenderersCleared, rendererVars
  <2>2. \A r \in Remote : life[r] \in {"none", "gone"}
    BY <1>0, <2>1 DEF RemoteLives, Remote
  <2> QED BY <2>1, <2>2 DEF RemoteLives
<1>9. CASE StopCapture \/ Finalize \/ PreviewJoined
  <2>1. node \in Cleared /\ node' \in Cleared
    BY <1>9 DEF StopCapture, Finalize, PreviewJoined
  <2>2. \A r \in Remote : life'[r] = life[r]
    BY <1>0, <1>9, Dies, Joins
       DEF StopCapture, Finalize, PreviewJoined, Preview, rendererVars
  <2> QED BY <1>0, <2>1, <2>2 DEF RemoteLives
<1> QED BY <1>1, <1>2, <1>3, <1>4, <1>5, <1>6, <1>7, <1>8, <1>9
        DEF Next, NodeGoesOn, Calls, Elsewhere

LEMMA PreviewStep ==
    ASSUME IInv, [Next]_vars
    PROVE  PreviewLives'
<1> USE DEF Preview, Ended
<1>0. /\ TypeOK /\ Quiet /\ PlacesLeft /\ PreviewLives
      /\ Remote \subseteq Renderers /\ 0 \in Renderers /\ 0 \notin Remote
      /\ DOMAIN video_renderers \subseteq Remote
  BY RenderersAssumption DEF IInv, PeerInv, LifeInv, TypeOK, Remote
<1>1. CASE Construct
  <2>1. CASE New(Preview) /\ node' = "idle"
    <3>1. life'[Preview] = "live"
      BY <1>0, <2>1, Newborn
    <3> QED BY <2>1, <3>1 DEF PreviewLives
  <2>2. CASE UNCHANGED <<capture, rendererVars>> /\ node' \in {"idle", "failed"}
    BY <1>0, <1>1, <2>2 DEF Construct, PreviewLives, rendererVars
  <2> QED BY <1>1, <2>1, <2>2 DEF Construct, WebrtcCreate
<1>2. CASE Calls
  <2>1. /\ node \notin Ended /\ node' \notin Ended
        /\ UNCHANGED <<capture, life>>
    BY <1>0, <1>2, CallsFacts
  <2> QED BY <1>0, <2>1 DEF PreviewLives
<1>3. ASSUME NEW s \in Slots, OnTrack(s)
      PROVE  PreviewLives'
  <2>1. UNCHANGED <<node, capture>> /\ life'[0] = life[0]
    BY <1>0, <1>3, PlaceForTrack, Newborn DEF OnTrack, js
  <2> QED BY <1>0, <2>1 DEF PreviewLives
<1>4. CASE Elsewhere
  <2>1. UNCHANGED <<node, capture, life>>
    BY <1>0, <1>4, ElsewhereFacts
  <2> QED BY <1>0, <2>1 DEF PreviewLives
<1>5. CASE PcClose \/ FramesEnded
  BY <1>0, <1>5 DEF PcClose, FramesEnded, PreviewLives, rendererVars
<1>6. CASE ClearRenderer \/ \E r \in Remote : RendererJoined(r)
  <2>1. UNCHANGED <<node, capture>> /\ life'[0] = life[0]
    BY <1>0, <1>6, Dies, Joins DEF ClearRenderer, RendererJoined, peerVars, js
  <2> QED BY <1>0, <2>1 DEF PreviewLives
<1>7. CASE RenderersCleared \/ StopCapture
  BY <1>0, <1>7 DEF RenderersCleared, StopCapture, PreviewLives, rendererVars
<1>8. CASE Finalize
  <2>1. capture = "none" /\ UNCHANGED capture
    BY <1>0, <1>8 DEF Finalize, PreviewLives
  <2>2. \/ node' = "destroying"
        \/ node' = "gone" /\ life[Preview] # "live" /\ UNCHANGED life
    BY <1>8 DEF Finalize, rendererVars
  <2>3. node = "closed"
    BY <1>8 DEF Finalize
  <2> QED BY <1>0, <2>1, <2>2, <2>3 DEF PreviewLives
<1>9. CASE PreviewJoined
  <2>1. node' = "gone" /\ life'[0] = "gone" /\ capture' = "none"
    BY <1>0, <1>9, Joins DEF PreviewJoined, PreviewLives
  <2> QED BY <2>1 DEF PreviewLives
<1> QED BY <1>1, <1>2, <1>3, <1>4, <1>5, <1>6, <1>7, <1>8, <1>9
        DEF Next, NodeGoesOn, Calls, Elsewhere
LEMMA FramesEndStep ==
    ASSUME IInv, [Next]_vars
    PROVE  FramesEnd'
<1> USE DEF Preview, Ended, Cleared
<1>0. /\ TypeOK /\ Quiet /\ PlacesLeft /\ FramesEnd
      /\ Remote \subseteq Renderers /\ 0 \in Renderers /\ 0 \notin Remote
      /\ DOMAIN video_renderers \subseteq Remote
  BY RenderersAssumption DEF IInv, PeerInv, LifeInv, TypeOK, Remote
<1>1. CASE Construct
  <2>1. /\ node' \in {"idle", "failed"} /\ UNCHANGED frame
        /\ capture' = "none" => capture = "none"
    BY <1>0, <1>1, Newborn
       DEF Construct, WebrtcCreate, CreateVideoSource, rendererVars
  <2> QED BY <1>0, <2>1 DEF FramesEnd
<1>2. CASE Calls
  <2>1. node \notin Ended /\ node' \notin Ended /\ UNCHANGED <<capture, frame>>
    BY <1>0, <1>2, CallsFacts
  <2> QED BY <1>0, <2>1 DEF FramesEnd
<1>3. ASSUME NEW s \in Slots, OnTrack(s)
      PROVE  FramesEnd'
  <2>1. UNCHANGED <<node, capture, frame>>
    BY <1>0, <1>3, PlaceForTrack, Newborn DEF OnTrack, js
  <2> QED BY <1>0, <2>1 DEF FramesEnd
<1>4. ASSUME NEW r \in Renderers, FrameArrives(r)
      PROVE  FramesEnd'
  <2>1. /\ UNCHANGED <<node, capture>>
        /\ \A q \in Renderers \ {r} : frame'[q] <=> frame[q]
    BY <1>0, <1>4, FrameBegins DEF FrameArrives, peerVars, js
  <2>2. CASE r = Preview
    BY <1>0, <1>4, <2>1, <2>2 DEF FrameArrives, FramesEnd
  <2>3. CASE r # Preview
    <3>1. node \notin Ended
      BY <1>0, <1>4, <2>3 DEF FrameArrives, Quiet
    <3> QED BY <1>0, <2>1, <2>3, <3>1 DEF FramesEnd
  <2> QED BY <2>2, <2>3
<1>5. ASSUME NEW r \in Renderers, FrameStored(r) \/ WindowStep(r) \/ UserCloses(r)
      PROVE  FramesEnd'
  <2>1. UNCHANGED <<node, capture>>
    BY <1>5 DEF FrameStored, WindowStep, UserCloses, peerVars, js
  <2>2. \A q \in Renderers : frame'[q] => frame[q]
    BY <1>0, <1>5, FrameStops, WindowMoves DEF FrameStored, WindowStep, UserCloses
  <2> QED BY <1>0, <2>1, <2>2 DEF FramesEnd
<1>6. CASE UNCHANGED vars
  BY <1>0, <1>6 DEF vars, peerVars, js, rendererVars, FramesEnd
<1>7. CASE PcClose
  BY <1>0, <1>7 DEF PcClose, rendererVars, FramesEnd
<1>8. CASE FramesEnded
  BY <1>0, <1>8 DEF FramesEnded, rendererVars, FramesEnd
<1>9. CASE ClearRenderer \/ \E r \in Remote : RendererJoined(r)
  <2>1. UNCHANGED <<node, capture, frame>>
    BY <1>0, <1>9, Dies, Joins DEF ClearRenderer, RendererJoined, peerVars, js
  <2> QED BY <1>0, <2>1 DEF FramesEnd
<1>10. CASE RenderersCleared
  <2>1. /\ node = "clearing" /\ UNCHANGED frame
        /\ capture' = "none" => capture = "none"
    BY <1>10 DEF RenderersCleared, rendererVars
  <2> QED BY <1>0, <2>1 DEF FramesEnd
<1>11. CASE StopCapture
  <2>1. node = "stopping" /\ UNCHANGED frame /\ ~frame[Preview]
    BY <1>11 DEF StopCapture, rendererVars
  <2> QED BY <1>0, <2>1 DEF FramesEnd
<1>12. CASE Finalize \/ PreviewJoined
  <2>1. node \in Cleared /\ UNCHANGED <<capture, frame>>
    BY <1>0, <1>12, Dies, Joins DEF Finalize, PreviewJoined, rendererVars
  <2> QED BY <1>0, <2>1 DEF FramesEnd
<1> QED BY <1>1, <1>2, <1>3, <1>4, <1>5, <1>6, <1>7, <1>8, <1>9, <1>10,
           <1>11, <1>12 DEF Next, NodeGoesOn, Calls

-----------------------------------------------------------------------------
LEMMA InitIInv == Init => IInv
<1> SUFFICES ASSUME Init PROVE IInv
  OBVIOUS
<1> USE DEF Init
<1>1. PeerTypeOK
  <2>1. /\ 1 \in Slots /\ 0 \in 0..MaxOffers /\ <<>> \in Seq(Slots)
        /\ <<>> \in Seq(Operations) /\ Len(<<>>) = 0 /\ 0 <= MaxRenderers
    BY SlotsAssumption, OffersAssumption, RenderersAssumption DEF Slots
  <2>2. descriptions \in Descriptions
    BY SlotsAssumption DEF Descriptions
  <2> QED BY <2>1, <2>2 DEF PeerTypeOK
<1>2. RendererTypeOK
  BY FramesAssumption DEF RendererInit, RendererTypeOK
<1>3. Quiet
  BY DEF Quiet, Ended
<1>4. PlacesLeft
  BY FS_EmptySet, RenderersAssumption DEF PlacesLeft
<1>5. Keyed
  <2>1. DOMAIN <<>> = {}
    OBVIOUS
  <2> QED BY <2>1 DEF Keyed
<1>6. /\ \A r \in Renderers : life[r] = "none" /\ thread[r] = "none" /\ ~frame[r]
      /\ 0 \in Renderers /\ Remote \subseteq Renderers
      /\ \A r \in Remote : r > 0
      /\ Len(video_renderers) = 0
  BY RenderersAssumption DEF RendererInit, Remote
<1>7. RemoteLives /\ PreviewLives /\ FramesEnd
  BY <1>6 DEF RemoteLives, PreviewLives, FramesEnd, Cleared, Preview, Remote
<1>8. FramesLive /\ ThreadsJoined
  BY <1>6 DEF FramesLive, ThreadsJoined
<1> QED BY <1>1, <1>2, <1>3, <1>4, <1>5, <1>7, <1>8, TypeParts
        DEF IInv, PeerInv, LifeInv

LEMMA Inductive == Spec => []IInv
<1>1. ASSUME IInv, [Next]_vars
      PROVE  IInv'
  <2>1. TypeOK /\ Quiet /\ PlacesLeft /\ Keyed
    BY <1>1 DEF IInv, PeerInv
  <2>2. Quiet' /\ PlacesLeft' /\ Keyed'
    BY <1>1, <2>1, QuietStep, PlacesStep, KeyedStep
  <2>3. RemoteLives' /\ PreviewLives' /\ FramesEnd'
    BY <1>1, RemoteStep, PreviewStep, FramesEndStep
  <2>4. TypeOK' /\ FramesLive' /\ ThreadsJoined'
    BY <1>1, TypeStep, SinksStep
  <2> QED BY <2>2, <2>3, <2>4 DEF IInv, PeerInv, LifeInv
<1> QED BY <1>1, InitIInv, PTL DEF Spec

(* Every variable keeps its type, for any number of slots, tracks and       *)
(* frames: a top-up asks for exactly what is missing, and each announced    *)
(* track finds its place among the renderers.                               *)
THEOREM TypeCorrect == Spec => []TypeOK
<1>1. IInv => TypeOK
  BY DEF IInv
<1> QED BY <1>1, Inductive, PTL

(* No thread is in OnFrame of a renderer that is being or has been          *)
(* destroyed, with any number of tracks announced until the close           *)
(* (webrtc_close, webrtc_destroy, WebrtcPeer::OnTrack).                     *)
THEOREM SinksLive == Spec => []FramesReachLiveSinks
<1>1. IInv => FramesReachLiveSinks
  BY DEF IInv, LifeInv, FramesLive, FramesReachLiveSinks
<1> QED BY <1>1, Inductive, PTL

(* SetFrameTransformer is called once per receiver, and no track is shown   *)
(* whose receiver it was not called for (AttachRecvTransformer).            *)
THEOREM KeyedOnce == Spec => []ReceiversKeyedOnce
<1>1. IInv => ReceiversKeyedOnce
  <2> SUFFICES ASSUME IInv PROVE ReceiversKeyedOnce
    OBVIOUS
  <2>1. Keyed /\ video_renderers \in Seq(Slots)
    BY DEF IInv, PeerInv, TypeOK
  <2>2. \A r \in DOMAIN video_renderers : video_renderers[r] \in Slots
    BY <2>1
  <2> QED BY <2>1, <2>2 DEF Keyed, ReceiversKeyedOnce
<1> QED BY <1>1, Inductive, PTL

(* When close has returned no remote renderer and no remote window thread   *)
(* is left, and when the wrapper is gone the preview's neither              *)
(* (webrtc_close, VideoRenderer::~VideoRenderer).                           *)
THEOREM NothingLeft == Spec => []NoWindowLeft
<1>1. IInv => NoWindowLeft
  <2> SUFFICES ASSUME IInv PROVE NoWindowLeft
    OBVIOUS
  <2>1. /\ RemoteLives /\ PreviewLives /\ ThreadsJoined
        /\ 0 \in Renderers /\ Remote \subseteq Renderers
    BY RenderersAssumption DEF IInv, LifeInv, Remote
  <2> QED BY <2>1 DEF RemoteLives, PreviewLives, ThreadsJoined, NoWindowLeft, Left,
                      Preview, Cleared
<1> QED BY <1>1, Inductive, PTL
=============================================================================
