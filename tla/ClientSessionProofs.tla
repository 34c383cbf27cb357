------------------------ MODULE ClientSessionProofs ------------------------
(***************************************************************************)
(* Proofs about ClientSession, for any number of slots, overlapping polls  *)
(* and failing requests.                                                   *)
(***************************************************************************)
EXTENDS ClientSession, TLAPS, SequenceTheorems

(* Giving up or answering a request leaves a sequence of requests.           *)
LEMMA RemoveAtType ==
    ASSUME NEW S, NEW s \in Seq(S), NEW i \in DOMAIN s
    PROVE  RemoveAt(s, i) \in Seq(S)
<1>1. SubSeq(s, 1, i-1) \in Seq(S) /\ SubSeq(s, i+1, Len(s)) \in Seq(S)
  OBVIOUS
<1> QED BY <1>1 DEF RemoveAt

LEMMA ElementType ==
    ASSUME NEW S, NEW s \in Seq(S)
    PROVE  \A i \in DOMAIN s : s[i] \in S
OBVIOUS

LEMMA LastType ==
    ASSUME NEW S, NEW s \in Seq(S), s # <<>>
    PROVE  Last(s) \in S
BY DEF Last

(* What the calls of the native peer leave of it.                            *)
LEMMA NewPeerType == NewPeer \in Peers
BY SlotsAssumption DEF NewPeer, Peers, Events

LEMMA CreatingFacts ==
    ASSUME NEW p \in Peers, NEW n \in Nat
    PROVE  /\ [p EXCEPT !.creating = n] \in Peers
           /\ [p EXCEPT !.creating = n].slots = p.slots
           /\ [p EXCEPT !.creating = n].creating = n
           /\ [p EXCEPT !.creating = n].events = p.events
           /\ [p EXCEPT !.creating = n].local = p.local
           /\ [p EXCEPT !.creating = n].negotiated = p.negotiated
BY DEF Peers

LEMMA CreatedFacts ==
    ASSUME NEW p \in Peers, p.creating > 0, NEW q,
           q = [p EXCEPT !.creating = @ - 1, !.events = Append(@, p.slots)]
    PROVE  /\ q \in Peers
           /\ q.slots = p.slots
           /\ q.creating = p.creating - 1
           /\ q.events = Append(p.events, p.slots)
           /\ Len(q.events) = Len(p.events) + 1
           /\ q.local = p.local /\ q.negotiated = p.negotiated
<1>1. p.slots \in 1..MaxSlots /\ p.events \in Events /\ p.creating - 1 \in Nat
  BY DEF Peers
<1>2. Append(p.events, p.slots) \in Events
      /\ Len(Append(p.events, p.slots)) = Len(p.events) + 1
  BY <1>1 DEF Events
<1> HIDE DEF Events
<1> QED BY <1>1, <1>2 DEF Peers

LEMMA HandledFacts ==
    ASSUME NEW p \in Peers, p.events # <<>>, NEW q,
           q = [p EXCEPT !.events = <<>>, !.local = Last(p.events)]
    PROVE  /\ q \in Peers
           /\ q.slots = p.slots /\ q.creating = p.creating
           /\ q.events = <<>> /\ q.local = Last(p.events)
           /\ q.negotiated = p.negotiated
<1>1. Last(p.events) \in 0..MaxSlots /\ <<>> \in Events
  BY LastType, SlotsAssumption DEF Peers, Events
<1> HIDE DEF Events
<1> QED BY <1>1 DEF Peers

LEMMA AnsweredFacts ==
    ASSUME NEW p \in Peers, NEW n \in 1..MaxSlots, NEW q,
           q = [p EXCEPT !.local = 0, !.negotiated = n]
    PROVE  /\ q \in Peers
           /\ q.slots = p.slots /\ q.creating = p.creating
           /\ q.events = p.events
<1>1. 0 \in 0..MaxSlots /\ n \in 0..MaxSlots
  BY SlotsAssumption
<1> QED BY <1>1 DEF Peers, Events

LEMMA AnswerTaken ==
    ASSUME NEW p \in Peers, NEW n, NEW q,
           q = [p EXCEPT !.local = 0, !.negotiated = n]
    PROVE  q.local = 0 /\ q.negotiated = n
BY DEF Peers

LEMMA ToppedUpFacts ==
    ASSUME NEW p \in Peers, NEW d \in Int, p.slots + d \in 1..MaxSlots, NEW q,
           q = [p EXCEPT !.slots = @ + d, !.creating = @ + 1]
    PROVE  /\ q \in Peers
           /\ q.slots = p.slots + d /\ q.creating = p.creating + 1
           /\ q.events = p.events
           /\ q.local = p.local /\ q.negotiated = p.negotiated
<1>1. p.slots \in Int /\ p.creating + 1 \in Nat
  BY SlotsAssumption DEF Peers
<1> QED BY <1>1 DEF Peers, Events

-----------------------------------------------------------------------------
(* Types and slots are shown together: that a top-up stays within MaxSlots   *)
(* rests on the transceivers being percRecvSlots in number.                  *)

SlotsInv == TypeOK /\ SlotsAccounted

Flags ==
    /\ sfuMode \in BOOLEAN /\ percMode \in BOOLEAN
    /\ percRenegotiating \in BOOLEAN /\ sfuPollTimer \in BOOLEAN
    /\ keyed \in BOOLEAN /\ lost \in BOOLEAN

LEMMA SlotsInit == Init => SlotsInv
<1> SUFFICES ASSUME Init PROVE SlotsInv
  OBVIOUS
<1>1. peer \in Peers
  BY NewPeerType DEF Init
<1>2. /\ 0 \in 0..MaxPolls /\ 0 \in 0..MaxSlots /\ 1 \in 1..MaxSlots
      /\ 0 \in 0..MaxFaults /\ <<>> \in Seq(Offer)
  BY SlotsAssumption, PollsAssumption, FaultsAssumption
<1>3. SlotsAccounted
  BY DEF Init, SlotsAccounted, Open
<1>4. TypeOK
  BY <1>1, <1>2 DEF Init, TypeOK
<1> QED BY <1>3, <1>4 DEF SlotsInv

(* An answer keeps the peer's type and its slots.                            *)
LEMMA RemoteFacts ==
    ASSUME peer \in Peers, NEW n \in 1..MaxSlots, SetRemoteDescription(n)
    PROVE  /\ peer' \in Peers
           /\ peer'.slots = peer.slots /\ peer'.creating = peer.creating
           /\ peer'.events = peer.events
           /\ peer.local # n => peer' = peer
<1>1. CASE Open /\ peer.local = n
  <2> DEFINE q == [peer EXCEPT !.local = 0, !.negotiated = n]
  <2>1. peer' = q
    BY <1>1 DEF SetRemoteDescription
  <2> HIDE DEF q
  <2>2. /\ q \in Peers /\ q.slots = peer.slots
        /\ q.creating = peer.creating /\ q.events = peer.events
    BY AnsweredFacts DEF q
  <2> QED BY <1>1, <2>1, <2>2
<1>2. CASE ~(Open /\ peer.local = n)
  BY <1>2 DEF SetRemoteDescription
<1> QED BY <1>1, <1>2

LEMMA FaultType == TypeOK /\ Fault => faults' \in 0..MaxFaults
BY FaultsAssumption DEF TypeOK, Fault

LEMMA SlotsStep == SlotsInv /\ [Next]_vars => SlotsInv'
<1> SUFFICES ASSUME SlotsInv, [Next]_vars PROVE SlotsInv'
  OBVIOUS
<1> USE DEF mode, reneg, keys, http, sfu, history
<1>0. /\ TypeOK /\ SlotsAccounted /\ peer \in Peers
      /\ peer.creating + 1 \in Nat
      /\ 0 \in 0..MaxSlots /\ 1 \in 1..MaxSlots
      /\ peer.creating > 0 => peer.creating - 1 \in Nat
  BY SlotsAssumption DEF SlotsInv, TypeOK, Peers, Events
<1>a. ASSUME CreateOfferOrCrash
      PROVE  /\ peer' \in Peers /\ peer'.slots = peer.slots
             /\ proc' \in {"running", "exited", "crashed"}
  <2> DEFINE q == [peer EXCEPT !.creating = @ + 1]
  <2>1. q \in Peers /\ q.slots = peer.slots
    BY <1>0, CreatingFacts
  <2>2. proc \in {"running", "exited", "crashed"}
    BY <1>0 DEF TypeOK
  <2>3. \/ peer' = q /\ proc' = proc
        \/ peer' = peer /\ proc' = "crashed"
    BY <1>a DEF CreateOfferOrCrash
  <2> HIDE DEF q
  <2> QED BY <1>0, <2>1, <2>2, <2>3
<1>1. CASE Connect
  <2>1. /\ peer' \in Peers
        /\ \/ peer'.slots = 1 /\ percRecvSlots' = 1
           \/ peer' = peer /\ pc' = pc /\ percRecvSlots' = percRecvSlots
    <3>1. NewPeer.slots = 1
      BY DEF NewPeer
    <3> QED BY <1>0, <1>1, <3>1, NewPeerType DEF Connect
  <2>2. faults' \in 0..MaxFaults
    BY <1>0, <1>1, FaultType DEF Connect, NoFault, TypeOK
  <2>3. TypeOK'
    BY <1>0, <1>1, <2>1, <2>2 DEF Connect, TypeOK
  <2>4. SlotsAccounted'
    BY <1>0, <1>1, <2>1 DEF Connect, SlotsAccounted, Open
  <2> QED BY <2>3, <2>4 DEF SlotsInv
<1>2. CASE Disconnect
  <2>1. TypeOK'
    BY <1>0, <1>2, NewPeerType DEF Disconnect, EndCall, TypeOK
  <2>2. SlotsAccounted'
    BY <1>2 DEF Disconnect, EndCall, SlotsAccounted, Open
  <2> QED BY <2>1, <2>2 DEF SlotsInv
<1>3. CASE Quit
  BY <1>0, <1>3 DEF Quit, SlotsInv, TypeOK, SlotsAccounted, Open
<1>4. CASE ConferenceReply
  <2>1. peer' \in Peers /\ peer'.slots = peer.slots /\ proc' \in {"running", "exited", "crashed"}
    BY <1>0, <1>a, <1>4 DEF ConferenceReply, TypeOK
  <2>2. faults' \in 0..MaxFaults
    BY <1>0, <1>4, FaultType DEF ConferenceReply, NoFault, TypeOK
  <2>3. TypeOK'
    BY <1>0, <1>4, <2>1, <2>2 DEF ConferenceReply, TypeOK
  <2>4. SlotsAccounted'
    BY <1>0, <1>4, <2>1 DEF ConferenceReply, SlotsAccounted, Open
  <2> QED BY <2>3, <2>4 DEF SlotsInv
<1>5. CASE JoinReply
  <2>1. peer' \in Peers /\ peer'.slots = peer.slots /\ proc' \in {"running", "exited", "crashed"}
    BY <1>a, <1>5 DEF JoinReply
  <2>2. faults' \in 0..MaxFaults
    BY <1>0, <1>5, FaultType DEF JoinReply, NoFault, TypeOK
  <2>3. TypeOK'
    BY <1>0, <1>5, <2>1, <2>2 DEF JoinReply, InstallE2eKeys, TypeOK
  <2>4. SlotsAccounted'
    BY <1>0, <1>5, <2>1 DEF JoinReply, SlotsAccounted, Open
  <2> QED BY <2>3, <2>4 DEF SlotsInv
<1>6. CASE KdWsOpen \/ KdWsMessage \/ KdWsClose
  <2>1. /\ UNCHANGED <<mode, pc, reneg, kd, peer, http, sfu, history>>
        /\ kdWs' \in {"null", "open"} \/ kdWs' = kdWs
        /\ keyed' = keyed \/ keyed' = (keyed \/ Open)
    BY <1>6 DEF KdWsOpen, KdWsMessage, KdWsClose, InstallE2eKeys
  <2>2. Flags'
    BY <1>0, <2>1 DEF Flags, TypeOK
  <2>3. TypeOK'
    BY <1>0, <2>1, <2>2 DEF Flags, TypeOK
  <2>4. SlotsAccounted'
    BY <1>0, <2>1 DEF SlotsAccounted, Open
  <2> QED BY <2>3, <2>4 DEF SlotsInv
<1>7. CASE OfferCreated
  <2>1. peer' \in Peers /\ peer'.slots = peer.slots
    <3> DEFINE q == [peer EXCEPT !.creating = @ - 1,
                                 !.events = Append(@, peer.slots)]
               r == [peer EXCEPT !.creating = @ - 1]
    <3>1. peer' = q \/ peer' = r
      BY <1>7 DEF OfferCreated
    <3>2. peer.creating > 0
      BY <1>7 DEF OfferCreated
    <3>3. r \in Peers /\ r.slots = peer.slots
      BY <1>0, <3>2, CreatingFacts
    <3> HIDE DEF q, r
    <3>4. q \in Peers /\ q.slots = peer.slots
      BY <1>0, <3>2, CreatedFacts DEF q
    <3> QED BY <3>1, <3>3, <3>4
  <2>2. faults' \in 0..MaxFaults
    BY <1>0, <1>7, FaultType DEF OfferCreated, NoFault, TypeOK
  <2>3. TypeOK'
    <3>1. /\ UNCHANGED <<mode, pc, reneg, keys, http, sfu, fresh>>
          /\ lost' = lost \/ lost' = TRUE
      BY <1>7 DEF OfferCreated
    <3>2. Flags'
      BY <1>0, <3>1 DEF Flags, TypeOK
    <3> QED BY <1>0, <2>1, <2>2, <3>1, <3>2 DEF Flags, TypeOK
  <2>4. SlotsAccounted'
    BY <1>0, <1>7, <2>1 DEF OfferCreated, SlotsAccounted, Open
  <2> QED BY <2>3, <2>4 DEF SlotsInv
<1>8. CASE HandlePeerEvents
  <2>1. peer' \in Peers /\ peer'.slots = peer.slots
    BY <1>0, <1>8, HandledFacts DEF HandlePeerEvents
  <2>2. /\ offers' \in Seq(Offer)
        /\ fresh' \in Nat
    <3> DEFINE posted == [i \in DOMAIN peer.events |->
                            [client |-> percClientId, slots |-> peer.events[i]]]
    <3>1. peer.events \in Seq(1..MaxSlots)
      BY <1>0 DEF Peers, Events
    <3>2. percClientId \in {"none", "assigned"} /\ offers \in Seq(Offer) /\ fresh \in Nat
      BY <1>0 DEF TypeOK
    <3>3. \A i \in DOMAIN peer.events :
             [client |-> percClientId, slots |-> peer.events[i]] \in Offer
      <4>1. \A i \in DOMAIN peer.events : peer.events[i] \in 1..MaxSlots
        BY <3>1, ElementType
      <4> QED BY <3>2, <4>1 DEF Offer
    <3>4. posted \in Seq(Offer)
      BY <3>1, <3>3
    <3> HIDE DEF posted
    <3>5. offers' = offers \o posted
      BY <1>8 DEF HandlePeerEvents, posted
    <3>6. offers' \in Seq(Offer)
      BY <3>2, <3>4, <3>5
    <3>7. fresh' \in Nat
      BY <1>8, <3>1, <3>2 DEF HandlePeerEvents
    <3> QED BY <3>6, <3>7
  <2>3. TypeOK'
    BY <1>0, <1>8, <2>1, <2>2 DEF HandlePeerEvents, TypeOK
  <2>4. SlotsAccounted'
    BY <1>0, <1>8, <2>1 DEF HandlePeerEvents, SlotsAccounted, Open
  <2> QED BY <2>3, <2>4 DEF SlotsInv
<1>9. ASSUME NEW i \in DOMAIN offers, SfuOfferReply(i) PROVE SlotsInv'
  <2>1. offers' \in Seq(Offer) /\ offers[i].slots \in 1..MaxSlots
    <3>1. offers \in Seq(Offer) /\ offers' = RemoveAt(offers, i)
      BY <1>0, <1>9 DEF SfuOfferReply, TypeOK
    <3>2. offers[i] \in Offer
      BY <3>1
    <3> QED BY <3>1, <3>2, RemoveAtType DEF Offer
  <2>2. peer' \in Peers /\ peer'.slots = peer.slots
    BY <1>0, <1>9, <2>1, RemoteFacts DEF SfuOfferReply
  <2>3. TypeOK'
    <3>1. /\ UNCHANGED <<mode, pc, percRecvSlots, keys, polls, answerPolls,
                          sfu, history>>
          /\ percClientId' \in {percClientId, "assigned"}
          /\ sfuPollTimer' = TRUE \/ UNCHANGED sfuPollTimer
          /\ percRenegotiating' = (percRenegotiating /\ offers[i].client = "none")
      BY <1>9 DEF SfuOfferReply, RenegotiationEnds
    <3>2. Flags'
      BY <1>0, <3>1 DEF Flags, TypeOK
    <3> QED BY <1>0, <2>1, <2>2, <3>1, <3>2 DEF Flags, TypeOK
  <2>4. SlotsAccounted'
    BY <1>0, <1>9, <2>2 DEF SfuOfferReply, SlotsAccounted, Open
  <2> QED BY <2>3, <2>4 DEF SlotsInv
<1>10. ASSUME NEW i \in DOMAIN offers, SfuOfferError(i) PROVE SlotsInv'
  <2>1. offers' \in Seq(Offer)
    BY <1>0, <1>10, RemoveAtType DEF SfuOfferError, TypeOK
  <2>2. faults' \in 0..MaxFaults
    BY <1>0, <1>10, FaultType DEF SfuOfferError
  <2>3. TypeOK'
    <3>1. /\ UNCHANGED <<mode, pc, percRecvSlots, keys, peer, polls,
                          answerPolls, sfuPollTimer, sfu, fresh>>
          /\ percClientId' \in {percClientId, "assigned"}
          /\ lost' = TRUE
          /\ \/ percRenegotiating' = FALSE
             \/ percRenegotiating' = (percRenegotiating /\ offers[i].client = "none")
      BY <1>10 DEF SfuOfferError, RenegotiationEnds
    <3>2. Flags'
      BY <1>0, <3>1 DEF Flags, TypeOK
    <3> QED BY <1>0, <2>1, <2>2, <3>1, <3>2 DEF Flags, TypeOK
  <2>4. SlotsAccounted'
    BY <1>0, <1>10 DEF SfuOfferError, SlotsAccounted, Open
  <2> QED BY <2>3, <2>4 DEF SlotsInv
<1>11. CASE AnswerTick
  BY <1>0, <1>11, PollsAssumption DEF AnswerTick, SlotsInv, TypeOK, SlotsAccounted, Open
<1>12. CASE AnswerReply
  <2>1. peer' \in Peers /\ peer'.slots = peer.slots
    BY <1>0, <1>12, RemoteFacts DEF AnswerReply
  <2>2. TypeOK'
    <3>1. /\ UNCHANGED <<mode, pc, reneg, keys, offers, polls, sfu, history>>
          /\ sfuPollTimer' = FALSE \/ UNCHANGED sfuPollTimer
      BY <1>12 DEF AnswerReply
    <3>2. answerPolls' \in 0..MaxPolls
      BY <1>0, <1>12, PollsAssumption DEF AnswerReply, TypeOK
    <3>3. Flags'
      BY <1>0, <3>1 DEF Flags, TypeOK
    <3> QED BY <1>0, <2>1, <3>1, <3>2, <3>3 DEF Flags, TypeOK
  <2>3. SlotsAccounted'
    BY <1>0, <1>12, <2>1 DEF AnswerReply, SlotsAccounted, Open
  <2> QED BY <2>2, <2>3 DEF SlotsInv
<1>13. CASE SignalTick
  BY <1>0, <1>13, PollsAssumption DEF SignalTick, SlotsInv, TypeOK, SlotsAccounted, Open
<1>14. CASE SignalReply
  <2>1. /\ desired \in 0..MaxSlots /\ percRecvSlots \in 1..MaxSlots
        /\ asked' \in 0..MaxSlots /\ asked' >= asked /\ asked' >= desired
    BY <1>0, <1>14, SlotsAssumption DEF SignalReply, TypeOK
  <2>2. polls' \in 0..MaxPolls
    BY <1>0, <1>14, PollsAssumption DEF SignalReply, TypeOK
  <2>3. /\ peer' \in Peers /\ percRecvSlots' \in 1..MaxSlots
        /\ percRenegotiating' \in BOOLEAN
        /\ SlotsAccounted'
    <3>1. CASE TopUp /\ Open
      <4>1. desired \in 1..MaxSlots /\ desired - percRecvSlots \in Int
            /\ peer.slots + (desired - percRecvSlots) = desired
        BY <1>0, <2>1, <3>1, SlotsAssumption DEF TopUp, SlotsAccounted
      <4>2. peer' \in Peers /\ peer'.slots = desired
        <5> DEFINE d == desired - percRecvSlots
                   q == [peer EXCEPT !.slots = @ + d, !.creating = @ + 1]
        <5>1. peer' = q
          BY <3>1 DEF TopUp
        <5>2. d \in Int /\ peer.slots + d = desired
          BY <4>1
        <5> HIDE DEF d, q
        <5>3. q \in Peers /\ q.slots = peer.slots + d
          BY <1>0, <4>1, <5>2, ToppedUpFacts DEF q
        <5> QED BY <5>1, <5>2, <5>3
      <4>3. percRecvSlots' = desired /\ percRenegotiating' = TRUE
        BY <3>1 DEF TopUp
      <4> QED BY <2>1, <4>1, <4>2, <4>3 DEF SlotsAccounted
    <3>2. CASE TopUp /\ ~Open
      BY <1>0, <1>14, <3>2, <2>1 DEF TopUp, SignalReply, SlotsAccounted, Open
    <3>3. CASE UNCHANGED <<percRecvSlots, percRenegotiating, peer>>
      <4>1. asked \in Nat /\ asked' \in Nat /\ UNCHANGED pc
        BY <1>0, <1>14, <2>1, SlotsAssumption DEF TypeOK, SignalReply
      <4>2. SlotsAccounted'
        BY <1>0, <2>1, <3>3, <4>1 DEF SlotsAccounted, Open
      <4> QED BY <1>0, <3>3, <4>2 DEF TypeOK
    <3> QED BY <1>14, <3>1, <3>2, <3>3 DEF SignalReply
  <2>4. TypeOK'
    BY <1>0, <1>14, <2>1, <2>2, <2>3 DEF SignalReply, TypeOK
  <2> QED BY <2>3, <2>4 DEF SlotsInv
<1>15. CASE SignalError
  <2>1. polls' \in 0..MaxPolls /\ faults' \in 0..MaxFaults
    BY <1>0, <1>15, PollsAssumption, FaultType DEF SignalError, TypeOK
  <2> QED BY <1>0, <1>15, <2>1 DEF SignalError, SlotsInv, TypeOK, SlotsAccounted, Open
<1>16. CASE MembershipChanges
  BY <1>0, <1>16 DEF MembershipChanges, SlotsInv, TypeOK, SlotsAccounted, Open
<1>17. CASE UNCHANGED vars
  BY <1>0, <1>17 DEF vars, SlotsInv, TypeOK, SlotsAccounted, Open
<1> QED BY <1>1, <1>2, <1>3, <1>4, <1>5, <1>6, <1>7, <1>8, <1>9, <1>10, <1>11,
           <1>12, <1>13, <1>14, <1>15, <1>16, <1>17 DEF Next

-----------------------------------------------------------------------------
(* A session starts once, percMode never being reset, so what a session      *)
(* counts starts from nothing; until the Key Distributor has answered or     *)
(* failed it has offered nothing; while the SFU has not given a client id,   *)
(* at most one offer is being created, waits to be sent or has been sent,    *)
(* and no slots are asked for; and a client that joined has its keys.        *)

NeverConnected ==
    ~percMode => /\ pc = "null" /\ kd = "none"
                 /\ polls = 0 /\ fresh = 0 /\ offers = <<>>

NothingOffered ==
    /\ peer.creating = 0 /\ peer.events = <<>>
    /\ peer.local = 0 /\ peer.negotiated = 0
    /\ fresh = 0 /\ offers = <<>> /\ percClientId = "none"

JoinPrecedes == Open /\ kd \in {"none", "creating", "joining"} => NothingOffered

OneFirstOffer ==
    /\ fresh <= 1
    /\ Open /\ percClientId = "none" =>
          polls = 0 /\ fresh + peer.creating + Len(peer.events) <= 1

JoinedHasKeys == Open /\ kd = "joined" => keyed

SessionInv == NeverConnected /\ JoinPrecedes /\ OneFirstOffer /\ JoinedHasKeys

LEMMA SessionInit == Init => SessionInv
BY DEF Init, SessionInv, NeverConnected, JoinPrecedes, OneFirstOffer,
       JoinedHasKeys, Open

(* Handlers that neither offer nor change what the session is.               *)
LEMMA Elsewhere ==
    ASSUME SessionInv,
           UNCHANGED <<percMode, pc, kd, peer, percClientId, fresh, offers>>,
           polls' = polls \/ polls > 0,
           keyed' = keyed \/ keyed' = (keyed \/ Open)
    PROVE  SessionInv'
<1>1. NeverConnected'
  BY DEF SessionInv, NeverConnected
<1>2. JoinPrecedes'
  BY DEF SessionInv, JoinPrecedes, NothingOffered, Open
<1>3. OneFirstOffer'
  BY DEF SessionInv, OneFirstOffer, Open
<1>4. JoinedHasKeys'
  BY DEF SessionInv, JoinedHasKeys, Open
<1> QED BY <1>1, <1>2, <1>3, <1>4 DEF SessionInv

LEMMA SessionStep == TypeOK /\ SessionInv /\ [Next]_vars => SessionInv'
<1> SUFFICES ASSUME TypeOK, SessionInv, [Next]_vars PROVE SessionInv'
  OBVIOUS
<1> USE DEF mode, reneg, keys, http, sfu, history
<1>0. /\ NeverConnected /\ JoinPrecedes /\ OneFirstOffer /\ JoinedHasKeys
      /\ peer \in Peers /\ peer.creating \in Nat /\ peer.events \in Seq(1..MaxSlots)
      /\ Len(peer.events) \in Nat
      /\ fresh \in Nat /\ polls \in Nat
  BY PollsAssumption DEF SessionInv, TypeOK, Peers, Events
<1>1. CASE Connect
  <2>1. percMode' = TRUE /\ ~percMode
    BY <1>1 DEF Connect
  <2>2. pc = "null" /\ kd = "none" /\ polls = 0 /\ fresh = 0 /\ offers = <<>>
    BY <1>0, <2>1 DEF NeverConnected
  <2>3. polls' = 0 /\ fresh' = 0 /\ offers' = <<>>
    BY <1>1, <2>2 DEF Connect
  <2>4. \/ peer' = NewPeer /\ percClientId' = "none" /\ kd' = "creating"
        \/ pc' = "null"
    BY <1>1, <2>2 DEF Connect
  <2>5. NeverConnected'
    BY <2>1 DEF NeverConnected
  <2>6. JoinPrecedes'
    BY <2>3, <2>4 DEF JoinPrecedes, NothingOffered, NewPeer, Open
  <2>7. OneFirstOffer'
    BY <2>3, <2>4 DEF OneFirstOffer, NewPeer, Open
  <2>8. JoinedHasKeys'
    BY <2>4 DEF JoinedHasKeys, Open
  <2> QED BY <2>5, <2>6, <2>7, <2>8 DEF SessionInv
<1>2. CASE Disconnect
  <2>1. /\ pc' = "null"
        /\ UNCHANGED <<percMode, kd, polls, fresh, offers>>
    BY <1>2 DEF Disconnect, EndCall
  <2>2. NeverConnected'
    BY <1>0, <2>1 DEF NeverConnected
  <2> QED BY <1>0, <2>1, <2>2 DEF SessionInv, JoinPrecedes, OneFirstOffer,
                                  JoinedHasKeys, Open
<1>3. CASE Quit
  BY <1>3, Elsewhere DEF Quit
<1>4. ASSUME ConferenceReply \/ JoinReply PROVE SessionInv'
  <2>1. /\ UNCHANGED <<percMode, pc, percClientId, fresh, polls, offers>>
        /\ kd \in {"creating", "joining"}
        /\ \/ peer' = peer /\ kd' = "joining" /\ keyed' = keyed
           \/ /\ Open => peer' = [peer EXCEPT !.creating = @ + 1]
              /\ kd' \in {"joined", "refused", "failed"}
              /\ kd' = "joined" => keyed' = (keyed \/ Open)
    BY <1>4 DEF ConferenceReply, JoinReply, CreateOfferOrCrash, InstallE2eKeys
  <2>2. Open => NothingOffered
    BY <1>0, <2>1 DEF JoinPrecedes
  <2>3. NeverConnected'
    BY <1>0, <2>1 DEF NeverConnected
  <2>4. JoinPrecedes'
    BY <2>1, <2>2 DEF JoinPrecedes, NothingOffered, Open
  <2>5. OneFirstOffer'
    <3>1. CASE ~Open
      BY <1>0, <2>1, <3>1 DEF OneFirstOffer, Open
    <3>2. CASE Open /\ peer' = peer
      BY <1>0, <2>1, <3>2 DEF OneFirstOffer, Open
    <3>3. CASE Open /\ peer' = [peer EXCEPT !.creating = @ + 1]
      <4>1. /\ peer'.creating = peer.creating + 1
            /\ peer'.events = peer.events
        BY <1>0, <3>3, CreatingFacts
      <4>2. /\ peer.creating = 0 /\ Len(peer.events) = 0 /\ fresh = 0
        BY <2>2, <3>3 DEF NothingOffered
      <4> QED BY <1>0, <2>1, <3>3, <4>1, <4>2 DEF OneFirstOffer, Open
    <3> QED BY <2>1, <3>1, <3>2, <3>3
  <2>6. JoinedHasKeys'
    BY <2>1 DEF JoinedHasKeys, Open
  <2> QED BY <2>3, <2>4, <2>5, <2>6 DEF SessionInv
<1>6. CASE KdWsOpen \/ KdWsMessage \/ KdWsClose
  <2>1. /\ UNCHANGED <<mode, pc, reneg, kd, peer, http, sfu, history>>
        /\ keyed' = keyed \/ keyed' = (keyed \/ Open)
    BY <1>6 DEF KdWsOpen, KdWsMessage, KdWsClose, InstallE2eKeys
  <2> QED BY <2>1, Elsewhere
<1>7. CASE OfferCreated
  <2> DEFINE q == [peer EXCEPT !.creating = @ - 1,
                               !.events = Append(@, peer.slots)]
             r == [peer EXCEPT !.creating = @ - 1]
  <2>1. /\ UNCHANGED <<percMode, pc, percClientId, kd, keyed, fresh, polls, offers>>
        /\ Open /\ peer.creating > 0
        /\ peer' = q \/ peer' = r
    BY <1>7 DEF OfferCreated
  <2>2. /\ r.creating = peer.creating - 1 /\ Len(r.events) = Len(peer.events)
    BY <1>0, <2>1, CreatingFacts
  <2> HIDE DEF q, r
  <2>3. /\ q.creating = peer.creating - 1 /\ Len(q.events) = Len(peer.events) + 1
    BY <1>0, <2>1, CreatedFacts DEF q
  <2>4. NeverConnected'
    BY <1>0, <2>1 DEF NeverConnected
  <2>5. JoinPrecedes'
    <3>1. peer.creating # 0
      BY <2>1
    <3> QED BY <1>0, <2>1, <3>1 DEF JoinPrecedes, NothingOffered, Open
  <2>6. OneFirstOffer'
    <3>1. peer'.creating + Len(peer'.events) <= peer.creating + Len(peer.events)
          /\ peer'.creating \in Nat /\ Len(peer'.events) \in Nat
      BY <1>0, <2>1, <2>2, <2>3
    <3> QED BY <1>0, <2>1, <3>1 DEF OneFirstOffer, Open
  <2>7. JoinedHasKeys'
    BY <1>0, <2>1 DEF JoinedHasKeys, Open
  <2> QED BY <2>4, <2>5, <2>6, <2>7 DEF SessionInv
<1>8. CASE HandlePeerEvents
  <2> DEFINE q == [peer EXCEPT !.events = <<>>, !.local = Last(peer.events)]
  <2>1. /\ UNCHANGED <<percMode, pc, percClientId, kd, keyed, polls>>
        /\ Open /\ peer.events # <<>> /\ peer' = q
        /\ fresh' = fresh + IF percClientId = "none" THEN Len(peer.events) ELSE 0
    BY <1>8 DEF HandlePeerEvents
  <2> HIDE DEF q
  <2>2. q.creating = peer.creating /\ q.events = <<>>
    BY <1>0, <2>1, HandledFacts DEF q
  <2>3. peer'.creating = peer.creating /\ Len(peer'.events) = 0
    BY <2>1, <2>2
  <2>4. NeverConnected'
    BY <1>0, <2>1 DEF NeverConnected, Open
  <2>5. JoinPrecedes'
    BY <1>0, <2>1 DEF JoinPrecedes, NothingOffered, Open
  <2>6. OneFirstOffer'
    BY <1>0, <2>1, <2>3 DEF OneFirstOffer, Open
  <2>7. JoinedHasKeys'
    BY <1>0, <2>1 DEF JoinedHasKeys, Open
  <2> QED BY <2>4, <2>5, <2>6, <2>7 DEF SessionInv
<1>9. ASSUME NEW i \in DOMAIN offers, SfuOfferReply(i) \/ SfuOfferError(i)
      PROVE  SessionInv'
  <2>1. /\ UNCHANGED <<percMode, pc, kd, keyed, polls, fresh>>
        /\ percClientId' \in {percClientId, "assigned"}
        /\ peer' = peer \/ SetRemoteDescription(offers[i].slots)
    BY <1>9 DEF SfuOfferReply, SfuOfferError
  <2>2. offers # <<>>
    BY <1>9
  <2>3. peer'.creating = peer.creating /\ peer'.events = peer.events
    <3>1. offers[i] \in Offer
      BY <1>9, ElementType DEF TypeOK
    <3> QED BY <1>0, <2>1, <3>1, RemoteFacts DEF Offer
  <2>4. NeverConnected'
    BY <1>0, <2>1, <2>2 DEF NeverConnected
  <2>5. JoinPrecedes'
    BY <1>0, <2>1, <2>2 DEF JoinPrecedes, NothingOffered, Open
  <2>6. OneFirstOffer'
    BY <1>0, <2>1, <2>3 DEF OneFirstOffer, Open
  <2>7. JoinedHasKeys'
    BY <1>0, <2>1 DEF JoinedHasKeys, Open
  <2> QED BY <2>4, <2>5, <2>6, <2>7 DEF SessionInv
<1>11. CASE AnswerTick
  BY <1>11, Elsewhere DEF AnswerTick
<1>12. CASE AnswerReply
  <2>1. /\ UNCHANGED <<percMode, pc, kd, keyed, polls, fresh, offers, percClientId>>
        /\ peer' = peer \/ SetRemoteDescription(1)
    BY <1>12 DEF AnswerReply
  <2>2. /\ peer'.creating = peer.creating /\ peer'.events = peer.events
        /\ peer.local # 1 => peer' = peer
    BY <1>0, <2>1, RemoteFacts, SlotsAssumption
  <2>3. NeverConnected'
    BY <1>0, <2>1 DEF NeverConnected
  <2>4. JoinPrecedes'
    BY <1>0, <2>1, <2>2 DEF JoinPrecedes, NothingOffered, Open
  <2>5. OneFirstOffer'
    BY <1>0, <2>1, <2>2 DEF OneFirstOffer, Open
  <2>6. JoinedHasKeys'
    BY <1>0, <2>1 DEF JoinedHasKeys, Open
  <2> QED BY <2>3, <2>4, <2>5, <2>6 DEF SessionInv
<1>13. CASE SignalTick
  <2>1. /\ UNCHANGED <<percMode, pc, kd, keyed, peer, fresh, offers, percClientId>>
        /\ Open /\ percClientId # "none"
    BY <1>13 DEF SignalTick
  <2>2. NeverConnected'
    BY <1>0, <2>1 DEF NeverConnected, Open
  <2> QED BY <1>0, <2>1, <2>2 DEF SessionInv, JoinPrecedes, OneFirstOffer,
                                  JoinedHasKeys, NothingOffered, Open
<1>14. CASE SignalReply
  <2>1. /\ UNCHANGED <<percMode, pc, kd, keyed, fresh, offers, percClientId>>
        /\ polls > 0
        /\ ~Open => peer' = peer
    BY <1>14 DEF SignalReply, TopUp
  <2>2. percMode /\ ~(Open /\ percClientId = "none")
    BY <1>0, <2>1 DEF NeverConnected, OneFirstOffer
  <2>3. ~(Open /\ kd \in {"none", "creating", "joining"})
    BY <1>0, <2>2 DEF JoinPrecedes, NothingOffered
  <2>4. NeverConnected'
    BY <2>1, <2>2 DEF NeverConnected
  <2> QED BY <1>0, <2>1, <2>2, <2>3, <2>4 DEF SessionInv, JoinPrecedes, OneFirstOffer,
                                  JoinedHasKeys, Open
<1>15. CASE SignalError
  <2>1. polls > 0 /\ ~(Open /\ percClientId = "none")
    BY <1>0, <1>15 DEF SignalError, OneFirstOffer
  <2> QED BY <1>15, <2>1, Elsewhere DEF SignalError
<1>16. CASE MembershipChanges
  BY <1>16, Elsewhere DEF MembershipChanges
<1>17. CASE UNCHANGED vars
  BY <1>17, Elsewhere DEF vars
<1> QED BY <1>1, <1>2, <1>3, <1>4, <1>6, <1>7, <1>8, <1>9, <1>11,
           <1>12, <1>13, <1>14, <1>15, <1>16, <1>17 DEF Next

-----------------------------------------------------------------------------
(* Offers in order of their slots: the first has one, the newest all there   *)
(* are, and an answer to the pending one is still to come.                   *)

FirstHasOneSlot ==
    /\ \A o \in ToSet(offers) : o.client = "none" => o.slots = 1
    /\ Open /\ percClientId = "none" =>
          /\ percRecvSlots = 1
          /\ \A n \in ToSet(peer.events) : n = 1
          /\ ~percRenegotiating

ReofferUnderWay ==
    percRenegotiating =>
        \/ peer.creating > 0 \/ peer.events # <<>>
        \/ \E o \in ToSet(offers) : o.client # "none"

NewestCoversAll ==
    peer.creating = 0 =>
        /\ peer.events # <<>> => Last(peer.events) = percRecvSlots
        /\ peer.events = <<>> /\ fresh > 0 =>
              \/ peer.local = percRecvSlots
              \/ peer.local = 0 /\ peer.negotiated = percRecvSlots

AnswerComes ==
    peer.local > 0 =>
        \/ \E o \in ToSet(offers) : o.slots = peer.local
        \/ peer.local = 1 /\ sfuPollTimer

OffersInv ==
    /\ FirstHasOneSlot
    /\ Open /\ ~lost => ReofferUnderWay /\ NewestCoversAll /\ AnswerComes

(* What is in a sequence of requests after one is gone, or more are made.    *)
LEMMA RemoveAtElements ==
    ASSUME NEW S, NEW s \in Seq(S), NEW i \in DOMAIN s
    PROVE  /\ ToSet(RemoveAt(s, i)) \subseteq ToSet(s)
           /\ ToSet(s) \subseteq ToSet(RemoveAt(s, i)) \union {s[i]}
<1> DEFINE a == SubSeq(s, 1, i - 1)  b == SubSeq(s, i + 1, Len(s))  r == a \o b
<1>1. /\ i \in 1..Len(s) /\ Len(s) \in Nat /\ DOMAIN s = 1..Len(s)
      /\ \A k \in 1..Len(s) : s[k] \in S
  BY LenProperties, ElementOfSeq
<1>2. /\ a \in Seq(S) /\ Len(a) = i - 1 /\ \A k \in 1..(i - 1) : a[k] = s[k]
      /\ b \in Seq(S) /\ Len(b) = Len(s) - i /\ \A k \in 1..(Len(s) - i) : b[k] = s[k + i]
  <2>1. /\ a \in Seq(S) /\ Len(a) = IF 1 <= i - 1 THEN i - 1 - 1 + 1 ELSE 0
        /\ \A k \in 1..(i - 1 - 1 + 1) : a[k] = s[1 + k - 1]
    <3>1. 1 \in Int /\ i - 1 \in Int /\ \A k \in 1..(i - 1) : s[k] \in S
      BY <1>1
    <3> QED BY <3>1, SubSeqProperties
  <2>2. /\ b \in Seq(S) /\ Len(b) = IF i + 1 <= Len(s) THEN Len(s) - (i + 1) + 1 ELSE 0
        /\ \A k \in 1..(Len(s) - (i + 1) + 1) : b[k] = s[i + 1 + k - 1]
    <3>1. i + 1 \in Int /\ Len(s) \in Int /\ \A k \in (i + 1)..Len(s) : s[k] \in S
      BY <1>1
    <3> QED BY <3>1, SubSeqProperties
  <2> HIDE DEF a, b
  <2>3. Len(a) = i - 1 /\ Len(b) = Len(s) - i
    BY <1>1, <2>1, <2>2
  <2>4. ASSUME NEW k \in 1..(i - 1) PROVE a[k] = s[k]
    <3>1. k \in 1..(i - 1 - 1 + 1) /\ 1 + k - 1 = k
      BY <1>1
    <3> QED BY <2>1, <3>1
  <2>5. ASSUME NEW k \in 1..(Len(s) - i) PROVE b[k] = s[k + i]
    <3>1. k \in 1..(Len(s) - (i + 1) + 1) /\ i + 1 + k - 1 = k + i
      BY <1>1
    <3> QED BY <2>2, <3>1
  <2> QED BY <2>1, <2>2, <2>3, <2>4, <2>5
<1> HIDE DEF a, b
<1>3. /\ r \in Seq(S) /\ Len(r) = Len(s) - 1 /\ DOMAIN r = 1..(Len(s) - 1)
      /\ \A k \in 1..(Len(s) - 1) : r[k] = IF k <= i - 1 THEN a[k] ELSE b[k - (i - 1)]
  <2>1. /\ r \in Seq(S) /\ Len(r) = Len(a) + Len(b)
        /\ \A k \in 1..(Len(a) + Len(b)) : r[k] = IF k <= Len(a) THEN a[k] ELSE b[k - Len(a)]
    BY <1>2, ConcatProperties
  <2> HIDE DEF r
  <2>2. DOMAIN r = 1..Len(r)
    BY <2>1, LenProperties
  <2>3. Len(a) + Len(b) = Len(s) - 1
    BY <1>1, <1>2
  <2> QED BY <1>2, <2>1, <2>2, <2>3
<1> HIDE DEF r
<1>4. \A k \in 1..(Len(s) - 1) : r[k] = IF k <= i - 1 THEN s[k] ELSE s[k + 1]
  <2> SUFFICES ASSUME NEW k \in 1..(Len(s) - 1)
               PROVE  r[k] = IF k <= i - 1 THEN s[k] ELSE s[k + 1]
    OBVIOUS
  <2>1. CASE k <= i - 1
    <3>1. k \in 1..(i - 1)
      BY <1>1, <2>1
    <3> QED BY <1>2, <1>3, <2>1, <3>1
  <2>2. CASE ~(k <= i - 1)
    <3>1. k - (i - 1) \in 1..(Len(s) - i) /\ k - (i - 1) + i = k + 1
      BY <1>1, <2>2
    <3> QED BY <1>2, <1>3, <2>2, <3>1
  <2> QED BY <2>1, <2>2
<1>5. ASSUME NEW k \in DOMAIN r PROVE r[k] \in ToSet(s)
  <2>1. k \in 1..(Len(s) - 1) /\ (r[k] = s[k] \/ r[k] = s[k + 1])
    BY <1>3, <1>4, <1>5
  <2>2. k \in DOMAIN s /\ k + 1 \in DOMAIN s
    BY <1>1, <2>1
  <2> QED BY <2>1, <2>2 DEF ToSet
<1>6. ASSUME NEW j \in DOMAIN s, j # i PROVE s[j] \in ToSet(r)
  <2>1. CASE j < i
    <3>1. j \in DOMAIN r /\ r[j] = s[j]
      BY <1>1, <1>3, <1>4, <2>1
    <3> QED BY <3>1 DEF ToSet
  <2>2. CASE j > i
    <3>1. j - 1 \in DOMAIN r /\ r[j - 1] = s[j]
      BY <1>1, <1>3, <1>4, <2>2
    <3> QED BY <3>1 DEF ToSet
  <2> QED BY <1>1, <1>6, <2>1, <2>2
<1>7. RemoveAt(s, i) = r
  BY DEF RemoveAt, r, a, b
<1>8. ToSet(r) \subseteq ToSet(s)
  BY <1>5 DEF ToSet
<1>9. ToSet(s) \subseteq ToSet(r) \union {s[i]}
  BY <1>6 DEF ToSet
<1> QED BY <1>7, <1>8, <1>9

LEMMA ConcatElements ==
    ASSUME NEW S, NEW s \in Seq(S), NEW t \in Seq(S)
    PROVE  ToSet(s \o t) = ToSet(s) \union ToSet(t)
<1> DEFINE r == s \o t
<1>1. /\ r \in Seq(S) /\ Len(r) = Len(s) + Len(t)
      /\ Len(s) \in Nat /\ Len(t) \in Nat
      /\ DOMAIN s = 1..Len(s) /\ DOMAIN t = 1..Len(t) /\ DOMAIN r = 1..Len(r)
      /\ \A k \in 1..Len(r) : r[k] = IF k <= Len(s) THEN s[k] ELSE t[k - Len(s)]
  OBVIOUS
<1> HIDE DEF r
<1>2. ToSet(r) \subseteq ToSet(s) \union ToSet(t)
  <2>1. ASSUME NEW k \in DOMAIN r PROVE r[k] \in ToSet(s) \union ToSet(t)
    BY <1>1 DEF ToSet
  <2> QED BY <2>1 DEF ToSet
<1>3. ASSUME NEW j \in DOMAIN s PROVE s[j] \in ToSet(r)
  <2>1. j \in DOMAIN r /\ r[j] = s[j]
    BY <1>1
  <2> QED BY <2>1 DEF ToSet
<1>4. ASSUME NEW j \in DOMAIN t PROVE t[j] \in ToSet(r)
  <2>1. Len(s) + j \in DOMAIN r /\ r[Len(s) + j] = t[j]
    BY <1>1
  <2> QED BY <2>1 DEF ToSet
<1> QED BY <1>2, <1>3, <1>4 DEF ToSet, r

LEMMA AppendElements ==
    ASSUME NEW S, NEW s \in Seq(S), NEW x \in S
    PROVE  /\ ToSet(Append(s, x)) = ToSet(s) \union {x}
           /\ Last(Append(s, x)) = x
           /\ Append(s, x) # <<>>
<1> DEFINE r == Append(s, x)
<1>1. /\ r \in Seq(S) /\ Len(r) = Len(s) + 1 /\ r[Len(s) + 1] = x /\ r # <<>>
      /\ \A k \in 1..Len(s) : r[k] = s[k]
  BY AppendProperties
<1> HIDE DEF r
<1>2. /\ Len(s) \in Nat /\ DOMAIN s = 1..Len(s) /\ DOMAIN r = 1..(Len(s) + 1)
  BY <1>1, LenProperties
<1>3. ASSUME NEW k \in DOMAIN r PROVE r[k] \in ToSet(s) \union {x}
  BY <1>1, <1>2 DEF ToSet
<1>4. ASSUME NEW k \in DOMAIN s PROVE s[k] \in ToSet(r)
  <2>1. k \in DOMAIN r /\ r[k] = s[k]
    BY <1>1, <1>2
  <2> QED BY <2>1 DEF ToSet
<1>5. x \in ToSet(r)
  <2>1. Len(s) + 1 \in DOMAIN r
    BY <1>2
  <2> QED BY <1>1, <2>1 DEF ToSet
<1>6. ToSet(r) = ToSet(s) \union {x}
  BY <1>3, <1>4, <1>5 DEF ToSet
<1>7. Last(r) = x
  BY <1>1 DEF Last
<1> QED BY <1>1, <1>6, <1>7 DEF r

LEMMA LastElement ==
    ASSUME NEW S, NEW s \in Seq(S), s # <<>>
    PROVE  Last(s) \in ToSet(s) /\ ToSet(s) \subseteq S
BY DEF Last, ToSet

LEMMA NoElements == ToSet(<<>>) = {}
BY DEF ToSet

(* An answer is taken if its offer is the pending one, and then whole.        *)
LEMMA RemoteTaken ==
    ASSUME peer \in Peers, NEW n \in 1..MaxSlots, SetRemoteDescription(n)
    PROVE  /\ peer'.creating = peer.creating /\ peer'.events = peer.events
           /\ \/ peer' = peer /\ ~(Open /\ peer.local = n)
              \/ /\ Open /\ peer.local = n
                 /\ peer'.local = 0 /\ peer'.negotiated = peer.local
<1>1. peer'.creating = peer.creating /\ peer'.events = peer.events
  BY RemoteFacts
<1>2. ASSUME Open, peer.local = n
      PROVE  peer'.local = 0 /\ peer'.negotiated = peer.local
  <2> DEFINE q == [peer EXCEPT !.local = 0, !.negotiated = n]
  <2>1. peer' = q
    BY <1>2 DEF SetRemoteDescription
  <2> HIDE DEF q
  <2>2. q.local = 0 /\ q.negotiated = n
    BY AnswerTaken DEF q
  <2> QED BY <1>2, <2>1, <2>2
<1>3. ASSUME ~(Open /\ peer.local = n) PROVE peer' = peer
  BY <1>3 DEF SetRemoteDescription
<1> QED BY <1>1, <1>2, <1>3

LEMMA OffersInit == Init => OffersInv
BY NoElements DEF Init, NewPeer, OffersInv, FirstHasOneSlot, Open

(* Handlers that leave the offers and the peer alone.                        *)
LEMMA OffersElsewhere ==
    ASSUME OffersInv,
           UNCHANGED <<pc, peer, offers, percClientId, percRecvSlots,
                       percRenegotiating, sfuPollTimer, fresh, lost>>
    PROVE  OffersInv'
BY DEF OffersInv, FirstHasOneSlot, ReofferUnderWay, NewestCoversAll,
       AnswerComes, Open

LEMMA OffersStep ==
    SlotsInv /\ SessionInv /\ OffersInv /\ [Next]_vars => OffersInv'
<1> SUFFICES ASSUME SlotsInv, SessionInv, OffersInv, [Next]_vars PROVE OffersInv'
  OBVIOUS
<1> USE DEF mode, reneg, keys, http, sfu, history
<1>0. /\ TypeOK /\ SlotsAccounted /\ NeverConnected /\ JoinPrecedes /\ OneFirstOffer
      /\ peer \in Peers /\ peer.creating \in Nat /\ peer.events \in Seq(1..MaxSlots)
      /\ peer.slots \in 1..MaxSlots /\ peer.local \in 0..MaxSlots
      /\ offers \in Seq(Offer) /\ fresh \in Nat /\ polls \in Nat
      /\ percRecvSlots \in 1..MaxSlots /\ percClientId \in {"none", "assigned"}
      /\ FirstHasOneSlot
      /\ Open /\ ~lost => ReofferUnderWay /\ NewestCoversAll /\ AnswerComes
  BY PollsAssumption DEF SlotsInv, SessionInv, OffersInv, TypeOK, Peers, Events
<1>1. CASE Connect
  <2>1. pc = "null" /\ fresh = 0 /\ offers = <<>>
    BY <1>0, <1>1 DEF Connect, NeverConnected
  <2>2. /\ fresh' = 0 /\ offers' = <<>>
        /\ \/ /\ peer' = NewPeer /\ percRecvSlots' = 1
              /\ percRenegotiating' = FALSE
           \/ pc' = "null"
    BY <1>1, <2>1 DEF Connect
  <2>3. /\ NewPeer.creating = 0 /\ NewPeer.events = <<>> /\ NewPeer.local = 0
    BY DEF NewPeer
  <2>4. FirstHasOneSlot'
    BY <2>2, <2>3, NoElements DEF FirstHasOneSlot, Open
  <2>5. Open' => ReofferUnderWay' /\ NewestCoversAll' /\ AnswerComes'
    BY <2>2, <2>3 DEF ReofferUnderWay, NewestCoversAll, AnswerComes, Open
  <2> QED BY <2>4, <2>5 DEF OffersInv
<1>2. CASE Disconnect
  <2>1. pc' = "null" /\ offers' = offers
    BY <1>2 DEF Disconnect, EndCall
  <2> QED BY <1>0, <2>1 DEF OffersInv, FirstHasOneSlot, Open
<1>4. ASSUME ConferenceReply \/ JoinReply PROVE OffersInv'
  <2>1. /\ UNCHANGED <<pc, offers, percClientId, percRecvSlots,
                       percRenegotiating, sfuPollTimer, fresh, lost>>
        /\ peer' = peer \/ (Open /\ peer' = [peer EXCEPT !.creating = @ + 1])
    BY <1>4 DEF ConferenceReply, JoinReply, CreateOfferOrCrash
  <2>2. CASE peer' = peer
    BY <2>1, <2>2, OffersElsewhere
  <2>3. CASE Open /\ peer' = [peer EXCEPT !.creating = @ + 1]
    <3>1. /\ peer'.creating = peer.creating + 1 /\ peer'.events = peer.events
          /\ peer'.local = peer.local
      BY <1>0, <2>3, CreatingFacts
    <3>2. peer'.creating > 0
      BY <1>0, <3>1
    <3>3. FirstHasOneSlot'
      BY <1>0, <2>1, <3>1 DEF FirstHasOneSlot, Open
    <3>4. ReofferUnderWay' /\ NewestCoversAll'
      BY <3>2 DEF ReofferUnderWay, NewestCoversAll
    <3>5. Open' /\ ~lost' => AnswerComes'
      BY <1>0, <2>1, <3>1 DEF AnswerComes, Open
    <3> QED BY <3>3, <3>4, <3>5 DEF OffersInv
  <2> QED BY <2>1, <2>2, <2>3
<1>7. CASE OfferCreated
  <2> DEFINE q == [peer EXCEPT !.creating = @ - 1,
                               !.events = Append(@, peer.slots)]
             r == [peer EXCEPT !.creating = @ - 1]
  <2>1. /\ UNCHANGED <<pc, offers, percClientId, percRecvSlots,
                       percRenegotiating, sfuPollTimer, fresh>>
        /\ Open /\ peer.creating > 0
        /\ (peer' = q /\ lost' = lost) \/ (peer' = r /\ lost' = TRUE)
    BY <1>7 DEF OfferCreated
  <2>2. r.events = peer.events
    BY <1>0, <2>1, CreatingFacts
  <2> HIDE DEF q, r
  <2>3. /\ q.creating = peer.creating - 1
        /\ q.events = Append(peer.events, peer.slots) /\ q.local = peer.local
    BY <1>0, <2>1, CreatedFacts DEF q
  <2>4. peer.slots = percRecvSlots
    BY <1>0, <2>1 DEF SlotsAccounted
  <2>5. /\ ToSet(q.events) = ToSet(peer.events) \union {percRecvSlots}
        /\ Last(q.events) = percRecvSlots /\ q.events # <<>>
    <3>1. percRecvSlots \in 1..MaxSlots /\ peer.events \in Seq(1..MaxSlots)
      BY <1>0
    <3>2. q.events = Append(peer.events, percRecvSlots)
      BY <2>3, <2>4
    <3>3. /\ ToSet(Append(peer.events, percRecvSlots)) = ToSet(peer.events) \union {percRecvSlots}
          /\ Last(Append(peer.events, percRecvSlots)) = percRecvSlots
          /\ Append(peer.events, percRecvSlots) # <<>>
      BY <3>1, AppendElements
    <3> QED BY <3>2, <3>3
  <2>6. FirstHasOneSlot'
    BY <1>0, <2>1, <2>2, <2>5 DEF FirstHasOneSlot, Open
  <2>7. CASE lost' = TRUE
    BY <2>6, <2>7 DEF OffersInv
  <2>8. CASE peer' = q /\ lost' = lost
    <3>1. ReofferUnderWay' /\ NewestCoversAll'
      BY <2>1, <2>5, <2>8 DEF ReofferUnderWay, NewestCoversAll
    <3>2. ~lost' => AnswerComes'
      BY <1>0, <2>1, <2>3, <2>8 DEF AnswerComes
    <3> QED BY <2>6, <3>1, <3>2 DEF OffersInv
  <2> QED BY <2>1, <2>7, <2>8
<1>8. CASE HandlePeerEvents
  <2> DEFINE q == [peer EXCEPT !.events = <<>>, !.local = Last(peer.events)]
             posted == [i \in DOMAIN peer.events |->
                          [client |-> percClientId, slots |-> peer.events[i]]]
  <2>1. /\ UNCHANGED <<pc, percClientId, percRecvSlots, percRenegotiating,
                       sfuPollTimer, lost>>
        /\ Open /\ peer.events # <<>> /\ peer' = q /\ offers' = offers \o posted
    BY <1>8 DEF HandlePeerEvents
  <2> HIDE DEF q
  <2>2. q.creating = peer.creating /\ q.events = <<>> /\ q.local = Last(peer.events)
    BY <1>0, <2>1, HandledFacts DEF q
  <2>3. /\ posted \in Seq(Offer)
        /\ ToSet(posted) = {[client |-> percClientId, slots |-> n] : n \in ToSet(peer.events)}
    <3>1. \A i \in DOMAIN peer.events : peer.events[i] \in 1..MaxSlots
      BY <1>0, ElementType
    <3>2. \A i \in DOMAIN peer.events :
             [client |-> percClientId, slots |-> peer.events[i]] \in Offer
      BY <1>0, <3>1 DEF Offer
    <3>3. posted \in Seq(Offer)
      <4>1. peer.events \in Seq(1..MaxSlots)
        BY <1>0
      <4> QED BY <3>2, <4>1
    <3> QED BY <3>3 DEF ToSet
  <2> HIDE DEF posted
  <2>4. ToSet(offers') = ToSet(offers) \union ToSet(posted)
    BY <1>0, <2>1, <2>3, ConcatElements
  <2>5. Last(peer.events) \in ToSet(peer.events)
    BY <1>0, <2>1, LastElement
  <2> DEFINE newest == [client |-> percClientId, slots |-> Last(peer.events)]
  <2>6. /\ newest \in ToSet(offers') /\ newest.client = percClientId
        /\ newest.slots = Last(peer.events)
    BY <2>3, <2>4, <2>5
  <2> HIDE DEF newest
  <2>7. FirstHasOneSlot'
    <3>1. ASSUME NEW o \in ToSet(offers'), o.client = "none"
          PROVE  o.slots = 1
      <4>1. CASE o \in ToSet(offers)
        BY <1>0, <3>1, <4>1 DEF FirstHasOneSlot
      <4>2. CASE o \in ToSet(posted)
        <5>1. PICK n \in ToSet(peer.events) : o = [client |-> percClientId, slots |-> n]
          BY <2>3, <4>2
        <5>2. percClientId = "none" /\ o.slots = n
          BY <3>1, <5>1
        <5> QED BY <1>0, <2>1, <5>1, <5>2 DEF FirstHasOneSlot
      <4> QED BY <2>4, <3>1, <4>1, <4>2
    <3>2. \A n \in ToSet(peer'.events) : n = 1
      BY <2>1, <2>2, NoElements
    <3> QED BY <1>0, <2>1, <3>1, <3>2 DEF FirstHasOneSlot, Open
  <2>8. ReofferUnderWay'
    <3>1. percRenegotiating => percClientId # "none"
      BY <1>0, <2>1 DEF FirstHasOneSlot
    <3> QED BY <2>1, <2>6, <3>1 DEF ReofferUnderWay
  <2>9. ~lost' => NewestCoversAll'
    BY <1>0, <2>1, <2>2 DEF NewestCoversAll
  <2>10. AnswerComes'
    BY <2>1, <2>2, <2>6 DEF AnswerComes
  <2> QED BY <2>7, <2>8, <2>9, <2>10 DEF OffersInv
<1>9. ASSUME NEW i \in DOMAIN offers, SfuOfferReply(i) PROVE OffersInv'
  <2>a. offers[i] \in Offer
    BY <1>0, ElementType
  <2>1. /\ UNCHANGED <<pc, percRecvSlots, fresh, lost>>
        /\ offers' = RemoveAt(offers, i)
        /\ percClientId' \in {percClientId, "assigned"}
        /\ percRenegotiating' = (percRenegotiating /\ offers[i].client = "none")
        /\ \/ SetRemoteDescription(offers[i].slots) /\ sfuPollTimer' = sfuPollTimer
           \/ offers[i].client = "none" /\ sfuPollTimer' = TRUE /\ peer' = peer
    BY <1>9 DEF SfuOfferReply, RenegotiationEnds
  <2>2. /\ ToSet(offers') \subseteq ToSet(offers)
        /\ ToSet(offers) \subseteq ToSet(offers') \union {offers[i]}
        /\ offers[i] \in ToSet(offers)
    <3>1. offers[i] \in ToSet(offers)
      BY DEF ToSet
    <3> QED BY <1>0, <2>1, <3>1, RemoveAtElements
  <2>3. offers[i].slots \in 1..MaxSlots
    BY <2>a DEF Offer
  <2>4. /\ peer'.creating = peer.creating /\ peer'.events = peer.events
        /\ \/ peer' = peer
           \/ /\ Open /\ peer.local = offers[i].slots
              /\ peer'.local = 0 /\ peer'.negotiated = peer.local
    BY <1>0, <2>1, <2>3, RemoteTaken
  <2>5. FirstHasOneSlot'
    BY <1>0, <2>1, <2>2, <2>4 DEF FirstHasOneSlot, Open
  <2>6. ASSUME Open', ~lost' PROVE ReofferUnderWay'
    <3>1. ReofferUnderWay
      BY <1>0, <2>1, <2>6 DEF Open
    <3> QED BY <2>1, <2>2, <2>4, <3>1 DEF ReofferUnderWay
  <2>7. ASSUME Open', ~lost' PROVE NewestCoversAll'
    <3>1. NewestCoversAll
      BY <1>0, <2>1, <2>7 DEF Open
    <3> QED BY <1>0, <2>1, <2>3, <2>4, <3>1 DEF NewestCoversAll
  <2>8. ASSUME Open', ~lost' PROVE AnswerComes'
    <3>1. AnswerComes /\ Open
      BY <1>0, <2>1, <2>8 DEF Open
    <3>2. CASE SetRemoteDescription(offers[i].slots) /\ sfuPollTimer' = sfuPollTimer
      <4>1. peer'.local > 0 => peer' = peer /\ peer.local # offers[i].slots
        BY <3>1, <2>3, <2>4, <3>2, RemoteTaken, <1>0
      <4> QED BY <2>2, <3>1, <3>2, <4>1 DEF AnswerComes
    <3>3. CASE offers[i].client = "none" /\ sfuPollTimer' = TRUE /\ peer' = peer
      <4>1. offers[i].slots = 1
        BY <1>0, <2>2, <3>3 DEF FirstHasOneSlot
      <4> QED BY <2>2, <3>1, <3>3, <4>1 DEF AnswerComes
    <3> QED BY <2>1, <3>2, <3>3
  <2> QED BY <2>5, <2>6, <2>7, <2>8 DEF OffersInv
<1>10. ASSUME NEW i \in DOMAIN offers, SfuOfferError(i) PROVE OffersInv'
  <2>1. /\ UNCHANGED <<pc, percRecvSlots, peer>>
        /\ offers' = RemoveAt(offers, i) /\ lost' = TRUE
        /\ percClientId' \in {percClientId, "assigned"}
        /\ \/ percRenegotiating' = FALSE
           \/ percRenegotiating' = (percRenegotiating /\ offers[i].client = "none")
    BY <1>10 DEF SfuOfferError, RenegotiationEnds
  <2>2. ToSet(offers') \subseteq ToSet(offers)
    BY <1>0, <2>1, RemoveAtElements
  <2>3. FirstHasOneSlot'
    BY <1>0, <2>1, <2>2 DEF FirstHasOneSlot, Open
  <2> QED BY <2>1, <2>3 DEF OffersInv
<1>12. CASE AnswerReply
  <2>1. /\ UNCHANGED <<pc, offers, percClientId, percRecvSlots,
                       percRenegotiating, fresh, lost>>
        /\ \/ SetRemoteDescription(1) /\ sfuPollTimer' = FALSE
           \/ peer' = peer /\ sfuPollTimer' = sfuPollTimer
    BY <1>12 DEF AnswerReply
  <2>2. CASE peer' = peer /\ sfuPollTimer' = sfuPollTimer
    BY <2>1, <2>2, OffersElsewhere
  <2>3. CASE SetRemoteDescription(1) /\ sfuPollTimer' = FALSE
    <3>1. /\ peer'.creating = peer.creating /\ peer'.events = peer.events
          /\ \/ peer' = peer /\ ~(Open /\ peer.local = 1)
             \/ /\ Open /\ peer.local = 1
                /\ peer'.local = 0 /\ peer'.negotiated = peer.local
      BY <1>0, <2>3, RemoteTaken, SlotsAssumption
    <3>2. FirstHasOneSlot'
      BY <1>0, <2>1, <3>1 DEF FirstHasOneSlot, Open
    <3>3. ASSUME Open', ~lost' PROVE ReofferUnderWay' /\ NewestCoversAll' /\ AnswerComes'
      <4>1. Open /\ ReofferUnderWay /\ NewestCoversAll /\ AnswerComes
        BY <1>0, <2>1, <3>3 DEF Open
      <4>2. ReofferUnderWay'
        BY <2>1, <3>1, <4>1 DEF ReofferUnderWay
      <4>3. NewestCoversAll'
        BY <1>0, <2>1, <3>1, <4>1 DEF NewestCoversAll
      <4>4. AnswerComes'
        BY <2>1, <3>1, <4>1 DEF AnswerComes
      <4> QED BY <4>2, <4>3, <4>4
    <3> QED BY <3>2, <3>3 DEF OffersInv
  <2> QED BY <2>1, <2>2, <2>3
<1>14. CASE SignalReply
  <2>1. /\ UNCHANGED <<pc, offers, percClientId, sfuPollTimer, fresh, lost>>
        /\ polls > 0
        /\ \/ TopUp
           \/ UNCHANGED <<peer, percRecvSlots, percRenegotiating>>
    BY <1>14 DEF SignalReply
  <2>2. CASE UNCHANGED <<peer, percRecvSlots, percRenegotiating>>
    BY <2>1, <2>2, OffersElsewhere
  <2>3. CASE TopUp /\ ~Open
    <3>1. ~Open' /\ offers' = offers
      BY <2>1, <2>3 DEF Open
    <3> QED BY <1>0, <3>1 DEF OffersInv, FirstHasOneSlot
  <2>4. CASE TopUp /\ Open
    <3>1. percClientId # "none"
      BY <1>0, <2>1, <2>4 DEF OneFirstOffer
    <3> DEFINE d == desired - percRecvSlots
               q == [peer EXCEPT !.slots = @ + d, !.creating = @ + 1]
    <3>2. peer' = q
      BY <2>4 DEF TopUp
    <3>3. d \in Int /\ peer.slots + d \in 1..MaxSlots
      BY <1>0, <2>4, SlotsAssumption DEF TopUp, SlotsAccounted, TypeOK
    <3> HIDE DEF d, q
    <3>a. peer \in Peers
      BY <1>0
    <3>4. q.creating = peer.creating + 1 /\ q.events = peer.events /\ q.local = peer.local
      BY <3>a, <3>3, ToppedUpFacts DEF q
    <3>5. peer'.creating > 0
      BY <1>0, <3>2, <3>4
    <3>6. FirstHasOneSlot'
      BY <1>0, <2>1, <3>1 DEF FirstHasOneSlot
    <3>7. ReofferUnderWay' /\ NewestCoversAll'
      BY <3>5 DEF ReofferUnderWay, NewestCoversAll
    <3>8. ~lost' => AnswerComes'
      BY <1>0, <2>1, <2>4, <3>2, <3>4 DEF AnswerComes
    <3> QED BY <3>6, <3>7, <3>8 DEF OffersInv
  <2> QED BY <2>1, <2>2, <2>3, <2>4
<1>15. CASE \/ Quit \/ KdWsOpen \/ KdWsMessage \/ KdWsClose \/ AnswerTick
            \/ SignalTick \/ SignalError \/ MembershipChanges \/ UNCHANGED vars
  <2>1. UNCHANGED <<pc, peer, offers, percClientId, percRecvSlots,
                    percRenegotiating, sfuPollTimer, fresh, lost>>
    BY <1>15 DEF Quit, KdWsOpen, KdWsMessage, KdWsClose, AnswerTick, SignalTick,
                 SignalError, MembershipChanges, vars
  <2> QED BY <2>1, OffersElsewhere
<1> QED BY <1>1, <1>2, <1>4, <1>7, <1>8, <1>9, <1>10, <1>12, <1>14, <1>15 DEF Next

-----------------------------------------------------------------------------
LEMMA Inductive == Spec => [](SlotsInv /\ SessionInv)
<1>1. SlotsInv => TypeOK
  BY DEF SlotsInv
<1> QED BY <1>1, SlotsInit, SlotsStep, SessionInit, SessionStep, PTL DEF Spec

(* Every variable of the session keeps its type, with any number of slots,   *)
(* polls and failures: in particular a top-up never asks libwebrtc for more  *)
(* than the SFU's most slots (pollReceiveSlots).                             *)
THEOREM TypeCorrect == Spec => []TypeOK
<1>1. SlotsInv => TypeOK
  BY DEF SlotsInv
<1> QED BY <1>1, Inductive, PTL

(* The transceivers of the peer and percRecvSlots agree, and none is added   *)
(* that the SFU did not ask for, however polls overlap.                      *)
THEOREM SlotsAgree == Spec => []SlotsAccounted
<1>1. SlotsInv => SlotsAccounted
  BY DEF SlotsInv
<1> QED BY <1>1, Inductive, PTL

(* A session sends at most one offer without a client id.                    *)
THEOREM FreshOnce == Spec => []FreshOfferOnce
<1>1. SessionInv => FreshOfferOnce
  BY DEF SessionInv, OneFirstOffer, FreshOfferOnce
<1> QED BY <1>1, Inductive, PTL

(* A client creates no offer before the Key Distributor has answered or      *)
(* failed, and if it joined its media key is installed by then.              *)
THEOREM KeysFirst == Spec => []KeysBeforeOffer
<1>1. TypeOK /\ SessionInv => KeysBeforeOffer
  BY DEF TypeOK, SessionInv, JoinPrecedes, NothingOffered, JoinedHasKeys,
         KeysBeforeOffer, Offering
<1>2. SlotsInv => TypeOK
  BY DEF SlotsInv
<1> QED BY <1>1, <1>2, Inductive, PTL

(* Whatever overlaps, a client none of whose offers was lost and that waits  *)
(* for nothing has negotiated every slot it added and is ready for more      *)
(* (startSignalPolling, sfuSendOffer, startAnswerPolling).                   *)
THEOREM NothingHalfDone == Spec => []QuietMeansNegotiated
<1>1. ASSUME SlotsInv, OffersInv, Open, Quiet, fresh > 0, ~lost
      PROVE  /\ peer.negotiated = percRecvSlots
             /\ peer.local = 0
             /\ ~percRenegotiating
  <2>1. /\ peer.creating = 0 /\ peer.events = <<>> /\ ToSet(offers) = {}
        /\ ~sfuPollTimer
    BY <1>1, NoElements DEF Quiet
  <2>2. ReofferUnderWay /\ NewestCoversAll /\ AnswerComes
    BY <1>1 DEF OffersInv
  <2>3. peer.local \in Nat /\ percRecvSlots \in 1..MaxSlots
    BY <1>1 DEF SlotsInv, TypeOK, Peers
  <2>4. peer.local = 0
    BY <2>1, <2>2, <2>3 DEF AnswerComes
  <2>5. peer.negotiated = percRecvSlots
    BY <1>1, <2>1, <2>2, <2>3, <2>4 DEF NewestCoversAll
  <2>6. ~percRenegotiating
    BY <2>1, <2>2 DEF ReofferUnderWay
  <2> QED BY <2>4, <2>5, <2>6
<1>2. SlotsInv /\ OffersInv => QuietMeansNegotiated
  BY <1>1 DEF QuietMeansNegotiated
<1> QED BY <1>2, Inductive, OffersInit, OffersStep, PTL DEF Spec

-----------------------------------------------------------------------------
(* The session moves its peer only as OfferAnswer says.  A client without a  *)
(* peer has a fresh one in the model, and every handler does one of a few    *)
(* things to the peer; each of them is a step of OfferAnswer.                *)

NoPeerIsFresh == ~Open => peer = NewPeer

Requested ==
    \/ peer' = [peer EXCEPT !.creating = @ + 1]
    \/ \E d \in Int :
          /\ d >= 0 /\ peer.slots + d \in 1..MaxSlots
          /\ peer' = [peer EXCEPT !.slots = @ + d, !.creating = @ + 1]

Created ==
    /\ peer.creating > 0
    /\ \/ peer' = [peer EXCEPT !.creating = @ - 1, !.events = Append(@, peer.slots)]
       \/ peer' = [peer EXCEPT !.creating = @ - 1]

Handled ==
    /\ peer.events # <<>>
    /\ peer' = [peer EXCEPT !.events = <<>>, !.local = Last(peer.events)]

Accepted ==
    \E n \in 1..MaxSlots :
        peer.local = n /\ peer' = [peer EXCEPT !.local = 0, !.negotiated = n]

PeerMoves ==
    \/ UNCHANGED <<pc, peer>>
    \/ pc = "null" /\ pc' = "open" /\ peer' = NewPeer /\ peer = NewPeer
    \/ pc = "open" /\ pc' = "null" /\ peer' = NewPeer
    \/ /\ pc = "open" /\ pc' = "open"
       /\ Requested \/ Created \/ Handled \/ Accepted

LEMMA CreateOfferMoves ==
    ASSUME CreateOfferOrCrash, UNCHANGED pc, TypeOK
    PROVE  PeerMoves
BY DEF CreateOfferOrCrash, PeerMoves, Requested, Open, TypeOK

LEMMA RemoteMoves ==
    ASSUME NEW n \in 1..MaxSlots, SetRemoteDescription(n), UNCHANGED pc
    PROVE  PeerMoves
BY DEF SetRemoteDescription, PeerMoves, Accepted, Open

LEMMA SessionMoves ==
    SlotsInv /\ NoPeerIsFresh /\ SessionInv /\ [Next]_vars => PeerMoves
<1> SUFFICES ASSUME SlotsInv, NoPeerIsFresh, SessionInv, [Next]_vars
             PROVE  PeerMoves
  OBVIOUS
<1> USE DEF mode, reneg, keys, http, sfu, history
<1>0. TypeOK /\ SlotsAccounted /\ NeverConnected
  BY DEF SlotsInv, SessionInv
<1>1. CASE Connect
  <2>1. pc = "null" /\ peer = NewPeer
    BY <1>0, <1>1 DEF Connect, NeverConnected, NoPeerIsFresh, Open
  <2> QED BY <1>1, <2>1 DEF Connect, PeerMoves
<1>2. CASE Disconnect
  <2>1. pc' = "null" /\ peer' = NewPeer
    BY <1>2 DEF Disconnect, EndCall
  <2>2. pc = "null" => peer = NewPeer
    BY DEF NoPeerIsFresh, Open
  <2>3. pc \in {"null", "open"}
    BY <1>0 DEF TypeOK
  <2> QED BY <2>1, <2>2, <2>3 DEF PeerMoves
<1>3. CASE ConferenceReply \/ JoinReply
  <2>1. UNCHANGED pc /\ (CreateOfferOrCrash \/ UNCHANGED peer)
    BY <1>3 DEF ConferenceReply, JoinReply
  <2> QED BY <1>0, <2>1, CreateOfferMoves DEF PeerMoves
<1>4. CASE OfferCreated
  BY <1>4 DEF OfferCreated, PeerMoves, Created, Open
<1>5. CASE HandlePeerEvents
  BY <1>5 DEF HandlePeerEvents, PeerMoves, Handled, Open
<1>6. ASSUME NEW i \in DOMAIN offers, SfuOfferReply(i)
      PROVE  PeerMoves
  <2>a. offers \in Seq(Offer)
    BY <1>0 DEF TypeOK
  <2>b. offers[i] \in Offer
    BY <2>a, ElementType
  <2>1. offers[i].slots \in 1..MaxSlots
    BY <2>b DEF Offer
  <2>2. UNCHANGED pc /\ (SetRemoteDescription(offers[i].slots) \/ UNCHANGED peer)
    BY <1>6 DEF SfuOfferReply
  <2> QED BY <2>1, <2>2, RemoteMoves DEF PeerMoves
<1>7. CASE AnswerReply
  <2>1. 1 \in 1..MaxSlots
    BY SlotsAssumption
  <2>2. UNCHANGED pc /\ (SetRemoteDescription(1) \/ UNCHANGED peer)
    BY <1>7 DEF AnswerReply
  <2> QED BY <2>1, <2>2, RemoteMoves DEF PeerMoves
<1>8. CASE SignalReply
  <2>1. UNCHANGED pc /\ (TopUp \/ UNCHANGED peer)
    BY <1>8 DEF SignalReply
  <2>2. CASE TopUp /\ Open
    <3>1. /\ desired > percRecvSlots /\ peer.slots = percRecvSlots
          /\ desired \in 0..MaxSlots /\ percRecvSlots \in 1..MaxSlots
      BY <1>0, <2>2 DEF TopUp, SlotsAccounted, TypeOK
    <3> DEFINE d == desired - percRecvSlots
    <3>2. d \in Int /\ d >= 0 /\ peer.slots + d \in 1..MaxSlots
      BY <3>1, SlotsAssumption
    <3>3. peer' = [peer EXCEPT !.slots = @ + d, !.creating = @ + 1]
      BY <2>2 DEF TopUp
    <3> HIDE DEF d
    <3>4. Requested
      BY <3>2, <3>3 DEF Requested
    <3> QED BY <2>1, <2>2, <3>4 DEF PeerMoves, Open
  <2>3. CASE ~(TopUp /\ Open)
    BY <2>1, <2>3 DEF TopUp, PeerMoves
  <2> QED BY <2>2, <2>3
<1>9. CASE \/ Quit \/ KdWsOpen \/ KdWsMessage \/ KdWsClose \/ AnswerTick
           \/ SignalTick \/ SignalError \/ MembershipChanges \/ UNCHANGED vars
           \/ \E i \in DOMAIN offers : SfuOfferError(i)
  BY <1>9 DEF Quit, KdWsOpen, KdWsMessage, KdWsClose, AnswerTick, SignalTick,
              SignalError, MembershipChanges, vars, SfuOfferError, PeerMoves
<1> QED BY <1>1, <1>2, <1>3, <1>4, <1>5, <1>6, <1>7, <1>8, <1>9 DEF Next

LEMMA FreshStep == NoPeerIsFresh /\ PeerMoves => NoPeerIsFresh'
BY DEF NoPeerIsFresh, PeerMoves, Open

LEMMA MovesArePromised == peer \in Peers /\ PeerMoves => [OA!Next]_OA!vars
<1> SUFFICES ASSUME peer \in Peers, PeerMoves PROVE [OA!Next]_OA!vars
  OBVIOUS
<1>0. /\ peer.slots \in 1..MaxSlots /\ peer.creating \in Nat
      /\ peer.local \in 0..MaxSlots
  BY DEF Peers
<1>1. CASE UNCHANGED <<pc, peer>>
  BY <1>1 DEF OA!vars, Open
<1>n. /\ NewPeer.slots = 1 /\ NewPeer.creating = 0 /\ NewPeer.events = <<>>
      /\ NewPeer.local = 0 /\ NewPeer.negotiated = 0
  BY DEF NewPeer
<1>2. CASE pc = "null" /\ pc' = "open" /\ peer' = NewPeer
  <2>1. OA!Fresh
    BY <1>n, <1>2 DEF OA!Fresh
  <2>2. OA!Open
    BY <1>2, <2>1 DEF OA!Open, Open
  <2> QED BY <2>2 DEF OA!Next
<1>3. CASE pc = "open" /\ pc' = "null" /\ peer' = NewPeer
  <2>1. OA!Fresh
    BY <1>n, <1>3 DEF OA!Fresh
  <2>2. OA!Close
    BY <1>3, <2>1 DEF OA!Close, Open
  <2> QED BY <2>2 DEF OA!Next
<1>4. ASSUME pc = "open", pc' = "open", Requested
      PROVE  OA!Next
  <2>1. CASE peer' = [peer EXCEPT !.creating = @ + 1]
    <3>1. /\ peer'.slots = peer.slots /\ peer'.creating = peer.creating + 1
          /\ peer'.events = peer.events /\ peer'.local = peer.local
          /\ peer'.negotiated = peer.negotiated
      BY <1>0, <2>1, CreatingFacts
    <3> QED BY <1>0, <1>4, <3>1 DEF OA!Request, OA!Next, Open
  <2>2. ASSUME NEW d \in Int, d >= 0, peer.slots + d \in 1..MaxSlots,
               peer' = [peer EXCEPT !.slots = @ + d, !.creating = @ + 1]
        PROVE  OA!Next
    <3>1. /\ peer'.slots = peer.slots + d /\ peer'.creating = peer.creating + 1
          /\ peer'.events = peer.events /\ peer'.local = peer.local
          /\ peer'.negotiated = peer.negotiated
      BY <2>2, ToppedUpFacts
    <3>2. peer'.slots \in peer.slots..MaxSlots
      BY <1>0, <2>2, <3>1, SlotsAssumption
    <3> QED BY <1>0, <1>4, <3>1, <3>2 DEF OA!Request, OA!Next, Open
  <2> QED BY <1>4, <2>1, <2>2 DEF Requested
<1>5. ASSUME pc = "open", pc' = "open", Created
      PROVE  OA!Next
  <2>1. CASE peer' = [peer EXCEPT !.creating = @ - 1, !.events = Append(@, peer.slots)]
    <3>1. /\ peer'.slots = peer.slots /\ peer'.creating = peer.creating - 1
          /\ peer'.events = Append(peer.events, peer.slots)
          /\ peer'.local = peer.local /\ peer'.negotiated = peer.negotiated
      BY <1>5, <2>1, CreatedFacts DEF Created
    <3> QED BY <1>0, <1>5, <3>1 DEF OA!OfferCreated, OA!Next, Open, Created
  <2>2. CASE peer' = [peer EXCEPT !.creating = @ - 1]
    <3>1. peer.creating - 1 \in Nat
      BY <1>0, <1>5 DEF Created
    <3>2. /\ peer'.slots = peer.slots /\ peer'.creating = peer.creating - 1
          /\ peer'.events = peer.events /\ peer'.local = peer.local
          /\ peer'.negotiated = peer.negotiated
      BY <2>2, <3>1, CreatingFacts
    <3> QED BY <1>0, <1>5, <3>2 DEF OA!OfferCreated, OA!Next, Open, Created
  <2> QED BY <1>5, <2>1, <2>2 DEF Created
<1>6. ASSUME pc = "open", pc' = "open", Handled
      PROVE  OA!Next
  <2>1. /\ peer'.slots = peer.slots /\ peer'.creating = peer.creating
        /\ peer'.events = <<>> /\ peer'.local = Last(peer.events)
        /\ peer'.negotiated = peer.negotiated
    BY <1>6, HandledFacts DEF Handled
  <2> QED BY <1>6, <2>1 DEF OA!TakeOffers, OA!Next, Open, Handled, Last, OA!Last
<1>7. ASSUME pc = "open", pc' = "open", Accepted
      PROVE  OA!Next
  <2>1. PICK n \in 1..MaxSlots :
            peer.local = n /\ peer' = [peer EXCEPT !.local = 0, !.negotiated = n]
    BY <1>7 DEF Accepted
  <2> DEFINE q == [peer EXCEPT !.local = 0, !.negotiated = n]
  <2>2. peer' = q
    BY <2>1
  <2> HIDE DEF q
  <2>3. q.slots = peer.slots /\ q.creating = peer.creating /\ q.events = peer.events
    BY AnsweredFacts DEF q
  <2>4. q.local = 0 /\ q.negotiated = n
    BY AnswerTaken DEF q
  <2>5. peer.local > 0
    BY <2>1
  <2> QED BY <1>7, <2>1, <2>2, <2>3, <2>4, <2>5 DEF OA!Answered, OA!Next, Open
<1> QED BY <1>1, <1>2, <1>3, <1>4, <1>5, <1>6, <1>7 DEF PeerMoves

(* Every step of the session is a step of OfferAnswer or leaves the peer     *)
(* alone, for any number of slots, overlapping polls and failures            *)
(* (handlePeerEvent, sfuSendOffer, startSignalPolling, endCall).             *)
THEOREM SessionFollowsOfferAnswer == Spec => FollowsOfferAnswer
<1>1. Init => OA!NoPeer
  BY DEF Init, NewPeer, Open, OA!NoPeer
<1>2. Init => NoPeerIsFresh
  BY DEF Init, NoPeerIsFresh
<1>3. SlotsInv /\ NoPeerIsFresh /\ SessionInv /\ [Next]_vars
         => NoPeerIsFresh' /\ [OA!Next]_OA!vars
  BY SessionMoves, FreshStep, MovesArePromised DEF SlotsInv, TypeOK
<1> QED BY <1>1, <1>2, <1>3, Inductive, PTL DEF Spec, FollowsOfferAnswer, OA!Spec
=============================================================================
