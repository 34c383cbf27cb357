------------------------- MODULE KeyDeliveryProofs -------------------------
(***************************************************************************)
(* Proofs about KeyDelivery.  KDP is the service again, with what is       *)
(* proved about it; that a step of the composition is one of the service,  *)
(* or none, lets its invariants be used here.                              *)
(***************************************************************************)
EXTENDS KeyDelivery, TLAPS

KDP == INSTANCE KeyDistributorMessageProofs
           WITH Conferences <- {Meeting}, Sockets <- Endpoints

(* What the service's module assumes of its constants.                       *)
USE HandlersAssumption, NoSocketAssumption

Rekeys(e) == KDP!RekeyBundles(sent[e])

-----------------------------------------------------------------------------
(* The invariant.  Every client has been handed its reply and the rekeys on  *)
(* its socket.                                                               *)

Handed == ({reply[e] : e \in Endpoints} \ {NoBundle}) \cup UNION {Rekeys(e) : e \in Endpoints}

(* Bundles of one Conference object carry one media key.                     *)
HandedOneKey ==
    /\ \A b \in Handed :
          /\ b.born <= clock
          /\ (KDP!Live(Meeting) /\ b.born = Conference.born)
                => b.e2eMasterKey = Conference.e2eGroupKey
    /\ \A a, b \in Handed : a.born = b.born => a.e2eMasterKey = b.e2eMasterKey

(* A client's reply is older than every rekey on its socket.                 *)
ReplyFirst ==
    \A e \in Endpoints : reply[e] # NoBundle =>
        /\ reply[e].born <= clock
        /\ KDP!Live(Meeting) => KDP!NotNewer(reply[e], Conference)
        /\ \A b \in Rekeys(e) : KDP!Older(reply[e], b)

(* How far each client is.                                                   *)
Progress ==
    \A e \in Endpoints :
        /\ socket[e] # KDP!Unused => agent[e] = "connecting"
        /\ agent[e] \in {"joined", "connecting"} => reply[e] # NoBundle
        /\ agent[e] # "connecting" => installed[e] = NoBundle

(* What is installed was handed to that client, and has been read.           *)
InstalledWasRead ==
    \A e \in Endpoints : installed[e] # NoBundle =>
        \/ installed[e] = reply[e]
        \/ \E i \in 1..read[e] : KDP!IsRekey(sent[e][i]) /\ installed[e] = sent[e][i].bundle

ClientInv ==
    /\ TypeOK
    /\ HandedOneKey
    /\ ReplyFirst
    /\ Progress
    /\ InstalledWasRead

(* No rekey that was read is newer than what is installed.                   *)
NewestInstalled ==
    \A e \in open : \A i \in 1..read[e] : KDP!IsRekey(sent[e][i]) =>
        /\ installed[e] # NoBundle
        /\ \/ installed[e] = sent[e][i].bundle
           \/ KDP!Older(sent[e][i].bundle, installed[e])

-----------------------------------------------------------------------------
(* The service in a step of the composition.                                 *)

(* The two instances of the service name the same things.                    *)
LEMMA SameTests ==
    ASSUME NEW a, NEW b
    PROVE  /\ KD!IsStrictPrefix(a, b) <=> KDP!IsStrictPrefix(a, b)
           /\ KD!IsStrictSuffix(a, b) <=> KDP!IsStrictSuffix(a, b)
BY DEF KD!IsStrictPrefix, KDP!IsStrictPrefix, KD!IsStrictSuffix, KDP!IsStrictSuffix,
       KD!IsSuffix, KDP!IsSuffix, KD!IsPrefix, KDP!IsPrefix, KD!Reverse, KDP!Reverse

LEMMA SameNames ==
    /\ KD!Unused = KDP!Unused
    /\ KD!NoConference = KDP!NoConference
    /\ KD!Keys = KDP!Keys
    /\ KD!Bundles = KDP!Bundles
    /\ KD!Now = KDP!Now
    /\ KD!Tick <=> KDP!Tick
    /\ \A c : KD!Live(c) <=> KDP!Live(c)
    /\ \A s : KD!IsOpen(s) <=> KDP!IsOpen(s)
    /\ \A c, conf : KD!Bundle(c, conf) = KDP!Bundle(c, conf)
    /\ \A a, b : KD!Older(a, b) <=> KDP!Older(a, b)
BY DEF KD!Unused, KDP!Unused, KD!NoConference, KDP!NoConference, KD!Keys, KDP!Keys,
       KD!Bundles, KDP!Bundles, KD!Secrets, KDP!Secrets, KD!Now, KDP!Now,
       KD!Tick, KDP!Tick, KD!Now, KDP!Now,
       KD!Live, KDP!Live, KD!IsOpen, KDP!IsOpen,
       KD!Bundle, KDP!Bundle, KD!Older, KDP!Older

LEMMA SameIds == KD!IdsApart <=> KDP!IdsApart
BY SameTests DEF KD!IdsApart, KDP!IdsApart

LEMMA SameInit == KD!Init <=> KDP!Init
BY SameNames DEF KD!Init, KDP!Init

LEMMA SameKeyMaterial ==
    ASSUME NEW conf, NEW e, NEW n, NEW c
    PROVE  /\ KD!GenerateKek(conf, n) = KDP!GenerateKek(conf, n)
           /\ KD!GenerateEndpointE2eKey(conf, e, n) = KDP!GenerateEndpointE2eKey(conf, e, n)
           /\ KD!NewConference(n) = KDP!NewConference(n)
           /\ KD!CreatedConference(c, n) = KDP!CreatedConference(c, n)
           /\ KD!AddEndpoint(conf, e, n) = KDP!AddEndpoint(conf, e, n)
           /\ KD!RemoveEndpoint(conf, e, n) = KDP!RemoveEndpoint(conf, e, n)
           /\ KD!RekeyMessage(c, conf) = KDP!RekeyMessage(c, conf)
BY DEF KD!GenerateKek, KDP!GenerateKek, KD!NoKey, KDP!NoKey,
       KD!GenerateEndpointE2eKey, KDP!GenerateEndpointE2eKey,
       KD!NewConference, KDP!NewConference, KD!CreatedConference, KDP!CreatedConference,
       KD!AddEndpoint, KDP!AddEndpoint, KD!RemoveEndpoint, KDP!RemoveEndpoint,
       KD!RekeyMessage, KDP!RekeyMessage, KD!Bundle, KDP!Bundle, KD!Live, KDP!Live

LEMMA SameSending ==
    ASSUME NEW connections, NEW c, NEW e, NEW conf, NEW es, NEW log, NEW out
    PROVE  /\ KD!Receivers(connections, c, e) = KDP!Receivers(connections, c, e)
           /\ KD!SfuReceivers(connections, c) = KDP!SfuReceivers(connections, c)
           /\ KD!Deliver(log, es, out) = KDP!Deliver(log, es, out)
           /\ KD!Issue(c, conf, es) = KDP!Issue(c, conf, es)
           /\ KD!Owners(es) = KDP!Owners(es)
<1>1. KD!Addressed(c, e) = KDP!Addressed(c, e)
  BY SameNames, SameTests DEF KD!Addressed, KDP!Addressed
<1>2. KD!Receivers(connections, c, e) = KDP!Receivers(connections, c, e)
  BY <1>1, SameNames DEF KD!Receivers, KDP!Receivers
<1>3. KD!SfuReceivers(connections, c) = KDP!SfuReceivers(connections, c)
  BY SameNames DEF KD!SfuReceivers, KDP!SfuReceivers
<1>4. KD!Deliver(log, es, out) = KDP!Deliver(log, es, out)
  BY DEF KD!Deliver, KDP!Deliver
<1>5. KD!Issue(c, conf, es) = KDP!Issue(c, conf, es)
  BY SameNames DEF KD!Issue, KDP!Issue
<1>6. KD!Owners(es) = KDP!Owners(es)
  BY DEF KD!Owners, KDP!Owners
<1> QED BY <1>2, <1>3, <1>4, <1>5, <1>6

LEMMA SameJoin ==
    ASSUME NEW e \in Endpoints, KD!Join(Meeting, e)
    PROVE  KDP!Join(Meeting, e)
<1> DEFINE conf == KDP!AddEndpoint(KDP!CreatedConference(Meeting, KDP!Now), e, KDP!Now)
           newMember == [type |-> "new_member", endpointId |-> e,
                         e2eKey |-> conf.endpointKeys[e]]
           joined == [type |-> "endpoint_joined", endpointId |-> e]
<1>1. KD!AddEndpoint(KD!CreatedConference(Meeting, KD!Now), e, KD!Now) = conf
  BY SameNames, SameKeyMaterial
<1>2. /\ KD!Tick /\ conferences' = [conferences EXCEPT ![Meeting] = conf]
      /\ sent' = KD!Deliver(KD!Deliver(sent, KD!Receivers(endpointConnections, Meeting, e),
                                       <<newMember>>),
                            KD!SfuReceivers(sfuConnections, Meeting), <<joined>>)
      /\ issued' = issued \cup KD!Issue(Meeting, conf, {e})
      /\ UNCHANGED <<endpointConnections, sfuConnections, socket>>
  BY <1>1, Zenon DEF KD!Join
<1> HIDE DEF conf, newMember, joined
<1>3. sent' = KDP!Deliver(KDP!Deliver(sent, KDP!Receivers(endpointConnections, Meeting, e),
                                      <<newMember>>),
                          KDP!SfuReceivers(sfuConnections, Meeting), <<joined>>)
  BY <1>2, SameSending
<1>4. KDP!Tick /\ issued' = issued \cup KDP!Issue(Meeting, conf, {e})
  BY <1>2, SameNames, SameSending
<1> QED BY <1>2, <1>3, <1>4, Zenon DEF KDP!Join, conf, newMember, joined

LEMMA SameLeave ==
    ASSUME NEW e \in Endpoints, KD!Leave(Meeting, e)
    PROVE  KDP!Leave(Meeting, e)
<1> DEFINE conf == KDP!RemoveEndpoint(conferences[Meeting], e, KDP!Now)
           removed == conf.endpoints = {}
           connections == [endpointConnections EXCEPT ![Meeting \o e] = NoSocket]
           sfus == IF removed THEN [sfuConnections EXCEPT ![Meeting] = NoSocket]
                   ELSE sfuConnections
           receivers == IF removed THEN {} ELSE KDP!Receivers(connections, Meeting, NullId)
           left == [type |-> "endpoint_left", endpointId |-> e]
           toSfu == IF removed THEN <<left>> ELSE <<[type |-> "rekey_notice"], left>>
<1>1. KD!RemoveEndpoint(conferences[Meeting], e, KD!Now) = conf
  BY SameNames, SameKeyMaterial
<1>2. KD!Receivers(connections, Meeting, NullId) = KDP!Receivers(connections, Meeting, NullId)
  BY SameSending
<1>3. KD!NoConference = KDP!NoConference
  BY SameNames
<1>4. /\ KD!Live(Meeting) /\ KD!Tick
      /\ conferences' = [conferences EXCEPT ![Meeting] =
                            IF removed THEN KDP!NoConference ELSE conf]
      /\ endpointConnections' = connections
      /\ sfuConnections' = sfus
      /\ sent' = KD!Deliver(KD!Deliver(sent, receivers, <<KD!RekeyMessage(Meeting, conf)>>),
                            KD!SfuReceivers(sfus, Meeting), toSfu)
      /\ issued' = issued \cup KD!Issue(Meeting, conf, KD!Owners(receivers))
      /\ UNCHANGED socket
  BY <1>1, <1>2, <1>3, Zenon DEF KD!Leave
<1> HIDE DEF conf, removed, connections, sfus, receivers, toSfu
<1>5. sent' = KDP!Deliver(KDP!Deliver(sent, receivers, <<KDP!RekeyMessage(Meeting, conf)>>),
                          KDP!SfuReceivers(sfus, Meeting), toSfu)
  BY <1>4, SameSending, SameKeyMaterial
<1>6. /\ KDP!Live(Meeting) /\ KDP!Tick
      /\ issued' = issued \cup KDP!Issue(Meeting, conf, KDP!Owners(receivers))
  BY <1>4, SameNames, SameSending
<1> QED BY <1>4, <1>5, <1>6, Zenon
        DEF KDP!Leave, conf, removed, connections, sfus, receivers, toSfu

LEMMA SameRekey ==
    ASSUME NEW t \in Endpoints, KD!RequestRekey(t)
    PROVE  KDP!RequestRekey(t)
<1> DEFINE c == socket[t].conf
           e == socket[t].endpoint
           rotated == KDP!GenerateKek(conferences[c], KDP!Now)
           conf == IF e \in rotated.endpoints
                   THEN KDP!GenerateEndpointE2eKey(rotated, e, KDP!Now) ELSE rotated
           receivers == KDP!Receivers(endpointConnections, c, NullId)
<1>1. KD!GenerateKek(conferences[c], KD!Now) = rotated
  BY SameNames, SameKeyMaterial
<1>2. KD!GenerateEndpointE2eKey(rotated, e, KD!Now)
         = KDP!GenerateEndpointE2eKey(rotated, e, KDP!Now)
  BY SameNames, SameKeyMaterial
<1>3. KD!Receivers(endpointConnections, c, NullId) = receivers
  BY SameSending
<1>4. /\ KD!IsOpen(t) /\ socket[t].role = "endpoint" /\ KD!Live(c) /\ KD!Tick
      /\ conferences' = [conferences EXCEPT ![c] = conf]
      /\ sent' = KD!Deliver(sent, receivers, <<KD!RekeyMessage(c, conf)>>)
      /\ issued' = issued \cup KD!Issue(c, conf, KD!Owners(receivers))
      /\ UNCHANGED <<endpointConnections, sfuConnections, socket>>
  BY <1>1, <1>2, <1>3, Zenon DEF KD!RequestRekey
<1> HIDE DEF c, conf, receivers
<1>5. sent' = KDP!Deliver(sent, receivers, <<KDP!RekeyMessage(c, conf)>>)
  BY <1>4, SameSending, SameKeyMaterial
<1>6. /\ KDP!IsOpen(t) /\ KDP!Live(c) /\ KDP!Tick
      /\ issued' = issued \cup KDP!Issue(c, conf, KDP!Owners(receivers))
  BY <1>4, SameNames, SameSending
<1> QED BY <1>4, <1>5, <1>6, Zenon DEF KDP!RequestRekey, c, conf, receivers

LEMMA SameSockets ==
    ASSUME NEW e \in Endpoints
    PROVE  /\ KD!EndpointConnect(e, Meeting, e) => KDP!EndpointConnect(e, Meeting, e)
           /\ KD!Disconnect(e) => KDP!Disconnect(e)
           /\ KD!EndpointClosed(e) => KDP!EndpointClosed(e)
           /\ KD!CreateConference(Meeting) => KDP!CreateConference(Meeting)
<1>1. KD!EndpointConnect(e, Meeting, e) => KDP!EndpointConnect(e, Meeting, e)
  BY SameNames DEF KD!EndpointConnect, KDP!EndpointConnect
<1>2. KD!Disconnect(e) => KDP!Disconnect(e)
  BY SameNames DEF KD!Disconnect, KDP!Disconnect
<1>3. KD!EndpointClosed(e) => KDP!EndpointClosed(e)
  BY SameNames DEF KD!EndpointClosed, KDP!EndpointClosed
<1>4. KD!CreateConference(Meeting) => KDP!CreateConference(Meeting)
  BY SameNames, SameKeyMaterial DEF KD!CreateConference, KDP!CreateConference
<1> QED BY <1>1, <1>2, <1>3, <1>4

LEMMA ServiceUnchanged == UNCHANGED service => UNCHANGED KDP!vars
BY DEF service, KDP!vars

LEMMA ServiceStep ==
    ASSUME [Next]_vars
    PROVE  [KDP!Next]_(KDP!vars)
<1> SUFFICES ASSUME NEW e \in Endpoints,
                    \/ CreateConference(e) \/ Join(e) \/ JoinReply(e)
                    \/ Register(e) \/ KdWsMessage(e) \/ Rekey(e) \/ Disconnect(e)
                    \/ ConnectionLost(e) \/ ConnectionClosed(e) \/ Leave(e)
             PROVE  [KDP!Next]_(KDP!vars)
  BY ServiceUnchanged DEF Next, vars
<1>1. CASE CreateConference(e)
  BY <1>1, ServiceUnchanged, SameSockets DEF CreateConference, KDP!Next
<1>2. CASE Join(e)
  BY <1>2, SameJoin DEF Join, KDP!Next
<1>3. CASE JoinReply(e) \/ KdWsMessage(e) \/ Disconnect(e)
  BY <1>3, ServiceUnchanged DEF JoinReply, KdWsMessage, Disconnect
<1>4. CASE Register(e)
  BY <1>4, SameSockets DEF Register, KDP!Next
<1>5. CASE Rekey(e)
  BY <1>5, SameRekey DEF Rekey, KDP!Next
<1>6. CASE ConnectionLost(e)
  BY <1>6, SameSockets DEF ConnectionLost, KDP!Next
<1>7. CASE ConnectionClosed(e)
  BY <1>7, SameSockets DEF ConnectionClosed, KDP!Next
<1>8. CASE Leave(e)
  BY <1>8, SameLeave DEF Leave, KDP!Next
<1> QED BY <1>1, <1>2, <1>3, <1>4, <1>5, <1>6, <1>7, <1>8

(* What is proved of the service holds in the composition: each thing a      *)
(* client of this repository does to the service (client.js:392-470,         *)
(* 609-625, 650-658) is a handler of the service or leaves it alone.         *)
THEOREM ServiceSpec == Spec => KDP!Spec
<1>1. Init => KDP!Init
  BY SameInit DEF Init
<1>2. [Next]_vars => [KDP!Next]_(KDP!vars)
  BY ServiceStep
<1> QED BY <1>1, <1>2, PTL DEF Spec, KDP!Spec

(* What the clients rely on: the conference that is live is well formed, and *)
(* so is what is written to the sockets.                                     *)
CurrentSane ==
    KDP!Live(Meeting) =>
        /\ Conference.born \in Nat /\ Conference.kekSpi \in Nat
        /\ Conference.born <= clock
        /\ Current \in KD!Bundles
        /\ Current.born = Conference.born /\ Current.kekSpi = Conference.kekSpi
        /\ Current.e2eMasterKey = Conference.e2eGroupKey

LogsSane ==
    \A e \in Endpoints :
        /\ sent[e] \in Seq(KDP!Messages)
        /\ socket[e] = KDP!Unused => sent[e] = <<>>
        /\ \A b \in Rekeys(e) : b \in KD!Bundles

ServiceInv == KDP!TypeInv /\ CurrentSane /\ LogsSane /\ clock \in Nat

LEMMA ServiceSane ==
    ASSUME KDP!TypeInv, KDP!KeyInv, KDP!SilentUntilAccepted
    PROVE  ServiceInv
<1>1. clock \in Nat
  BY DEF KDP!TypeInv, KDP!TypeOK
<1>2. ASSUME KDP!Live(Meeting)
      PROVE  CurrentSane
  <2>1. Conference \in KDP!Conference
    BY <1>2, KDP!LiveConference DEF KDP!TypeInv, Conference
  <2>2. Conference.born \in Nat /\ Conference.kekSpi \in Nat
    BY <2>1, KDP!ConferenceNumbers
  <2>3. Conference.born <= clock
    BY <1>2 DEF KDP!KeyInv, KDP!DrawnBefore, Conference
  <2>4. Current = KDP!Bundle(Meeting, Conference)
    BY SameNames DEF Current
  <2>5. Current \in KD!Bundles
    BY <2>1, <2>4, KDP!BundleType, SameNames
  <2>6. /\ Current.born = Conference.born /\ Current.kekSpi = Conference.kekSpi
        /\ Current.e2eMasterKey = Conference.e2eGroupKey
    BY <2>4 DEF KDP!Bundle
  <2> QED BY <2>2, <2>3, <2>5, <2>6 DEF CurrentSane
<1>3. ASSUME NEW e \in Endpoints
      PROVE  /\ sent[e] \in Seq(KDP!Messages)
             /\ socket[e] = KDP!Unused => sent[e] = <<>>
             /\ \A b \in Rekeys(e) : b \in KD!Bundles
  BY KDP!SentType, KDP!RekeyBundleFacts, SameNames DEF Rekeys, KDP!SilentUntilAccepted
<1> QED BY <1>1, <1>2, <1>3 DEF ServiceInv, CurrentSane, LogsSane

LEMMA ServiceInvariant == Spec => []ServiceInv
<1>1. KDP!Spec => [](KDP!TypeInv /\ KDP!KeyInv)
  BY KDP!KeyInvariant
<1>2. KDP!Spec => [](KDP!TypeInv /\ KDP!SfuInv)
  BY KDP!SfuInvariant
<1>3. KDP!SfuInv => KDP!SilentUntilAccepted
  BY DEF KDP!SfuInv
<1>4. KDP!TypeInv /\ KDP!KeyInv /\ KDP!SilentUntilAccepted => ServiceInv
  BY ServiceSane
<1> QED BY <1>1, <1>2, <1>3, <1>4, ServiceSpec, PTL

LEMMA OrderInvariant ==
    ASSUME KD!IdsApart
    PROVE  Spec => []KDP!RekeyInv
<1>1. KDP!IdsApart
  BY SameIds
<1>2. KDP!Spec => [](KDP!TypeInv /\ KDP!KeyInv /\ KDP!RekeyInv)
  BY <1>1, KDP!RekeyInvariant
<1> QED BY <1>2, ServiceSpec, PTL

(* What a step does to the conference and to the logs.                       *)
Fresh == ~KDP!Live(Meeting) /\ Conference'.born > clock
Remains == /\ KDP!Live(Meeting)
           /\ Conference'.born = Conference.born
           /\ Conference'.kekSpi = Conference.kekSpi
           /\ Conference'.e2eGroupKey = Conference.e2eGroupKey
Rotates == /\ KDP!Live(Meeting) /\ KDP!Live(Meeting)'
           /\ Conference'.born = Conference.born
           /\ Conference'.kekSpi = Conference.kekSpi + 1
           /\ Conference'.e2eGroupKey = Conference.e2eGroupKey

LEMMA ServiceMoves ==
    ASSUME ServiceInv, [Next]_vars
    PROVE  /\ clock <= clock'
           /\ KDP!Live(Meeting)' => (Fresh \/ Remains \/ Rotates)
           /\ \A e \in Endpoints :
                 /\ KDP!Extends(sent[e], sent'[e])
                 /\ \/ Rekeys(e)' = Rekeys(e)
                    \/ Rotates /\ Rekeys(e)' = Rekeys(e) \cup {Current'}
<1>1. KDP!TypeInv /\ [KDP!Next]_(KDP!vars)
  BY ServiceStep DEF ServiceInv
<1>2. /\ clock' \in {clock, KDP!Now}
      /\ KDP!Live(Meeting)' => (KDP!IsFresh(Meeting) \/ KDP!Remains(Meeting) \/ KDP!Rotates(Meeting))
      /\ \A e \in Endpoints :
            /\ KDP!Extends(sent[e], sent'[e])
            /\ \/ KDP!RekeyBundles(sent'[e]) = KDP!RekeyBundles(sent[e])
               \/ /\ KDP!Rotates(Meeting)
                  /\ KDP!RekeyBundles(sent'[e])
                        = KDP!RekeyBundles(sent[e]) \cup {KDP!Bundle(Meeting, conferences'[Meeting])}
  BY <1>1, KDP!StepFacts
<1>3. clock \in Nat /\ KDP!Now = clock + 1
  BY DEF ServiceInv, KDP!Now
<1>4. KDP!IsFresh(Meeting) => Fresh
  BY <1>3 DEF KDP!IsFresh, Fresh, Conference
<1>5. KDP!Remains(Meeting) => Remains
  BY KDP!SameBundle DEF KDP!Remains, Remains, Conference
<1>6. KDP!Rotates(Meeting) => Rotates
  BY DEF KDP!Rotates, Rotates, Conference
<1>7. KDP!Bundle(Meeting, conferences'[Meeting]) = Current'
  BY SameNames DEF Current, Conference
<1>8. \A e \in Endpoints : /\ Rekeys(e) = KDP!RekeyBundles(sent[e])
                           /\ Rekeys(e)' = KDP!RekeyBundles(sent'[e])
  BY DEF Rekeys, KDP!RekeyBundles
<1> QED BY <1>2, <1>3, <1>4, <1>5, <1>6, <1>7, <1>8

-----------------------------------------------------------------------------
(* The clients in a step of the composition.                                 *)

(* The part of a step that only concerns e.                                  *)
Act(e) == \/ CreateConference(e) \/ Join(e) \/ JoinReply(e)
          \/ Register(e) \/ KdWsMessage(e) \/ Rekey(e) \/ Disconnect(e)
          \/ ConnectionLost(e) \/ ConnectionClosed(e) \/ Leave(e)

LEMMA JoinReplyIsCurrent ==
    ASSUME ServiceInv, ServiceInv', TypeOK, Progress, NEW e \in Endpoints, Join(e)
    PROVE  /\ KDP!Live(Meeting)'
           /\ reply' = [reply EXCEPT ![e] = Current']
           /\ Rekeys(e)' = {}
<1>1. KDP!Join(Meeting, e) /\ KDP!TypeInv
  BY SameJoin DEF Join, ServiceInv
<1>2. KDP!Live(Meeting)'
  <2>1. PICK conf \in KDP!Conference : conferences' = [conferences EXCEPT ![Meeting] = conf]
    BY <1>1, KDP!JoinLogs
  <2>2. conferences'[Meeting] = conf
    BY <1>1, <2>1 DEF KDP!TypeInv, KDP!TypeOK
  <2> QED BY <2>2, KDP!ConferenceNumbers DEF KDP!Live
<1>3. reply' = [reply EXCEPT ![e] = Current']
  BY DEF Join, Current, Conference
<1>4. Rekeys(e)' = {}
  <2>1. socket'[e] = KDP!Unused
    BY <1>1 DEF Join, Progress, KDP!Join
  <2>2. sent'[e] = <<>>
    BY <2>1 DEF ServiceInv, LogsSane, KDP!Unused
  <2> QED BY <2>2 DEF Rekeys, KDP!RekeyBundles
<1> QED BY <1>2, <1>3, <1>4

LEMMA ReplyMoves ==
    ASSUME ServiceInv, ServiceInv', TypeOK, Progress, [Next]_vars
    PROVE  \A e \in Endpoints :
              \/ reply'[e] = reply[e]
              \/ reply'[e] = Current' /\ KDP!Live(Meeting)' /\ Rekeys(e)' = {}
<1>1. ASSUME NEW e \in Endpoints, Join(e)
      PROVE  \A f \in Endpoints :
                \/ reply'[f] = reply[f]
                \/ reply'[f] = Current' /\ KDP!Live(Meeting)' /\ Rekeys(f)' = {}
  BY <1>1, JoinReplyIsCurrent DEF TypeOK
<1>2. ASSUME NEW e \in Endpoints, Act(e), ~Join(e)
      PROVE  reply' = reply
  BY <1>2 DEF Act, CreateConference, JoinReply, Register, KdWsMessage, Rekey, Disconnect,
              ConnectionLost, ConnectionClosed, Leave, clients
<1>3. CASE UNCHANGED vars
  BY <1>3 DEF vars, clients
<1> QED BY <1>1, <1>2, <1>3 DEF Next, Act

(* A client is connected only once its reply has come.                       *)
LEMMA SocketMoves ==
    ASSUME ServiceInv, Progress, [Next]_vars
    PROVE  \A e \in Endpoints :
              socket'[e] # KDP!Unused => (socket[e] # KDP!Unused \/ agent[e] = "connecting")
<1> SUFFICES ASSUME NEW f \in Endpoints, Act(f), NEW e \in Endpoints, socket'[e] # socket[e]
             PROVE  socket[e] # KDP!Unused \/ agent[e] = "connecting"
  BY DEF Next, Act, vars, service
<1>0. socket \in [Endpoints -> KDP!SocketRecords]
  BY DEF ServiceInv, KDP!TypeInv, KDP!TypeOK
<1>1. CASE CreateConference(f) \/ Join(f) \/ Leave(f) \/ Rekey(f)
  BY <1>1, SameSockets, SameJoin, SameLeave, SameRekey
     DEF CreateConference, Join, Leave, Rekey, service,
         KDP!CreateConference, KDP!Join, KDP!Leave, KDP!RequestRekey
<1>2. CASE JoinReply(f) \/ KdWsMessage(f) \/ Disconnect(f)
  BY <1>2 DEF JoinReply, KdWsMessage, Disconnect, service
<1>3. CASE Register(f)
  BY <1>0, <1>3 DEF Register, KD!EndpointConnect
<1>4. CASE ConnectionLost(f) \/ ConnectionClosed(f)
  <2>1. socket[f] # KDP!Unused
    BY <1>4, SameSockets, KDP!OpenSocket
       DEF ConnectionLost, ConnectionClosed, KDP!Disconnect, KDP!EndpointClosed
  <2>2. e = f
    BY <1>0, <1>4, SameSockets
       DEF ConnectionLost, ConnectionClosed, KDP!Disconnect, KDP!EndpointClosed
  <2> QED BY <2>1, <2>2
<1> QED BY <1>1, <1>2, <1>3, <1>4 DEF Act

(* A message that is read is a message of the service.                       *)
LEMMA MessageRead ==
    ASSUME ServiceInv, TypeOK, NEW e \in Endpoints, Unread(e)
    PROVE  LET m == Inbox(e)[read[e] + 1]
           IN  /\ m \in KDP!Messages
               /\ KDP!IsRekey(m) <=> m.type = "rekey"
               /\ KDP!IsRekey(m) => m.bundle \in Rekeys(e) /\ m.bundle \in KD!Bundles
               /\ read[e] + 1 \in DOMAIN sent[e]
<1>1. /\ sent[e] \in Seq(KDP!Messages) /\ read[e] \in Nat /\ read[e] < Len(sent[e])
      /\ Inbox(e) = sent[e]
  BY DEF ServiceInv, LogsSane, TypeOK, Unread, Inbox
<1>2. read[e] + 1 \in DOMAIN sent[e] /\ sent[e][read[e] + 1] \in KDP!Messages
  BY <1>1
<1>3. KDP!IsRekey(sent[e][read[e] + 1]) => sent[e][read[e] + 1].bundle \in Rekeys(e)
  BY <1>2 DEF Rekeys, KDP!RekeyBundles
<1>4. \A b \in Rekeys(e) : b \in KD!Bundles
  BY DEF ServiceInv, LogsSane
<1> QED BY <1>1, <1>2, <1>3, <1>4 DEF KDP!IsRekey

(* What a step does to one client: start, join, take the reply, read a       *)
(* message, close the peer, or nothing.                                      *)
Starts(e) == /\ agent[e] = "idle" /\ agent'[e] = "created"
             /\ reply'[e] = reply[e] /\ read'[e] = read[e] /\ installed'[e] = installed[e]
Joins(e) == /\ agent[e] = "created" /\ agent'[e] = "joined"
            /\ reply'[e] = Current' /\ read'[e] = read[e] /\ installed'[e] = installed[e]
            /\ KDP!Live(Meeting)'
            /\ e \in open' => e \in open
TakesReply(e) == /\ agent[e] = "joined" /\ agent'[e] = "connecting"
                 /\ reply'[e] = reply[e] /\ read'[e] = read[e]
                 /\ installed'[e] = (IF e \in open THEN reply[e] ELSE installed[e])
                 /\ (e \in open' <=> e \in open)
Reads(e) == /\ KDP!IsOpen(e) /\ Unread(e) /\ agent'[e] = agent[e]
            /\ reply'[e] = reply[e] /\ read'[e] = read[e] + 1 /\ sent'[e] = sent[e]
            /\ (e \in open' <=> e \in open)
            /\ LET m == sent[e][read[e] + 1]
               IN  IF m.type = "rekey" /\ e \in open
                   THEN installed'[e] = m.bundle
                   ELSE installed'[e] = installed[e]
Closes(e) == /\ agent'[e] = agent[e] /\ reply'[e] = reply[e] /\ read'[e] = read[e]
             /\ e \notin open' /\ installed'[e] = NoBundle
Rests(e) == /\ agent'[e] = agent[e] /\ reply'[e] = reply[e] /\ read'[e] = read[e]
            /\ (e \in open' <=> e \in open) /\ installed'[e] = installed[e]

LEMMA ClientMoves ==
    ASSUME ServiceInv, ServiceInv', TypeOK, Progress, [Next]_vars
    PROVE  \A e \in Endpoints :
              \/ Starts(e) \/ Joins(e) \/ TakesReply(e) \/ Reads(e) \/ Closes(e) \/ Rests(e)
<1> SUFFICES ASSUME NEW e \in Endpoints
             PROVE  \/ Starts(e) \/ Joins(e) \/ TakesReply(e) \/ Reads(e)
                    \/ Closes(e) \/ Rests(e)
  OBVIOUS
<1>1. CASE UNCHANGED vars
  BY <1>1 DEF vars, clients, Rests
<1>2. ASSUME NEW f \in Endpoints, CreateConference(f)
      PROVE  Starts(e) \/ Rests(e)
  BY <1>2 DEF CreateConference, TypeOK, Starts, Rests
<1>3. ASSUME NEW f \in Endpoints, Join(f)
      PROVE  Joins(e) \/ Rests(e)
  <2>1. KDP!Live(Meeting)' /\ reply' = [reply EXCEPT ![f] = Current']
    BY <1>3, JoinReplyIsCurrent
  <2> QED BY <1>3, <2>1 DEF Join, TypeOK, Joins, Rests
<1>4. ASSUME NEW f \in Endpoints, JoinReply(f)
      PROVE  TakesReply(e) \/ Rests(e)
  BY <1>4 DEF JoinReply, InstallE2eKeys, TypeOK, TakesReply, Rests
<1>5. ASSUME NEW f \in Endpoints, KdWsMessage(f)
      PROVE  Reads(e) \/ Rests(e)
  <2>1. CASE e = f
    <3>1. KDP!IsOpen(e)
      BY <1>5, <2>1, SameNames DEF KdWsMessage, Connected
    <3> QED BY <1>5, <2>1, <3>1
            DEF KdWsMessage, Handle, InstallE2eKeys, Inbox, TypeOK, Reads, service
  <2>2. CASE e # f
    BY <1>5, <2>2 DEF KdWsMessage, Handle, InstallE2eKeys, TypeOK, Rests
  <2> QED BY <2>1, <2>2
<1>6. ASSUME NEW f \in Endpoints, Disconnect(f)
      PROVE  Closes(e) \/ Rests(e)
  BY <1>6 DEF Disconnect, TypeOK, Closes, Rests
<1>7. ASSUME NEW f \in Endpoints,
             Register(f) \/ Rekey(f) \/ ConnectionLost(f) \/ ConnectionClosed(f) \/ Leave(f)
      PROVE  Rests(e)
  BY <1>7 DEF Register, Rekey, ConnectionLost, ConnectionClosed, Leave, clients, Rests
<1> QED BY <1>1, <1>2, <1>3, <1>4, <1>5, <1>6, <1>7 DEF Next

LEMMA ProgressNext ==
    ASSUME ServiceInv, ServiceInv', TypeOK, Progress, [Next]_vars
    PROVE  Progress'
<1> SUFFICES ASSUME NEW e \in Endpoints
             PROVE  /\ socket'[e] # KDP!Unused => agent'[e] = "connecting"
                    /\ agent'[e] \in {"joined", "connecting"} => reply'[e] # NoBundle
                    /\ agent'[e] # "connecting" => installed'[e] = NoBundle
  BY DEF Progress, KDP!Unused
<1>1. /\ socket[e] # KDP!Unused => agent[e] = "connecting"
      /\ agent[e] \in {"joined", "connecting"} => reply[e] # NoBundle
      /\ agent[e] # "connecting" => installed[e] = NoBundle
  BY DEF Progress
<1>2. socket'[e] # KDP!Unused => agent[e] = "connecting"
  BY <1>1, SocketMoves
<1>3. KDP!Live(Meeting)' => Current' # NoBundle
  BY NoBundleAssumption DEF ServiceInv, CurrentSane, KD!Bundles, KD!Secrets
<1>4. CASE Joins(e)
  <2>1. reply'[e] # NoBundle
    BY <1>3, <1>4 DEF Joins
  <2> QED BY <1>1, <1>2, <1>4, <2>1 DEF Joins
<1>5. CASE Starts(e) \/ TakesReply(e) \/ Closes(e) \/ Rests(e)
  BY <1>1, <1>2, <1>5 DEF Starts, TakesReply, Closes, Rests
<1>6. CASE Reads(e)
  <2>1. socket[e] # KDP!Unused
    BY <1>6, KDP!OpenSocket DEF Reads
  <2> QED BY <1>1, <1>2, <1>6, <2>1 DEF Reads
<1> QED BY <1>4, <1>5, <1>6, ClientMoves

LEMMA TypeInit == Init => TypeOK
<1> SUFFICES ASSUME Init PROVE TypeOK
  OBVIOUS
<1>1. \A e \in Endpoints : socket[e] = KD!Unused /\ Len(Inbox(e)) = 0
  BY DEF Init, KD!Init, Inbox
<1> QED BY <1>1 DEF Init, TypeOK

AgentTypes ==
    /\ agent \in [Endpoints -> {"idle", "created", "joined", "connecting"}]
    /\ open \subseteq Endpoints
    /\ read \in [Endpoints -> Nat]

LEMMA TypeNext ==
    ASSUME ServiceInv, ServiceInv', TypeOK, Progress, Progress', [Next]_vars
    PROVE  TypeOK'
<1>1. KDP!Live(Meeting)' => Current' \in KD!Bundles
  BY DEF ServiceInv, CurrentSane, KD!Bundles, KD!Secrets
<1>2. ASSUME NEW e \in Endpoints
      PROVE  /\ installed'[e] # NoBundle => e \in open'
             /\ socket'[e] # KD!Unused => reply'[e] # NoBundle
             /\ read'[e] <= Len(sent'[e])
  <2>1. socket'[e] # KD!Unused => reply'[e] # NoBundle
    BY SameNames DEF Progress, KDP!Unused
  <2>2. KDP!Extends(sent[e], sent'[e]) /\ sent[e] \in Seq(KDP!Messages)
        /\ sent'[e] \in Seq(KDP!Messages)
    BY ServiceMoves DEF ServiceInv, LogsSane, KDP!Messages
  <2>3. Len(sent[e]) <= Len(sent'[e])
    BY <2>2 DEF KDP!Extends
  <2>4. /\ installed[e] # NoBundle => e \in open
        /\ read[e] <= Len(sent[e]) /\ read[e] \in Nat
        /\ Unread(e) <=> read[e] < Len(sent[e])
    BY DEF TypeOK, Inbox, Unread
  <2>5. CASE Starts(e)
    BY <2>1, <2>2, <2>3, <2>4, <2>5 DEF Starts, Progress
  <2>6. CASE Joins(e)
    BY <2>1, <2>2, <2>3, <2>4, <2>6 DEF Joins, Progress
  <2>7. CASE TakesReply(e) \/ Closes(e) \/ Rests(e)
    BY <2>1, <2>2, <2>3, <2>4, <2>7 DEF TakesReply, Closes, Rests
  <2>8. CASE Reads(e)
    BY <2>1, <2>2, <2>3, <2>4, <2>8 DEF Reads
  <2> QED BY <2>5, <2>6, <2>7, <2>8, ClientMoves
<1>3. AgentTypes'
  <2> USE DEF TypeOK, AgentTypes
  <2>1. ASSUME NEW e \in Endpoints, CreateConference(e)
        PROVE  AgentTypes'
    BY <2>1 DEF CreateConference
  <2>2. ASSUME NEW e \in Endpoints, Join(e) \/ JoinReply(e)
        PROVE  AgentTypes'
    BY <2>2 DEF Join, JoinReply
  <2>3. ASSUME NEW e \in Endpoints, KdWsMessage(e) \/ Disconnect(e)
        PROVE  AgentTypes'
    <3>1. CASE KdWsMessage(e)
      <4>1. agent' = agent /\ open' = open /\ read' = [read EXCEPT ![e] = @ + 1]
        BY <3>1 DEF KdWsMessage
      <4> QED BY <4>1
    <3>2. CASE Disconnect(e)
      BY <3>2 DEF Disconnect
    <3> QED BY <2>3, <3>1, <3>2
  <2>4. CASE UNCHANGED clients
    BY <2>4 DEF clients
  <2> QED BY <2>1, <2>2, <2>3, <2>4
          DEF Next, Register, Rekey, ConnectionLost, ConnectionClosed, Leave, vars
<1>4. reply' \in [Endpoints -> KD!Bundles \cup {NoBundle}]
  <2>1. ASSUME NEW e \in Endpoints, Join(e)
        PROVE  reply' \in [Endpoints -> KD!Bundles \cup {NoBundle}]
    BY <1>1, <2>1, JoinReplyIsCurrent DEF TypeOK
  <2>2. ASSUME ~\E e \in Endpoints : Join(e)
        PROVE  reply' = reply
    BY <2>2 DEF Next, CreateConference, JoinReply, Register, KdWsMessage, Rekey, Disconnect,
                ConnectionLost, ConnectionClosed, Leave, clients, vars
  <2> QED BY <2>1, <2>2 DEF TypeOK
<1>5. installed' \in [Endpoints -> KD!Bundles \cup {NoBundle}]
  <2>1. ASSUME NEW e \in Endpoints, JoinReply(e) \/ Disconnect(e)
        PROVE  installed' \in [Endpoints -> KD!Bundles \cup {NoBundle}]
    BY <2>1 DEF JoinReply, Disconnect, InstallE2eKeys, TypeOK
  <2>2. ASSUME NEW e \in Endpoints, KdWsMessage(e)
        PROVE  installed' \in [Endpoints -> KD!Bundles \cup {NoBundle}]
    <3> DEFINE m == Inbox(e)[read[e] + 1]
    <3>1. m.type = "rekey" => m.bundle \in KD!Bundles
      BY <2>2, MessageRead DEF KdWsMessage
    <3> QED BY <2>2, <3>1 DEF KdWsMessage, Handle, InstallE2eKeys, TypeOK
  <2>3. ASSUME ~\E e \in Endpoints : JoinReply(e) \/ Disconnect(e) \/ KdWsMessage(e)
        PROVE  installed' = installed
    BY <2>3 DEF Next, CreateConference, Join, Register, Rekey,
                ConnectionLost, ConnectionClosed, Leave, clients, vars
  <2> QED BY <2>1, <2>2, <2>3 DEF TypeOK
<1> QED BY <1>2, <1>3, <1>4, <1>5 DEF AgentTypes, TypeOK, Inbox, KD!Unused, KD!Bundles, KD!Secrets

(* All that is handed out in a step is the bundle of the epoch it ends in.   *)
LEMMA HandedMoves ==
    ASSUME ServiceInv, ServiceInv', TypeOK, Progress, [Next]_vars
    PROVE  \A b \in Handed' : b \in Handed \/ (b = Current' /\ KDP!Live(Meeting)')
<1> SUFFICES ASSUME NEW b \in Handed'
             PROVE  b \in Handed \/ (b = Current' /\ KDP!Live(Meeting)')
  OBVIOUS
<1>1. ASSUME NEW e \in Endpoints, b = reply'[e], b # NoBundle
      PROVE  b \in Handed \/ (b = Current' /\ KDP!Live(Meeting)')
  BY <1>1, ReplyMoves DEF Handed
<1>2. ASSUME NEW e \in Endpoints, b \in Rekeys(e)'
      PROVE  b \in Handed \/ (b = Current' /\ KDP!Live(Meeting)')
  <2>1. Rekeys(e) \subseteq Handed
    BY DEF Handed
  <2>2. \/ Rekeys(e)' = Rekeys(e)
        \/ Rotates /\ Rekeys(e)' = Rekeys(e) \cup {Current'}
    BY ServiceMoves
  <2> QED BY <1>2, <2>1, <2>2 DEF Rotates
<1> QED BY <1>1, <1>2 DEF Handed

LEMMA HandedType ==
    ASSUME ServiceInv, TypeOK
    PROVE  \A b \in Handed : b \in KD!Bundles /\ b.born \in Nat
<1>1. \A b \in Handed : b \in KD!Bundles
  BY DEF Handed, TypeOK, ServiceInv, LogsSane
<1> QED BY <1>1 DEF KD!Bundles

LEMMA HandedNext ==
    ASSUME ServiceInv, ServiceInv', TypeOK, Progress, HandedOneKey, [Next]_vars
    PROVE  HandedOneKey'
<1>1. /\ clock \in Nat /\ clock' \in Nat /\ clock <= clock'
      /\ KDP!Live(Meeting)' => (Fresh \/ Remains \/ Rotates)
  BY ServiceMoves DEF ServiceInv
<1>2. /\ KDP!Live(Meeting)' => /\ Current'.born = Conference'.born
                               /\ Current'.e2eMasterKey = Conference'.e2eGroupKey
                               /\ Conference'.born <= clock' /\ Conference'.born \in Nat
  BY DEF ServiceInv, CurrentSane
(* A bundle from before agrees with the conference of now.                   *)
<1>3. ASSUME NEW b \in Handed
      PROVE  /\ b.born <= clock'
             /\ (KDP!Live(Meeting)' /\ b.born = Conference'.born)
                   => b.e2eMasterKey = Conference'.e2eGroupKey
  <2>1. b.born \in Nat /\ b.born <= clock
    BY HandedType DEF HandedOneKey
  <2>2. (KDP!Live(Meeting) /\ b.born = Conference.born)
           => b.e2eMasterKey = Conference.e2eGroupKey
    BY DEF HandedOneKey
  <2>3. ASSUME KDP!Live(Meeting)', b.born = Conference'.born
        PROVE  b.e2eMasterKey = Conference'.e2eGroupKey
    <3>1. ~Fresh
      BY <1>1, <1>2, <2>1, <2>3 DEF Fresh
    <3> QED BY <1>1, <2>2, <2>3, <3>1 DEF Remains, Rotates
  <2> QED BY <1>1, <2>1, <2>3
<1>4. ASSUME NEW b \in Handed'
      PROVE  /\ b.born <= clock'
             /\ (KDP!Live(Meeting)' /\ b.born = Conference'.born)
                   => b.e2eMasterKey = Conference'.e2eGroupKey
  BY <1>2, <1>3, HandedMoves
<1>5. ASSUME NEW a \in Handed', NEW b \in Handed', a.born = b.born
      PROVE  a.e2eMasterKey = b.e2eMasterKey
  <2>1. CASE a \in Handed /\ b \in Handed
    BY <1>5, <2>1 DEF HandedOneKey
  <2>2. CASE a = Current' /\ KDP!Live(Meeting)'
    BY <1>2, <1>4, <1>5, <2>2
  <2>3. CASE b = Current' /\ KDP!Live(Meeting)'
    BY <1>2, <1>4, <1>5, <2>3
  <2> QED BY <2>1, <2>2, <2>3, HandedMoves
<1> QED BY <1>4, <1>5 DEF HandedOneKey

LEMMA ReplyFirstNext ==
    ASSUME ServiceInv, ServiceInv', TypeOK, Progress, ReplyFirst, [Next]_vars
    PROVE  ReplyFirst'
<1> SUFFICES ASSUME NEW e \in Endpoints, reply'[e] # NoBundle
             PROVE  /\ reply'[e].born <= clock'
                    /\ KDP!Live(Meeting)' => KDP!NotNewer(reply'[e], Conference')
                    /\ \A b \in Rekeys(e)' : KDP!Older(reply'[e], b)
  BY DEF ReplyFirst, KDP!NotNewer, KDP!Older
<1>1. /\ clock \in Nat /\ clock' \in Nat /\ clock <= clock'
      /\ KDP!Live(Meeting)' => (Fresh \/ Remains \/ Rotates)
      /\ \/ Rekeys(e)' = Rekeys(e)
         \/ Rotates /\ Rekeys(e)' = Rekeys(e) \cup {Current'}
  BY ServiceMoves DEF ServiceInv
<1>2. KDP!Live(Meeting)' => /\ Current'.born = Conference'.born
                            /\ Current'.kekSpi = Conference'.kekSpi
                            /\ Conference'.born <= clock' /\ Conference'.born \in Nat
                            /\ Conference'.kekSpi \in Nat
  BY DEF ServiceInv, CurrentSane
<1>3. CASE reply'[e] = Current' /\ KDP!Live(Meeting)' /\ Rekeys(e)' = {}
  BY <1>2, <1>3 DEF KDP!NotNewer
<1>4. CASE reply'[e] = reply[e]
  <2> DEFINE r == reply[e]
  <2>1. r \in KD!Bundles
    BY <1>4 DEF TypeOK
  <2>2. r.born \in Nat /\ r.kekSpi \in Nat
    BY <2>1 DEF KD!Bundles
  <2>3. /\ r.born <= clock
        /\ KDP!Live(Meeting) => KDP!NotNewer(r, Conference)
        /\ \A b \in Rekeys(e) : KDP!Older(r, b)
    BY <1>4 DEF ReplyFirst
  <2>4. KDP!Live(Meeting) => Conference.born \in Nat /\ Conference.kekSpi \in Nat
    BY DEF ServiceInv, CurrentSane
  <2> HIDE DEF r
  <2>5. ASSUME KDP!Live(Meeting)'
        PROVE  KDP!NotNewer(r, Conference')
    <3>1. CASE Fresh
      BY <1>1, <1>2, <2>2, <2>3, <2>5, <3>1 DEF Fresh, KDP!NotNewer, KDP!Older
    <3>2. CASE Remains
      BY <2>3, <3>2 DEF Remains, KDP!NotNewer, KDP!Older
    <3>3. CASE Rotates
      BY <1>2, <2>2, <2>3, <2>4, <2>5, <3>3 DEF Rotates, KDP!NotNewer, KDP!Older
    <3> QED BY <1>1, <2>5, <3>1, <3>2, <3>3
  <2>6. Rotates => KDP!Older(r, Current')
    BY <1>2, <2>2, <2>3, <2>4 DEF Rotates, KDP!NotNewer, KDP!Older
  <2> QED BY <1>1, <1>4, <2>2, <2>3, <2>5, <2>6 DEF r
<1> QED BY <1>3, <1>4, ReplyMoves

(* What was read stays where it was; before it is connected a client has     *)
(* nothing to read.                                                          *)
LEMMA ReadStays ==
    ASSUME ServiceInv, TypeOK, Progress, [Next]_vars, NEW e \in Endpoints
    PROVE  /\ read[e] \in Nat
           /\ \A i \in 1..read[e] : i \in DOMAIN sent[e] /\ sent'[e][i] = sent[e][i]
           /\ agent[e] # "connecting" => read[e] = 0
<1>1. /\ read[e] \in Nat /\ read[e] <= Len(sent[e]) /\ sent[e] \in Seq(KDP!Messages)
      /\ socket[e] = KDP!Unused => sent[e] = <<>>
      /\ KDP!Extends(sent[e], sent'[e])
  BY ServiceMoves DEF TypeOK, Inbox, ServiceInv, LogsSane
<1>2. \A i \in 1..read[e] : i \in DOMAIN sent[e]
  BY <1>1
<1>3. agent[e] # "connecting" => socket[e] = KDP!Unused
  BY DEF Progress
<1> QED BY <1>1, <1>2, <1>3 DEF KDP!Extends

LEMMA InstalledNext ==
    ASSUME ServiceInv, ServiceInv', TypeOK, Progress, InstalledWasRead, [Next]_vars
    PROVE  InstalledWasRead'
<1> SUFFICES ASSUME NEW e \in Endpoints, installed'[e] # NoBundle
             PROVE  \/ installed'[e] = reply'[e]
                    \/ \E i \in 1..read'[e] : /\ KDP!IsRekey(sent'[e][i])
                                              /\ installed'[e] = sent'[e][i].bundle
  BY DEF InstalledWasRead, KDP!IsRekey
<1>1. /\ read[e] \in Nat
      /\ \A i \in 1..read[e] : i \in DOMAIN sent[e] /\ sent'[e][i] = sent[e][i]
  BY ReadStays
<1>2. installed[e] # NoBundle =>
         /\ agent[e] = "connecting"
         /\ \/ installed[e] = reply[e]
            \/ \E i \in 1..read[e] : /\ KDP!IsRekey(sent[e][i])
                                     /\ installed[e] = sent[e][i].bundle
  BY DEF InstalledWasRead, Progress
<1>3. CASE Starts(e) \/ Joins(e) \/ Closes(e)
  BY <1>2, <1>3 DEF Starts, Joins, Closes
<1>4. CASE TakesReply(e)
  BY <1>2, <1>4 DEF TakesReply
<1>5. CASE Rests(e)
  BY <1>1, <1>2, <1>5 DEF Rests
<1>6. CASE Reads(e)
  <2>1. /\ reply'[e] = reply[e] /\ read'[e] = read[e] + 1 /\ sent'[e] = sent[e]
        /\ \/ installed'[e] = installed[e]
           \/ /\ KDP!IsRekey(sent[e][read[e] + 1])
              /\ installed'[e] = sent[e][read[e] + 1].bundle
    BY <1>6 DEF Reads, KDP!IsRekey
  <2>2. read[e] + 1 \in 1..read'[e] /\ \A i \in 1..read[e] : i \in 1..read'[e]
    BY <1>1, <2>1
  <2> QED BY <1>2, <2>1, <2>2
<1> QED BY <1>3, <1>4, <1>5, <1>6, ClientMoves

LEMMA ClientInit == Init => ClientInv
<1> SUFFICES ASSUME Init PROVE ClientInv
  OBVIOUS
<1>1. \A e \in Endpoints :
         /\ agent[e] = "idle" /\ reply[e] = NoBundle /\ installed[e] = NoBundle
         /\ socket[e] = KDP!Unused /\ sent[e] = <<>>
  BY SameInit DEF Init, KDP!Init
<1>2. Handed = {}
  BY <1>1 DEF Handed, Rekeys, KDP!RekeyBundles
<1>3. HandedOneKey
  BY <1>2 DEF HandedOneKey
<1>4. ReplyFirst
  BY <1>1 DEF ReplyFirst
<1>5. Progress
  BY <1>1 DEF Progress
<1>6. InstalledWasRead
  BY <1>1 DEF InstalledWasRead
<1> QED BY TypeInit, <1>3, <1>4, <1>5, <1>6 DEF ClientInv

LEMMA ClientNext == ServiceInv /\ ServiceInv' /\ ClientInv /\ [Next]_vars => ClientInv'
<1> SUFFICES ASSUME ServiceInv, ServiceInv', ClientInv, [Next]_vars PROVE ClientInv'
  OBVIOUS
<1> USE DEF ClientInv
<1>1. Progress'
  BY ProgressNext
<1>2. TypeOK'
  BY <1>1, TypeNext
<1>3. HandedOneKey' /\ ReplyFirst' /\ InstalledWasRead'
  BY HandedNext, ReplyFirstNext, InstalledNext
<1> QED BY <1>1, <1>2, <1>3

LEMMA ClientInvariant == Spec => [](ServiceInv /\ ClientInv)
BY ServiceInvariant, ClientInit, ClientNext, PTL DEF Spec

(* Every client's state is well formed: a key is in a peer only, no client   *)
(* reads further than what it was sent, and none is connected without having *)
(* its reply (client.js:421-434, 436-458).                                   *)
THEOREM ClientsTypeCorrect == Spec => []TypeOK
<1>1. ClientInv => TypeOK
  BY DEF ClientInv
<1> QED BY <1>1, ClientInvariant, PTL

(* Whatever replies and rekeys clients hold, missed or still have to read,   *)
(* those of one conference object carry one media key, so that participants  *)
(* can decrypt each other across rotations (conference.js:87-97,             *)
(* keys.js:49-61, client.js:436-458).                                        *)
THEOREM ParticipantsShareMediaKey == Spec => []OneMediaKey
<1>1. ASSUME ServiceInv, ClientInv
      PROVE  OneMediaKey
  <2> SUFFICES ASSUME NEW e \in open, NEW f \in open,
                      installed[e] # NoBundle, installed[f] # NoBundle,
                      installed[e].born = installed[f].born
               PROVE  installed[e].e2eMasterKey = installed[f].e2eMasterKey
    BY DEF OneMediaKey
  <2>1. ASSUME NEW x \in Endpoints, installed[x] # NoBundle
        PROVE  installed[x] \in Handed
    <3>1. CASE installed[x] = reply[x]
      BY <2>1, <3>1 DEF Handed
    <3>2. ASSUME NEW i \in 1..read[x], KDP!IsRekey(sent[x][i]),
                 installed[x] = sent[x][i].bundle
          PROVE  installed[x] \in Handed
      <4>1. /\ read[x] \in Nat /\ read[x] <= Len(sent[x])
            /\ sent[x] \in Seq(KDP!Messages)
        BY <1>1 DEF ClientInv, TypeOK, Inbox, ServiceInv, LogsSane
      <4>2. i \in DOMAIN sent[x]
        BY <4>1
      <4>3. installed[x] \in Rekeys(x)
        BY <3>2, <4>2 DEF Rekeys, KDP!RekeyBundles
      <4> QED BY <4>3 DEF Handed
    <3> QED BY <1>1, <2>1, <3>1, <3>2 DEF ClientInv, InstalledWasRead
  <2>2. e \in Endpoints /\ f \in Endpoints
    BY <1>1 DEF ClientInv, TypeOK
  <2> QED BY <1>1, <2>1, <2>2 DEF ClientInv, HandedOneKey
<1> QED BY <1>1, ClientInvariant, PTL

-----------------------------------------------------------------------------
(* The order of what a client installs.                                      *)

(* The message that e is about to read is newer than all it has.             *)
LEMMA NextRekeyIsNewer ==
    ASSUME ServiceInv, ClientInv, KDP!RekeyInv, NEW e \in Endpoints, Unread(e),
           sent[e][read[e] + 1].type = "rekey"
    PROVE  LET new == sent[e][read[e] + 1].bundle
           IN  /\ \A i \in 1..read[e] :
                     KDP!IsRekey(sent[e][i]) => KDP!Older(sent[e][i].bundle, new)
               /\ installed[e] # NoBundle => KDP!Older(installed[e], new)
<1> DEFINE n == read[e] + 1
           new == sent[e][n].bundle
<1>1. /\ read[e] \in Nat /\ n \in DOMAIN sent[e] /\ KDP!IsRekey(sent[e][n])
      /\ new \in Rekeys(e) /\ \A i \in 1..read[e] : i \in DOMAIN sent[e] /\ i < n
  <2>1. /\ read[e] \in Nat /\ read[e] < Len(sent[e]) /\ sent[e] \in Seq(KDP!Messages)
    BY DEF ClientInv, TypeOK, Unread, Inbox, ServiceInv, LogsSane
  <2>2. n \in DOMAIN sent[e] /\ KDP!IsRekey(sent[e][n])
    BY <2>1 DEF KDP!IsRekey
  <2>3. new \in Rekeys(e)
    BY <2>2 DEF Rekeys, KDP!RekeyBundles
  <2> QED BY <2>1, <2>2, <2>3
<1>2. \A i \in 1..read[e] : KDP!IsRekey(sent[e][i]) => KDP!Older(sent[e][i].bundle, new)
  <2>1. KDP!RekeysInOrder
    BY DEF KDP!RekeyInv
  <2> HIDE DEF n
  <2> QED BY <1>1, <2>1 DEF KDP!RekeysInOrder
<1>3. reply[e] # NoBundle => KDP!Older(reply[e], new)
  BY <1>1 DEF ClientInv, ReplyFirst
<1>4. installed[e] # NoBundle => KDP!Older(installed[e], new)
  <2>1. installed[e] # NoBundle =>
           \/ installed[e] = reply[e]
           \/ \E i \in 1..read[e] : KDP!IsRekey(sent[e][i]) /\ installed[e] = sent[e][i].bundle
    BY DEF ClientInv, InstalledWasRead
  <2> HIDE DEF new
  <2> QED BY <1>2, <1>3, <2>1
<1> QED BY <1>2, <1>4

LEMMA EpochStep ==
    ASSUME ServiceInv, ServiceInv', ClientInv, KDP!RekeyInv, [Next]_vars,
           NEW e \in Endpoints, installed[e] # NoBundle, installed'[e] # NoBundle,
           installed'[e] # installed[e]
    PROVE  KDP!Older(installed[e], installed'[e])
<1>1. /\ TypeOK /\ Progress
      /\ agent[e] = "connecting"
  BY DEF ClientInv, Progress
<1>2. CASE Reads(e)
  <2>1. Unread(e) /\ sent[e][read[e] + 1].type = "rekey"
        /\ installed'[e] = sent[e][read[e] + 1].bundle
    BY <1>2 DEF Reads
  <2> QED BY <2>1, NextRekeyIsNewer
<1>3. ~(Starts(e) \/ Joins(e) \/ TakesReply(e) \/ Closes(e) \/ Rests(e))
  BY <1>1 DEF Starts, Joins, TakesReply, Closes, Rests
<1> QED BY <1>1, <1>2, <1>3, ClientMoves

LEMMA NewestNext ==
    ASSUME ServiceInv, ServiceInv', ClientInv, KDP!RekeyInv, NewestInstalled, [Next]_vars
    PROVE  NewestInstalled'
<1>0. TypeOK /\ Progress
  BY DEF ClientInv
<1> SUFFICES ASSUME NEW e \in open', NEW i \in 1..read'[e], KDP!IsRekey(sent'[e][i])
             PROVE  /\ installed'[e] # NoBundle
                    /\ \/ installed'[e] = sent'[e][i].bundle
                       \/ KDP!Older(sent'[e][i].bundle, installed'[e])
  BY DEF NewestInstalled, KDP!IsRekey, KDP!Older
<1>1. e \in Endpoints
  BY <1>0, ServiceStep, TypeNext, ProgressNext DEF TypeOK
<1>2. /\ read[e] \in Nat
      /\ \A j \in 1..read[e] : j \in DOMAIN sent[e] /\ sent'[e][j] = sent[e][j]
      /\ agent[e] # "connecting" => read[e] = 0
  BY <1>0, <1>1, ReadStays
<1>3. CASE Starts(e) \/ Joins(e) \/ TakesReply(e)
  <2>1. agent[e] # "connecting" /\ read'[e] = read[e]
    BY <1>3 DEF Starts, Joins, TakesReply
  <2> QED BY <1>2, <2>1
<1>4. CASE Closes(e)
  BY <1>4 DEF Closes
<1>5. CASE Rests(e)
  BY <1>2, <1>5 DEF Rests, NewestInstalled
<1>6. CASE Reads(e)
  <2> DEFINE n == read[e] + 1
  <2>1. /\ Unread(e) /\ read'[e] = n /\ sent'[e] = sent[e] /\ e \in open
        /\ sent[e][n].type = "rekey" => installed'[e] = sent[e][n].bundle
        /\ sent[e][n].type # "rekey" => installed'[e] = installed[e]
    BY <1>6 DEF Reads
  <2>2. sent[e][n].type = "rekey" => sent[e][n].bundle # NoBundle
    BY <1>0, <1>1, <2>1, MessageRead, NoBundleAssumption DEF Inbox
  <2>3. CASE i = n
    BY <2>1, <2>2, <2>3 DEF KDP!IsRekey
  <2>4. CASE i \in 1..read[e]
    <3>1. CASE sent[e][n].type = "rekey"
      <4>1. KDP!Older(sent[e][i].bundle, sent[e][n].bundle)
        BY <1>1, <2>1, <2>4, <3>1, NextRekeyIsNewer
      <4> QED BY <2>1, <2>2, <3>1, <4>1
    <3>2. CASE sent[e][n].type # "rekey"
      BY <2>1, <2>4, <3>2 DEF NewestInstalled
    <3> QED BY <3>1, <3>2
  <2>5. i = n \/ i \in 1..read[e]
    BY <1>2, <2>1
  <2> QED BY <2>3, <2>4, <2>5
<1> QED BY <1>0, <1>1, <1>3, <1>4, <1>5, <1>6, ClientMoves

LEMMA NewestInit == Init => NewestInstalled
BY DEF Init, NewestInstalled

LEMMA DeliveryInvariant ==
    ASSUME KD!IdsApart
    PROVE  Spec => [](ServiceInv /\ ClientInv /\ KDP!RekeyInv /\ NewestInstalled)
<1>1. ServiceInv /\ ServiceInv' /\ ClientInv /\ KDP!RekeyInv /\ NewestInstalled /\ [Next]_vars
         => NewestInstalled'
  BY NewestNext
<1> QED BY <1>1, ClientInvariant, OrderInvariant, NewestInit, PTL DEF Spec

(* A client installs whatever comes, and nonetheless never goes back: not to *)
(* the join's reply, not to an older rekey, not to an earlier conference of  *)
(* the same id (client.js:421-430, 436-458, 473-479).                        *)
THEOREM InstalledEpochsGoUp ==
    ASSUME KD!IdsApart
    PROVE  Spec => EpochsGoUp
<1>1. ASSUME ServiceInv, ServiceInv', ClientInv, KDP!RekeyInv, [Next]_vars
      PROVE  [\A e \in Endpoints :
                 (/\ installed[e] # NoBundle /\ installed'[e] # NoBundle
                  /\ installed'[e] # installed[e])
                 => KD!Older(installed[e], installed'[e])]_vars
  BY <1>1, EpochStep, SameNames
<1> QED BY <1>1, DeliveryInvariant, PTL DEF EpochsGoUp, Spec

(* A registered client that has read everything, and had a rekey from this   *)
(* conference, is at the epoch in force, whatever it missed before: nothing  *)
(* later than the last rekey can be current (server.js:382-390,              *)
(* client.js:470-482).                                                       *)
THEOREM ReadersCatchUp ==
    ASSUME KD!IdsApart
    PROVE  Spec => []CaughtUp
<1>1. ASSUME ServiceInv, ClientInv, KDP!RekeyInv, NewestInstalled
      PROVE  CaughtUp
  <2> SUFFICES ASSUME NEW e \in open, Connected(e), Registered(e), ~Unread(e),
                      KD!Live(Meeting),
                      NEW j \in DOMAIN Inbox(e), Inbox(e)[j].type = "rekey",
                      Inbox(e)[j].bundle.born = Conference.born
               PROVE  installed[e] = Current
    BY DEF CaughtUp
  <2>1. /\ e \in Endpoints /\ KDP!Live(Meeting) /\ KDP!IsOpen(e)
        /\ endpointConnections[Meeting \o e] = e /\ e # NoSocket
        /\ Current = KDP!Bundle(Meeting, conferences[Meeting])
    BY <1>1, SameNames DEF ClientInv, TypeOK, Connected, Registered, Current, Conference
  <2>2. Current \in Rekeys(e)
    <3>1. sent[e][j].bundle \in KDP!RekeyBundles(sent[e])
      BY DEF Inbox, KDP!RekeyBundles, KDP!IsRekey
    <3>2. sent[e][j].bundle.born = conferences[Meeting].born
      BY DEF Inbox, Conference
    <3>3. KDP!Bundle(Meeting, conferences[Meeting]) \in KDP!RekeyBundles(sent[e])
      BY <1>1, <2>1, <3>1, <3>2 DEF KDP!RekeyInv, KDP!RekeyedToDate
    <3> QED BY <2>1, <3>3 DEF Rekeys
  <2>3. PICK i \in DOMAIN sent[e] : KDP!IsRekey(sent[e][i]) /\ sent[e][i].bundle = Current
    BY <2>2 DEF Rekeys, KDP!RekeyBundles
  <2>4. /\ read[e] \in Nat /\ read[e] = Len(sent[e]) /\ i \in 1..read[e]
        /\ \A k \in 1..read[e] : k \in DOMAIN sent[e]
    BY <1>1, <2>1, <2>3 DEF ClientInv, TypeOK, Unread, Inbox, ServiceInv, LogsSane
  <2>5. /\ installed[e] # NoBundle
        /\ installed[e] = Current \/ KDP!Older(Current, installed[e])
    BY <1>1, <2>3, <2>4 DEF NewestInstalled
  <2>6. KDP!NotNewer(installed[e], Conference) /\ installed[e] \in KD!Bundles
    <3>1. CASE installed[e] = reply[e]
      BY <1>1, <2>1, <2>5, <3>1 DEF ClientInv, ReplyFirst, TypeOK
    <3>2. ASSUME NEW k \in 1..read[e], KDP!IsRekey(sent[e][k]), installed[e] = sent[e][k].bundle
          PROVE  KDP!NotNewer(installed[e], Conference) /\ installed[e] \in KD!Bundles
      <4>1. installed[e] \in KDP!RekeyBundles(sent[e])
        BY <2>4, <3>2 DEF KDP!RekeyBundles
      <4>2. installed[e] \in KD!Bundles
        BY <1>1, <2>1, <4>1 DEF ServiceInv, LogsSane, Rekeys
      <4>3. installed[e].conf = Meeting
        BY <4>2 DEF KD!Bundles
      <4>4. KDP!NotNewer(installed[e], conferences[installed[e].conf])
        BY <1>1, <2>1, <4>1, <4>3 DEF KDP!RekeyInv, KDP!RekeysOwn
      <4> QED BY <4>2, <4>3, <4>4 DEF Conference
    <3> QED BY <1>1, <2>1, <2>5, <3>1, <3>2 DEF ClientInv, InstalledWasRead
  <2>7. /\ Current.born = Conference.born /\ Current.kekSpi = Conference.kekSpi
        /\ Conference.born \in Nat /\ Conference.kekSpi \in Nat
        /\ installed[e].born \in Nat /\ installed[e].kekSpi \in Nat
    BY <1>1, <2>1, <2>6 DEF ServiceInv, CurrentSane, KD!Bundles
  <2>8. ~KDP!Older(Current, installed[e])
    BY <2>6, <2>7 DEF KDP!Older, KDP!NotNewer
  <2> QED BY <2>5, <2>8
<1> QED BY <1>1, DeliveryInvariant, PTL
=============================================================================
