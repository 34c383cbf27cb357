------------------------ MODULE KeyDistributorProofs ------------------------
(***************************************************************************)
(* Proofs about KeyDistributor, for every set of conferences, endpoints    *)
(* and sockets and every bound on the handlers run.                        *)
(***************************************************************************)
EXTENDS KeyDistributor, TLAPS

-----------------------------------------------------------------------------
(* What the helpers of keys.js and conference.js return.                     *)

(* A conference starts at spi 1, keyed by the handler that made it, empty.   *)
LEMMA NewConferenceFacts ==
    ASSUME NEW n \in Drawn
    PROVE  /\ NewConference(n) \in Conference
           /\ NewConference(n).born = n
           /\ NewConference(n).kek = n
           /\ NewConference(n).kekSpi = 1
           /\ NewConference(n).e2eGroupKey = n
           /\ NewConference(n).endpoints = {}
           /\ NewConference(n).endpointKeys = [e \in Endpoints |-> NoKey]
<1> DEFINE none == [e \in Endpoints |-> NoKey]
           Unkeyed == [born : Nat \ {0}, kek : Nat, kekSpi : Nat,
                       e2eGroupKey : {NoKey}, endpoints : SUBSET Endpoints,
                       endpointKeys : KeyMaps]
           blank == [born |-> n, kek |-> NoKey, kekSpi |-> 0,
                     e2eGroupKey |-> NoKey, endpoints |-> {}, endpointKeys |-> none]
<1>1. none \in KeyMaps
  BY DEF KeyMaps, Secrets, NoKey
<1>2. NewConference(n) = GenerateKek(blank, n)
  BY DEF NewConference
<1> HIDE DEF none
<1>3. blank \in Unkeyed /\ blank.born = n /\ blank.kekSpi = 0
      /\ blank.endpoints = {} /\ blank.endpointKeys = none
  BY <1>1 DEF NoKey, Drawn
<1> HIDE DEF blank
<1>4. GenerateKek(blank, n) =
        [blank EXCEPT !.kek = n, !.kekSpi = 1, !.e2eGroupKey = n]
  BY <1>3 DEF GenerateKek
<1>5. NewConference(n) = [blank EXCEPT !.kek = n, !.kekSpi = 1, !.e2eGroupKey = n]
  BY <1>2, <1>4
<1> HIDE DEF Unkeyed
<1>6.
      /\ NewConference(n).born = n
      /\ NewConference(n).kek = n
      /\ NewConference(n).kekSpi = 1
      /\ NewConference(n).e2eGroupKey = n
      /\ NewConference(n).endpoints = {}
      /\ NewConference(n).endpointKeys = none
  BY <1>3, <1>5 DEF Unkeyed
<1>7. NewConference(n) \in Conference
  <2>1. n \in Nat /\ n \in Drawn /\ 1 \in Nat \ {0}
    BY DEF Drawn
  <2> QED BY <1>3, <1>5, <2>1 DEF Conference, Unkeyed
<1> QED BY <1>6, <1>7 DEF none

(* A rotation replaces the KEK and takes the next spi, and nothing else.     *)
LEMMA GenerateKekFacts ==
    ASSUME NEW conf \in Conference, NEW n \in Drawn
    PROVE  /\ GenerateKek(conf, n) \in Conference
           /\ GenerateKek(conf, n).born = conf.born
           /\ GenerateKek(conf, n).kek = n
           /\ GenerateKek(conf, n).kekSpi = conf.kekSpi + 1
           /\ GenerateKek(conf, n).e2eGroupKey = conf.e2eGroupKey
           /\ GenerateKek(conf, n).endpoints = conf.endpoints
           /\ GenerateKek(conf, n).endpointKeys = conf.endpointKeys
<1>1. conf.e2eGroupKey # NoKey /\ conf.kekSpi + 1 \in Nat \ {0}
  BY DEF Conference, Drawn
<1>2. GenerateKek(conf, n) =
        [conf EXCEPT !.kek = n, !.kekSpi = conf.kekSpi + 1,
                     !.e2eGroupKey = conf.e2eGroupKey]
  BY <1>1 DEF GenerateKek
<1> QED BY <1>1, <1>2 DEF Conference

(* A new endpoint key touches only its own entry.                            *)
LEMMA GenerateEndpointE2eKeyFacts ==
    ASSUME NEW conf \in Conference, NEW e \in Endpoints, NEW n \in Drawn
    PROVE  /\ GenerateEndpointE2eKey(conf, e, n) \in Conference
           /\ GenerateEndpointE2eKey(conf, e, n) =
                 [conf EXCEPT !.endpointKeys = [conf.endpointKeys EXCEPT ![e] = n]]
BY DEF GenerateEndpointE2eKey, Conference, KeyMaps, Secrets, Drawn

(* Joining leaves the epoch alone; the joiner is a member and has a key.     *)
Addition(conf, e, n, new) ==
    /\ new \in Conference
    /\ new.born = conf.born /\ new.kek = conf.kek
    /\ new.kekSpi = conf.kekSpi /\ new.e2eGroupKey = conf.e2eGroupKey
    /\ new.endpoints = conf.endpoints \cup {e}
    /\ new.endpointKeys = IF e \in conf.endpoints THEN conf.endpointKeys
                          ELSE [conf.endpointKeys EXCEPT ![e] = n]

LEMMA AddEndpointFacts ==
    ASSUME NEW conf \in Conference, NEW e \in Endpoints, NEW n \in Drawn
    PROVE  Addition(conf, e, n, AddEndpoint(conf, e, n))
<1> USE DEF Addition
<1>1. CASE e \in conf.endpoints
  BY <1>1 DEF AddEndpoint, Conference
<1>2. CASE e \notin conf.endpoints
  BY <1>2 DEF AddEndpoint, GenerateEndpointE2eKey, Conference, KeyMaps, Secrets, Drawn
<1> QED BY <1>1, <1>2

(* Leaving drops the endpoint and its key, and rotates if anyone is left.    *)
Removal(conf, e, n, new) ==
    /\ new \in Conference
    /\ new.born = conf.born
    /\ new.e2eGroupKey = conf.e2eGroupKey
    /\ new.endpoints = conf.endpoints \ {e}
    /\ new.endpointKeys = [conf.endpointKeys EXCEPT ![e] = NoKey]
    /\ new.endpoints # {} => new.kek = n /\ new.kekSpi = conf.kekSpi + 1

LEMMA RemoveEndpointFacts ==
    ASSUME NEW conf \in Conference, NEW e \in Endpoints, NEW n \in Drawn
    PROVE  Removal(conf, e, n, RemoveEndpoint(conf, e, n))
<1> USE DEF Removal
<1> DEFINE rest == [conf EXCEPT !.endpoints = conf.endpoints \ {e},
                                !.endpointKeys = [conf.endpointKeys EXCEPT ![e] = NoKey]]
<1>1. /\ rest \in Conference
      /\ rest.born = conf.born /\ rest.e2eGroupKey = conf.e2eGroupKey
      /\ rest.kekSpi = conf.kekSpi
      /\ rest.endpoints = conf.endpoints \ {e}
      /\ rest.endpointKeys = [conf.endpointKeys EXCEPT ![e] = NoKey]
  BY DEF Conference, KeyMaps, Secrets, NoKey
<1>2. RemoveEndpoint(conf, e, n) = IF rest.endpoints = {} THEN rest ELSE GenerateKek(rest, n)
  BY DEF RemoveEndpoint
<1> HIDE DEF rest
<1>3. CASE rest.endpoints = {}
  BY <1>1, <1>2, <1>3
<1>4. CASE rest.endpoints # {}
  <2>1. /\ GenerateKek(rest, n) \in Conference
        /\ GenerateKek(rest, n).born = rest.born
        /\ GenerateKek(rest, n).kek = n
        /\ GenerateKek(rest, n).kekSpi = rest.kekSpi + 1
        /\ GenerateKek(rest, n).e2eGroupKey = rest.e2eGroupKey
        /\ GenerateKek(rest, n).endpoints = rest.endpoints
        /\ GenerateKek(rest, n).endpointKeys = rest.endpointKeys
    BY <1>1, GenerateKekFacts
  <2> QED BY <1>1, <1>2, <1>4, <2>1
<1> QED BY <1>3, <1>4

-----------------------------------------------------------------------------
(* What the state's shape gives.                                             *)

(* A conference that is live has all of its fields.                          *)
LEMMA LiveConference ==
    ASSUME TypeOK, NEW c \in Conferences, Live(c)
    PROVE  conferences[c] \in Conference
BY DEF TypeOK, Live, NoConference

(* Join works on the conference that exists, or on a new one.                *)
LEMMA CreatedConferenceFacts ==
    ASSUME TypeOK, NEW c \in Conferences, NEW n \in Drawn
    PROVE  /\ CreatedConference(c, n) \in Conference
           /\ Live(c) => CreatedConference(c, n) = conferences[c]
           /\ ~Live(c) => CreatedConference(c, n) = NewConference(n)
BY LiveConference, NewConferenceFacts DEF CreatedConference

(* The handler that runs draws a secret nobody has.                          *)
LEMMA NowIsDrawn ==
    ASSUME TypeOK
    PROVE  Now \in Drawn /\ Now \in Nat /\ Now > clock
BY DEF TypeOK, Now, Drawn, NoKey

(* A socket that was accepted has the fields of its role.                    *)
LEMMA SocketFacts ==
    ASSUME TypeOK, NEW s \in Sockets, socket[s] # Unused
    PROVE  /\ socket[s].state \in States
           /\ socket[s].role \in {"endpoint", "sfu"}
           /\ socket[s].conf \in Conferences
           /\ socket[s].since \in Nat
           /\ socket[s].role = "endpoint" => socket[s].endpoint \in Endpoints
BY DEF TypeOK, SocketRecords

(* Changing the state of an accepted socket keeps the rest.                  *)
LEMMA SocketStateFacts ==
    ASSUME TypeOK, NEW s \in Sockets, socket[s] # Unused, NEW st \in States
    PROVE  LET r == [socket[s] EXCEPT !.state = st]
           IN  /\ r \in SocketRecords /\ r # Unused
               /\ r.state = st /\ r.role = socket[s].role /\ r.conf = socket[s].conf
               /\ r.since = socket[s].since
               /\ socket[s].role = "endpoint" => r.endpoint = socket[s].endpoint
<1>1. Unused.state = "unused" /\ "unused" \notin States
  BY DEF Unused, States
<1>2. CASE socket[s].role = "endpoint"
  <2>1. socket[s] \in [state : States, role : {"endpoint"}, conf : Conferences,
                       endpoint : Endpoints, since : Nat]
    BY <1>2 DEF TypeOK, SocketRecords
  <2> QED BY <1>1, <2>1 DEF SocketRecords
<1>3. CASE socket[s].role = "sfu"
  <2>1. socket[s] \in [state : States, role : {"sfu"}, conf : Conferences, since : Nat]
    BY <1>3 DEF TypeOK, SocketRecords
  <2> QED BY <1>1, <1>3, <2>1 DEF SocketRecords
<1> QED BY <1>2, <1>3, SocketFacts

(* An open socket has been accepted.                                         *)
LEMMA OpenSocket ==
    ASSUME NEW s \in Sockets, \/ IsOpen(s) \/ socket[s].state = "closing"
    PROVE  socket[s] # Unused
BY DEF IsOpen, Unused

LEMMA KeyIsKey ==
    ASSUME NEW c \in Conferences, NEW e \in Endpoints
    PROVE  c \o e \in Keys
BY DEF Keys

(* Delivering messages leaves each log a sequence of messages.               *)
LEMMA DeliverType ==
    ASSUME NEW log \in [Sockets -> Seq(Messages)], NEW receivers,
           NEW out \in Seq(Messages)
    PROVE  Deliver(log, receivers, out) \in [Sockets -> Seq(Messages)]
BY DEF Deliver

(* A live conference's bundle and its rekey message are well formed.         *)
LEMMA BundleType ==
    ASSUME NEW c \in Conferences, NEW conf \in Conference
    PROVE  Bundle(c, conf) \in Bundles /\ RekeyMessage(c, conf) \in Messages
<1>1. Bundle(c, conf) \in Bundles
  BY DEF Bundle, Bundles, Conference, Secrets, Drawn
<1>2. conf.endpointKeys \in KeyMaps
  BY DEF Conference
<1> QED BY <1>1, <1>2 DEF RekeyMessage, Messages

(* The receivers of a broadcast are sockets that endpoints opened.           *)
LEMMA OwnersAreEndpoints ==
    ASSUME TypeOK, RegisteredOwn, NEW c \in Conferences, NEW x,
           NEW connections \in [Keys -> Sockets \cup {NoSocket}],
           \A k \in Keys : connections[k] \in {endpointConnections[k], NoSocket}
    PROVE  /\ Receivers(connections, c, x) \subseteq Sockets
           /\ Owners(Receivers(connections, c, x)) \subseteq Endpoints
<1>1. ASSUME NEW s \in Receivers(connections, c, x)
      PROVE  s \in Sockets /\ socket[s].endpoint \in Endpoints
  <2>1. s \in Sockets /\ IsOpen(s)
    BY DEF Receivers
  <2>2. PICK k \in Keys : connections[k] = s
    BY DEF Receivers, Addressed
  <2>3. endpointConnections[k] = s /\ s # NoSocket
    BY <2>1, <2>2, NoSocketAssumption
  <2>4. socket[s].role = "endpoint" /\ socket[s] # Unused
    BY <2>3 DEF RegisteredOwn
  <2> QED BY <2>1, <2>4, SocketFacts
<1> QED BY <1>1 DEF Owners

LEMMA IssueType ==
    ASSUME NEW c \in Conferences, NEW conf \in Conference, NEW es \in SUBSET Endpoints
    PROVE  Issue(c, conf, es) \subseteq [to : Endpoints, member : BOOLEAN, bundle : Bundles]
<1>1. ASSUME NEW e \in es
      PROVE  [to |-> e, member |-> e \in conf.endpoints, bundle |-> Bundle(c, conf)]
                \in [to : Endpoints, member : BOOLEAN, bundle : Bundles]
  <2>1. Bundle(c, conf) \in Bundles
    BY BundleType
  <2>2. (e \in conf.endpoints) \in BOOLEAN
    BY SMT
  <2> DEFINE m == e \in conf.endpoints
  <2> HIDE DEF m
  <2>3. m \in BOOLEAN
    BY <2>2, Zenon DEF m
  <2>4. [to |-> e, member |-> m, bundle |-> Bundle(c, conf)]
           \in [to : Endpoints, member : BOOLEAN, bundle : Bundles]
    BY <2>1, <2>3, Zenon
  <2> QED BY <2>4, Zenon DEF m
<1> QED BY <1>1, Zenon DEF Issue

-----------------------------------------------------------------------------
(* Type correctness, with the fact it rests on: a socket is registered under *)
(* its own key.  One lemma per handler.                                      *)

TypeInv == TypeOK /\ RegisteredOwn

LEMMA TypeInit == Init => TypeInv
<1> SUFFICES ASSUME Init PROVE TypeInv
  OBVIOUS
<1>1. TypeOK
  BY DEF Init, TypeOK, SocketRecords, Unused, NoConference
<1>2. RegisteredOwn
  BY DEF Init, RegisteredOwn
<1> QED BY <1>1, <1>2 DEF TypeInv

LEMMA TypeCreate ==
    ASSUME TypeInv, NEW c \in Conferences, CreateConference(c)
    PROVE  TypeInv'
<1>1. TypeOK'
  <2>1. NewConference(Now) \in Conference
    BY NowIsDrawn, NewConferenceFacts DEF TypeInv
  <2>2. conferences' \in [Conferences -> {NoConference} \cup Conference]
    BY <2>1 DEF TypeInv, TypeOK, CreateConference
  <2>3. clock' \in Nat
    BY DEF TypeInv, TypeOK, CreateConference, Tick
  <2> QED BY <2>2, <2>3 DEF TypeInv, TypeOK, CreateConference
<1>2. RegisteredOwn'
  BY DEF TypeInv, RegisteredOwn, CreateConference
<1> QED BY <1>1, <1>2 DEF TypeInv

LEMMA TypeJoin ==
    ASSUME TypeInv, NEW c \in Conferences, NEW e \in Endpoints, Join(c, e)
    PROVE  TypeInv'
<1> DEFINE conf == AddEndpoint(CreatedConference(c, Now), e, Now)
           newMember == [type |-> "new_member", endpointId |-> e,
                         e2eKey |-> conf.endpointKeys[e]]
           joined == [type |-> "endpoint_joined", endpointId |-> e]
<1>1. conf \in Conference
  BY NowIsDrawn, CreatedConferenceFacts, AddEndpointFacts DEF TypeInv, Addition
<1>2. conferences' \in [Conferences -> {NoConference} \cup Conference]
  BY <1>1 DEF TypeInv, TypeOK, Join
<1>3. newMember \in Messages /\ joined \in Messages
  <2>1. conf.endpointKeys[e] \in Secrets
    BY <1>1 DEF Conference, KeyMaps
  <2> HIDE DEF conf
  <2> QED BY <2>1 DEF Messages
<1> HIDE DEF conf, newMember, joined
<1>4. sent' \in [Sockets -> Seq(Messages)]
  <2>1. sent' = Deliver(Deliver(sent, Receivers(endpointConnections, c, e), <<newMember>>),
                        SfuReceivers(sfuConnections, c), <<joined>>)
    BY DEF Join, conf, newMember, joined
  <2>2. <<newMember>> \in Seq(Messages) /\ <<joined>> \in Seq(Messages)
    BY <1>3
  <2> QED BY <2>1, <2>2, DeliverType DEF TypeInv, TypeOK
<1>5. issued' \subseteq [to : Endpoints, member : BOOLEAN, bundle : Bundles]
  <2>1. issued' = issued \cup Issue(c, conf, {e})
    BY DEF Join, conf
  <2> QED BY <1>1, <2>1, IssueType DEF TypeInv, TypeOK
<1>6. clock' \in Nat
  BY DEF TypeInv, TypeOK, Join, Tick
<1>7. UNCHANGED <<endpointConnections, sfuConnections, socket>>
  BY DEF Join
<1>8. TypeOK'
  BY <1>2, <1>4, <1>5, <1>6, <1>7 DEF TypeInv, TypeOK
<1>9. RegisteredOwn'
  BY <1>7 DEF TypeInv, RegisteredOwn
<1> QED BY <1>8, <1>9 DEF TypeInv

LEMMA TypeLeave ==
    ASSUME TypeInv, NEW c \in Conferences, NEW e \in Endpoints, Leave(c, e)
    PROVE  TypeInv'
<1> DEFINE conf == RemoveEndpoint(conferences[c], e, Now)
           removed == conf.endpoints = {}
           connections == [endpointConnections EXCEPT ![c \o e] = NoSocket]
           sfus == IF removed THEN [sfuConnections EXCEPT ![c] = NoSocket] ELSE sfuConnections
           receivers == IF removed THEN {} ELSE Receivers(connections, c, NullId)
           left == [type |-> "endpoint_left", endpointId |-> e]
           toSfu == IF removed THEN <<left>> ELSE <<[type |-> "rekey_notice"], left>>
<1>1. conf \in Conference
  BY NowIsDrawn, LiveConference, RemoveEndpointFacts DEF TypeInv, Leave, Removal
<1>2. conferences' \in [Conferences -> {NoConference} \cup Conference]
  BY <1>1 DEF TypeInv, TypeOK, Leave
<1>3. RekeyMessage(c, conf) \in Messages
  BY <1>1, BundleType
<1>4. toSfu \in Seq(Messages)
  <2>1. left \in Messages /\ [type |-> "rekey_notice"] \in Messages
    BY DEF Messages
  <2> HIDE DEF left, conf
  <2> QED BY <2>1
<1>5. /\ connections \in [Keys -> Sockets \cup {NoSocket}]
      /\ \A k \in Keys : connections[k] \in {endpointConnections[k], NoSocket}
      /\ sfus \in [Conferences -> Sockets \cup {NoSocket}]
      /\ \A d \in Conferences : sfus[d] \in {sfuConnections[d], NoSocket}
  <2> HIDE DEF conf
  <2> QED BY DEF TypeInv, TypeOK
<1> HIDE DEF conf, toSfu, connections, sfus
<1>6. sent' \in [Sockets -> Seq(Messages)]
  <2>1. sent' = Deliver(Deliver(sent, receivers, <<RekeyMessage(c, conf)>>),
                        SfuReceivers(sfus, c), toSfu)
    BY DEF Leave, conf, connections, sfus, toSfu
  <2>2. <<RekeyMessage(c, conf)>> \in Seq(Messages)
    BY <1>3
  <2> QED BY <1>4, <2>1, <2>2, DeliverType DEF TypeInv, TypeOK
<1>7. issued' \subseteq [to : Endpoints, member : BOOLEAN, bundle : Bundles]
  <2>1. issued' = issued \cup Issue(c, conf, Owners(receivers))
    BY DEF Leave, conf, connections
  <2>2. Owners(receivers) \subseteq Endpoints
    BY <1>5, OwnersAreEndpoints DEF TypeInv, Owners
  <2> QED BY <1>1, <2>1, <2>2, IssueType DEF TypeInv, TypeOK
<1>8. /\ endpointConnections' = connections /\ sfuConnections' = sfus
      /\ socket' = socket /\ clock' \in Nat
  BY DEF Leave, Tick, TypeInv, TypeOK, conf, connections, sfus
<1>9. TypeOK'
  BY <1>2, <1>5, <1>6, <1>7, <1>8 DEF TypeInv, TypeOK
<1>10. RegisteredOwn'
  BY <1>5, <1>8 DEF TypeInv, RegisteredOwn
<1> QED BY <1>9, <1>10 DEF TypeInv

LEMMA TypeEndpointConnect ==
    ASSUME TypeInv, NEW s \in Sockets, NEW c \in Conferences, NEW e \in Endpoints,
           EndpointConnect(s, c, e)
    PROVE  TypeInv'
<1> DEFINE r == [state |-> "open", role |-> "endpoint", conf |-> c,
                 endpoint |-> e, since |-> clock]
<1>1. /\ r \in SocketRecords /\ r # Unused
      /\ r.role = "endpoint" /\ r.conf = c /\ r.endpoint = e
  <2>1. r.state = "open" /\ Unused.state = "unused"
    BY DEF Unused
  <2>2. clock \in Nat
    BY DEF TypeInv, TypeOK
  <2> QED BY <2>1, <2>2 DEF SocketRecords, States
<1> HIDE DEF r
<1>2. /\ socket' = [socket EXCEPT ![s] = r]
      /\ endpointConnections' = [endpointConnections EXCEPT ![c \o e] = s]
      /\ UNCHANGED <<conferences, sfuConnections, sent, issued, clock>>
      /\ socket[s] = Unused
  BY DEF EndpointConnect, r
<1>3. TypeOK'
  BY <1>1, <1>2, KeyIsKey DEF TypeInv, TypeOK
<1>4. ASSUME NEW k \in Keys, endpointConnections'[k] # NoSocket
      PROVE  LET q == socket'[endpointConnections'[k]]
             IN  q # Unused /\ q.role = "endpoint" /\ k = q.conf \o q.endpoint
  <2>1. CASE k = c \o e
    <3>1. endpointConnections'[k] = s /\ socket'[s] = r
      BY <1>2, <2>1 DEF TypeInv, TypeOK
    <3> QED BY <1>1, <2>1, <3>1
  <2>2. CASE k # c \o e
    <3>1. endpointConnections'[k] = endpointConnections[k]
      BY <1>2, <2>2 DEF TypeInv, TypeOK
    <3>2. endpointConnections[k] # s
      BY <1>2, <1>4, <3>1 DEF TypeInv, RegisteredOwn
    <3>3. socket'[endpointConnections'[k]] = socket[endpointConnections[k]]
      BY <1>2, <1>4, <3>1, <3>2 DEF TypeInv, TypeOK
    <3> QED BY <1>4, <3>1, <3>3 DEF TypeInv, RegisteredOwn
  <2> QED BY <2>1, <2>2
<1>5. ASSUME NEW d \in Conferences, sfuConnections'[d] # NoSocket
      PROVE  LET q == socket'[sfuConnections'[d]]
             IN  q # Unused /\ q.role = "sfu" /\ d = q.conf
  <2>1. sfuConnections'[d] = sfuConnections[d] /\ sfuConnections[d] # s
    BY <1>2, <1>5 DEF TypeInv, RegisteredOwn
  <2>2. socket'[sfuConnections'[d]] = socket[sfuConnections[d]]
    BY <1>2, <1>5, <2>1 DEF TypeInv, TypeOK
  <2> QED BY <1>5, <2>1, <2>2 DEF TypeInv, RegisteredOwn
<1>6. RegisteredOwn'
  BY <1>4, <1>5 DEF RegisteredOwn
<1> QED BY <1>3, <1>6 DEF TypeInv

LEMMA TypeSfuConnect ==
    ASSUME TypeInv, NEW s \in Sockets, NEW c \in Conferences, SfuConnect(s, c)
    PROVE  TypeInv'
<1> DEFINE r == [state |-> "open", role |-> "sfu", conf |-> c, since |-> clock]
           m == [type |-> "conference_state", endpoints |-> conferences[c].endpoints]
<1>1. /\ r \in SocketRecords /\ r # Unused
      /\ r.role = "sfu" /\ r.conf = c
  <2>1. r.state = "open" /\ Unused.state = "unused"
    BY DEF Unused
  <2>2. clock \in Nat
    BY DEF TypeInv, TypeOK
  <2> QED BY <2>1, <2>2 DEF SocketRecords, States
<1>2. sent' \in [Sockets -> Seq(Messages)]
  <2>1. CASE Live(c)
    <3>1. conferences[c].endpoints \in SUBSET Endpoints
      BY <2>1, LiveConference DEF TypeInv, Conference
    <3>2. m \in Messages
      BY <3>1 DEF Messages
    <3>3. sent' = Deliver(sent, {s}, <<m>>)
      BY <2>1 DEF SfuConnect
    <3> HIDE DEF m
    <3>4. <<m>> \in Seq(Messages)
      BY <3>2
    <3> QED BY <3>3, <3>4, DeliverType DEF TypeInv, TypeOK
  <2>2. CASE ~Live(c)
    BY <2>2 DEF SfuConnect, TypeInv, TypeOK
  <2> QED BY <2>1, <2>2
<1> HIDE DEF r
<1>3. /\ socket' = [socket EXCEPT ![s] = r]
      /\ sfuConnections' = [sfuConnections EXCEPT ![c] = s]
      /\ UNCHANGED <<conferences, endpointConnections, issued, clock>>
      /\ socket[s] = Unused
  BY DEF SfuConnect, r
<1>4. TypeOK'
  BY <1>1, <1>2, <1>3 DEF TypeInv, TypeOK
<1>5. ASSUME NEW k \in Keys, endpointConnections'[k] # NoSocket
      PROVE  LET q == socket'[endpointConnections'[k]]
             IN  q # Unused /\ q.role = "endpoint" /\ k = q.conf \o q.endpoint
  <2>1. endpointConnections'[k] = endpointConnections[k] /\ endpointConnections[k] # s
    BY <1>3, <1>5 DEF TypeInv, RegisteredOwn
  <2>2. socket'[endpointConnections'[k]] = socket[endpointConnections[k]]
    BY <1>3, <1>5, <2>1 DEF TypeInv, TypeOK
  <2> QED BY <1>5, <2>1, <2>2 DEF TypeInv, RegisteredOwn
<1>6. ASSUME NEW d \in Conferences, sfuConnections'[d] # NoSocket
      PROVE  LET q == socket'[sfuConnections'[d]]
             IN  q # Unused /\ q.role = "sfu" /\ d = q.conf
  <2>1. CASE d = c
    <3>1. sfuConnections'[d] = s /\ socket'[s] = r
      BY <1>3, <2>1 DEF TypeInv, TypeOK
    <3> QED BY <1>1, <2>1, <3>1
  <2>2. CASE d # c
    <3>1. sfuConnections'[d] = sfuConnections[d]
      BY <1>3, <2>2 DEF TypeInv, TypeOK
    <3>2. sfuConnections[d] # s
      BY <1>3, <1>6, <3>1 DEF TypeInv, RegisteredOwn
    <3>3. socket'[sfuConnections'[d]] = socket[sfuConnections[d]]
      BY <1>3, <1>6, <3>1, <3>2 DEF TypeInv, TypeOK
    <3> QED BY <1>6, <3>1, <3>3 DEF TypeInv, RegisteredOwn
  <2> QED BY <2>1, <2>2
<1>7. RegisteredOwn'
  BY <1>5, <1>6 DEF RegisteredOwn
<1> QED BY <1>4, <1>7 DEF TypeInv

(* The three steps in which a connection ends.                               *)
LEMMA TypeSocketEnds ==
    ASSUME TypeInv, NEW s \in Sockets,
           Disconnect(s) \/ EndpointClosed(s) \/ SfuClosed(s)
    PROVE  TypeInv'
<1>1. PICK st \in States : socket' = [socket EXCEPT ![s].state = st]
  BY DEF Disconnect, EndpointClosed, SfuClosed, States
<1>2. socket[s] # Unused
  BY OpenSocket DEF Disconnect, EndpointClosed, SfuClosed
<1> DEFINE r == [socket[s] EXCEPT !.state = st]
<1>3. /\ r \in SocketRecords /\ r # Unused
      /\ r.role = socket[s].role /\ r.conf = socket[s].conf
      /\ socket[s].role = "endpoint" => r.endpoint = socket[s].endpoint
  BY <1>2, SocketStateFacts DEF TypeInv
<1>4. /\ UNCHANGED <<conferences, sent, issued, clock>>
      /\ endpointConnections' \in [Keys -> Sockets \cup {NoSocket}]
      /\ \A k \in Keys : endpointConnections'[k] \in {endpointConnections[k], NoSocket}
      /\ sfuConnections' \in [Conferences -> Sockets \cup {NoSocket}]
      /\ \A d \in Conferences : sfuConnections'[d] \in {sfuConnections[d], NoSocket}
  BY DEF TypeInv, TypeOK, Disconnect, EndpointClosed, SfuClosed
<1>5. socket' = [socket EXCEPT ![s] = r]
  BY <1>1 DEF TypeInv, TypeOK
<1> HIDE DEF r
<1>6. TypeOK'
  BY <1>3, <1>4, <1>5 DEF TypeInv, TypeOK
<1>7. ASSUME NEW t \in Sockets, socket[t] # Unused
      PROVE  /\ socket'[t] # Unused /\ socket'[t].role = socket[t].role
             /\ socket'[t].conf = socket[t].conf
             /\ socket[t].role = "endpoint" => socket'[t].endpoint = socket[t].endpoint
  BY <1>3, <1>5, <1>7 DEF TypeInv, TypeOK
<1>8. ASSUME NEW k \in Keys, endpointConnections'[k] # NoSocket
      PROVE  LET q == socket'[endpointConnections'[k]]
             IN  q # Unused /\ q.role = "endpoint" /\ k = q.conf \o q.endpoint
  <2>1. endpointConnections'[k] = endpointConnections[k] /\ endpointConnections[k] \in Sockets
    BY <1>4, <1>8 DEF TypeInv, TypeOK
  <2> DEFINE t == endpointConnections[k]
  <2>2. socket[t] # Unused /\ socket[t].role = "endpoint"
        /\ k = socket[t].conf \o socket[t].endpoint
    BY <1>8, <2>1 DEF TypeInv, RegisteredOwn
  <2>3. socket'[t] # Unused /\ socket'[t].role = "endpoint"
        /\ k = socket'[t].conf \o socket'[t].endpoint
    BY <1>7, <2>1, <2>2
  <2> QED BY <2>1, <2>3
<1>9. ASSUME NEW d \in Conferences, sfuConnections'[d] # NoSocket
      PROVE  LET q == socket'[sfuConnections'[d]]
             IN  q # Unused /\ q.role = "sfu" /\ d = q.conf
  <2>1. sfuConnections'[d] = sfuConnections[d] /\ sfuConnections[d] \in Sockets
    BY <1>4, <1>9 DEF TypeInv, TypeOK
  <2> QED BY <1>7, <1>9, <2>1 DEF TypeInv, RegisteredOwn
<1>10. RegisteredOwn'
  BY <1>8, <1>9 DEF RegisteredOwn
<1> QED BY <1>6, <1>10 DEF TypeInv

LEMMA TypeForwardEktTag ==
    ASSUME TypeInv, NEW s \in Sockets, ForwardEktTag(s)
    PROVE  TypeInv'
<1> DEFINE m == [type |-> "peer_ekt_tag", fromEndpoint |-> socket[s].endpoint]
           receivers == Receivers(endpointConnections, socket[s].conf, socket[s].endpoint)
<1>1. m \in Messages
  <2>1. socket[s].endpoint \in Endpoints
    BY OpenSocket, SocketFacts DEF ForwardEktTag, TypeInv
  <2> QED BY <2>1 DEF Messages
<1>2. /\ sent' = Deliver(sent, receivers, <<m>>)
      /\ UNCHANGED <<conferences, endpointConnections, sfuConnections, socket, issued>>
      /\ clock' \in Nat
  BY DEF ForwardEktTag, Tick, TypeInv, TypeOK
<1> HIDE DEF m, receivers
<1>3. sent' \in [Sockets -> Seq(Messages)]
  <2>1. <<m>> \in Seq(Messages)
    BY <1>1
  <2> QED BY <1>2, <2>1, DeliverType DEF TypeInv, TypeOK
<1> QED BY <1>2, <1>3 DEF TypeInv, TypeOK, RegisteredOwn

LEMMA TypeRequestKeys ==
    ASSUME TypeInv, NEW s \in Sockets, RequestKeys(s)
    PROVE  TypeInv'
<1> DEFINE m == [type |-> "conference_keys", endpoints |-> conferences[socket[s].conf].endpoints]
           receivers == SfuReceivers(sfuConnections, socket[s].conf)
<1>1. m \in Messages
  <2>1. socket[s].conf \in Conferences
    BY OpenSocket, SocketFacts DEF RequestKeys, TypeInv
  <2>2. conferences[socket[s].conf].endpoints \in SUBSET Endpoints
    BY <2>1, LiveConference DEF RequestKeys, TypeInv, Conference
  <2> QED BY <2>2 DEF Messages
<1>2. /\ sent' = Deliver(sent, receivers, <<m>>)
      /\ UNCHANGED <<conferences, endpointConnections, sfuConnections, socket, issued>>
      /\ clock' \in Nat
  BY DEF RequestKeys, Tick, TypeInv, TypeOK
<1> HIDE DEF m, receivers
<1>3. sent' \in [Sockets -> Seq(Messages)]
  <2>1. <<m>> \in Seq(Messages)
    BY <1>1
  <2> QED BY <1>2, <2>1, DeliverType DEF TypeInv, TypeOK
<1> QED BY <1>2, <1>3 DEF TypeInv, TypeOK, RegisteredOwn

(* A requested rotation: what the conference becomes.                        *)
Rotation(conf, e, n, new) ==
    /\ new \in Conference /\ new.born = conf.born
    /\ new.kek = n /\ new.kekSpi = conf.kekSpi + 1
    /\ new.e2eGroupKey = conf.e2eGroupKey
    /\ new.endpoints = conf.endpoints
    /\ new.endpointKeys = IF e \in conf.endpoints
                          THEN [conf.endpointKeys EXCEPT ![e] = n]
                          ELSE conf.endpointKeys

Rotated(conf, e, n) ==
    LET rotated == GenerateKek(conf, n)
    IN  IF e \in rotated.endpoints THEN GenerateEndpointE2eKey(rotated, e, n) ELSE rotated

LEMMA RotatedFacts ==
    ASSUME NEW conf \in Conference, NEW e \in Endpoints, NEW n \in Drawn
    PROVE  Rotation(conf, e, n, Rotated(conf, e, n))
<1> USE DEF Rotation, Rotated
<1> DEFINE rotated == GenerateKek(conf, n)
<1>1. /\ rotated \in Conference /\ rotated.born = conf.born
      /\ rotated.kek = n /\ rotated.kekSpi = conf.kekSpi + 1
      /\ rotated.e2eGroupKey = conf.e2eGroupKey
      /\ rotated.endpoints = conf.endpoints
      /\ rotated.endpointKeys = conf.endpointKeys
  BY GenerateKekFacts
<1> HIDE DEF rotated
<1>2. /\ GenerateEndpointE2eKey(rotated, e, n) \in Conference
      /\ GenerateEndpointE2eKey(rotated, e, n) =
            [rotated EXCEPT !.endpointKeys = [rotated.endpointKeys EXCEPT ![e] = n]]
  BY <1>1, GenerateEndpointE2eKeyFacts
<1>3. CASE e \in conf.endpoints
  BY <1>1, <1>2, <1>3 DEF rotated, Conference
<1>4. CASE e \notin conf.endpoints
  BY <1>1, <1>4 DEF rotated
<1> QED BY <1>3, <1>4

LEMMA TypeRequestRekey ==
    ASSUME TypeInv, NEW s \in Sockets, RequestRekey(s)
    PROVE  TypeInv'
<1> DEFINE c == socket[s].conf
           e == socket[s].endpoint
           conf == Rotated(conferences[c], e, Now)
           receivers == Receivers(endpointConnections, c, NullId)
<1>1. c \in Conferences /\ e \in Endpoints /\ Live(c)
  BY OpenSocket, SocketFacts DEF RequestRekey, TypeInv
<1>2. conf \in Conference
  <2>1. Rotation(conferences[c], e, Now, conf)
    BY <1>1, NowIsDrawn, LiveConference, RotatedFacts DEF TypeInv
  <2> QED BY <2>1 DEF Rotation
<1>3. /\ conferences' = [conferences EXCEPT ![c] = conf]
      /\ sent' = Deliver(sent, receivers, <<RekeyMessage(c, conf)>>)
      /\ issued' = issued \cup Issue(c, conf, Owners(receivers))
      /\ UNCHANGED <<endpointConnections, sfuConnections, socket>>
      /\ clock' \in Nat
  BY DEF RequestRekey, Tick, TypeInv, TypeOK, Rotated
<1>4. Owners(receivers) \subseteq Endpoints
  BY <1>1, OwnersAreEndpoints DEF TypeInv, TypeOK
<1> HIDE DEF c, e, conf, receivers
<1>5. sent' \in [Sockets -> Seq(Messages)]
  <2>1. <<RekeyMessage(c, conf)>> \in Seq(Messages)
    BY <1>1, <1>2, BundleType
  <2> QED BY <1>3, <2>1, DeliverType DEF TypeInv, TypeOK
<1>6. issued' \subseteq [to : Endpoints, member : BOOLEAN, bundle : Bundles]
  BY <1>1, <1>2, <1>3, <1>4, IssueType DEF TypeInv, TypeOK
<1>7. conferences' \in [Conferences -> {NoConference} \cup Conference]
  BY <1>2, <1>3 DEF TypeInv, TypeOK
<1> QED BY <1>3, <1>5, <1>6, <1>7 DEF TypeInv, TypeOK, RegisteredOwn

LEMMA TypeNext == TypeInv /\ [Next]_vars => TypeInv'
<1> SUFFICES ASSUME TypeInv, [Next]_vars PROVE TypeInv'
  OBVIOUS
<1>1. CASE UNCHANGED vars
  BY <1>1 DEF vars, TypeInv, TypeOK, RegisteredOwn
<1>2. ASSUME NEW c \in Conferences, CreateConference(c) PROVE TypeInv'
  BY <1>2, TypeCreate
<1>3. ASSUME NEW c \in Conferences, NEW e \in Endpoints, Join(c, e) PROVE TypeInv'
  BY <1>3, TypeJoin
<1>4. ASSUME NEW c \in Conferences, NEW e \in Endpoints, Leave(c, e) PROVE TypeInv'
  BY <1>4, TypeLeave
<1>5. ASSUME NEW s \in Sockets, NEW c \in Conferences, NEW e \in Endpoints,
             EndpointConnect(s, c, e)
      PROVE  TypeInv'
  BY <1>5, TypeEndpointConnect
<1>6. ASSUME NEW s \in Sockets, NEW c \in Conferences, SfuConnect(s, c) PROVE TypeInv'
  BY <1>6, TypeSfuConnect
<1>7. ASSUME NEW s \in Sockets, Disconnect(s) \/ EndpointClosed(s) \/ SfuClosed(s)
      PROVE  TypeInv'
  BY <1>7, TypeSocketEnds
<1>8. ASSUME NEW s \in Sockets, ForwardEktTag(s) PROVE TypeInv'
  BY <1>8, TypeForwardEktTag
<1>9. ASSUME NEW s \in Sockets, RequestRekey(s) PROVE TypeInv'
  BY <1>9, TypeRequestRekey
<1>10. ASSUME NEW s \in Sockets, RequestKeys(s) PROVE TypeInv'
  BY <1>10, TypeRequestKeys
<1> QED BY <1>1, <1>2, <1>3, <1>4, <1>5, <1>6, <1>7, <1>8, <1>9, <1>10 DEF Next

(* In every reachable state the variables have their types: in particular a  *)
(* conference that can be looked up has a KEK and a group key.               *)
THEOREM TypeCorrect == Spec => []TypeOK
<1>1. Spec => []TypeInv
  BY TypeInit, TypeNext, PTL DEF Spec
<1>2. TypeInv => TypeOK
  BY DEF TypeInv
<1> QED BY <1>1, <1>2, PTL

-----------------------------------------------------------------------------
(* The key material.  A bundle is compared with the conference it came from: *)
(* KeyInv says that what was issued for the current Conference object is of  *)
(* an earlier epoch or exactly what it holds now, and that every secret was  *)
(* drawn by a handler that has run.                                          *)

DrawnBefore ==
    /\ \A c \in Conferences : Live(c) => /\ conferences[c].born <= clock
                                         /\ conferences[c].kek <= clock
    /\ \A r \in issued : r.bundle.born <= clock /\ r.bundle.kek <= clock

IssuedEarlierOrCurrent ==
    \A r \in issued :
        LET c == r.bundle.conf
        IN  (Live(c) /\ r.bundle.born = conferences[c].born) =>
                /\ r.bundle.kekSpi <= conferences[c].kekSpi
                /\ r.bundle.kekSpi = conferences[c].kekSpi
                       => r.bundle = Bundle(c, conferences[c])

KeyInv ==
    /\ KeysMatchMembers
    /\ DrawnBefore
    /\ IssuedEarlierOrCurrent
    /\ SameEpochSameKeys
    /\ DepartedKekRetired

(* The three ways a handler leaves a conference live.                        *)
IsNew(c, conf) ==
    ~Live(c) /\ conf.born = Now /\ conf.kek = Now
IsKept(c, conf) ==
    /\ Live(c)
    /\ Bundle(c, conf) = Bundle(c, conferences[c])
    /\ conferences[c].endpoints \subseteq conf.endpoints
IsRotated(c, conf) ==
    /\ Live(c)
    /\ conf.born = conferences[c].born
    /\ conf.kek = Now
    /\ conf.kekSpi = conferences[c].kekSpi + 1

(* A handler step that leaves c live, as far as key material is concerned.   *)
KeyStep(c, conf, es) ==
    /\ conf \in Conference
    /\ {e \in Endpoints : conf.endpointKeys[e] # NoKey} = conf.endpoints
    /\ IsNew(c, conf) \/ IsKept(c, conf) \/ IsRotated(c, conf)
    /\ conferences' = [conferences EXCEPT ![c] = conf]
    /\ issued' = issued \cup Issue(c, conf, es)
    /\ clock' = Now

LEMMA KeyInit == Init => KeyInv
BY DEF Init, KeyInv, KeysMatchMembers, DrawnBefore, IssuedEarlierOrCurrent,
       SameEpochSameKeys, DepartedKekRetired, Live, NoConference

(* A record of the history that a handler adds.                              *)
LEMMA IssueFacts ==
    ASSUME NEW c \in Conferences, NEW conf \in Conference, NEW es,
           NEW r \in Issue(c, conf, es)
    PROVE  /\ r.bundle = Bundle(c, conf)
           /\ r.bundle.conf = c /\ r.bundle.born = conf.born
           /\ r.bundle.kek = conf.kek /\ r.bundle.kekSpi = conf.kekSpi
           /\ r.member => r.to \in conf.endpoints
<1>1. PICK e \in es : r = [to |-> e, member |-> e \in conf.endpoints,
                           bundle |-> Bundle(c, conf)]
  BY Zenon DEF Issue
<1>2. r.to = e /\ r.bundle = Bundle(c, conf)
  BY <1>1
<1>3. r.member <=> e \in conf.endpoints
  BY <1>1, Zenon
<1>4. /\ Bundle(c, conf).conf = c /\ Bundle(c, conf).born = conf.born
      /\ Bundle(c, conf).kek = conf.kek /\ Bundle(c, conf).kekSpi = conf.kekSpi
  BY DEF Bundle
<1>5. r.member => r.to \in conf.endpoints
  BY <1>2, <1>3
<1> QED BY <1>2, <1>4, <1>5

LEMMA KeyStepKeeps ==
    ASSUME TypeInv, KeyInv, NEW c \in Conferences, NEW conf, NEW es,
           KeyStep(c, conf, es)
    PROVE  KeyInv'
<1> USE DEF KeyStep
<1>1. /\ conf \in Conference /\ Now \in Nat /\ Now > clock
      /\ conf.born \in Nat /\ conf.kek \in Nat /\ conf.kekSpi \in Nat
      /\ Bundle(c, conf).born = conf.born /\ Bundle(c, conf).kek = conf.kek
      /\ Bundle(c, conf).kekSpi = conf.kekSpi /\ Bundle(c, conf).conf = c
  BY NowIsDrawn DEF TypeInv, Conference, Bundle, Drawn
<1>2. /\ conferences'[c] = conf /\ Live(c)'
      /\ \A d \in Conferences \ {c} : conferences'[d] = conferences[d]
      /\ \A d \in Conferences \ {c} : Live(d)' = Live(d)
  <2>1. conferences'[c] = conf
    BY DEF TypeInv, TypeOK
  <2>2. conf.born # 0
    BY DEF Conference
  <2>3. \A d \in Conferences \ {c} : conferences'[d] = conferences[d]
    BY DEF TypeInv, TypeOK
  <2> QED BY <2>1, <2>2, <2>3 DEF Live
<1>3. /\ \A d \in Conferences : Live(d) =>
             /\ conferences[d].born \in Nat /\ conferences[d].kek \in Nat
             /\ conferences[d].kekSpi \in Nat
      /\ \A r \in issued : /\ r.bundle.born \in Nat /\ r.bundle.kek \in Nat
                           /\ r.bundle.kekSpi \in Nat /\ r.bundle.conf \in Conferences
      /\ clock \in Nat
  <2>1. \A d \in Conferences : Live(d) =>
             /\ conferences[d].born \in Nat /\ conferences[d].kek \in Nat
             /\ conferences[d].kekSpi \in Nat
    BY LiveConference DEF TypeInv, Conference, Drawn
  <2>2. \A r \in issued : r.bundle \in Bundles
    BY DEF TypeInv, TypeOK
  <2> QED BY <2>1, <2>2 DEF TypeInv, TypeOK, Bundles, Secrets
<1>4. IsKept(c, conf) => /\ conf.born = conferences[c].born
                         /\ conf.kek = conferences[c].kek
                         /\ conf.kekSpi = conferences[c].kekSpi
  BY DEF IsKept, Bundle
<1>5. \A r \in issued' : r \in issued \/ r \in Issue(c, conf, es)
  OBVIOUS
<1>6. \A r \in Issue(c, conf, es) :
        /\ r.bundle = Bundle(c, conf) /\ r.bundle.conf = c
        /\ r.bundle.born = conf.born /\ r.bundle.kek = conf.kek
        /\ r.bundle.kekSpi = conf.kekSpi
        /\ r.member => r.to \in conf.endpoints
  BY <1>1, IssueFacts
<1>7. conf.born <= Now /\ conf.kek <= Now
  BY <1>1, <1>3, <1>4 DEF IsNew, IsKept, IsRotated, KeyInv, DrawnBefore
<1>8. KeysMatchMembers'
  BY <1>2 DEF KeyInv, KeysMatchMembers, KeyHolders
<1>9. DrawnBefore'
  BY <1>1, <1>2, <1>3, <1>5, <1>6, <1>7 DEF KeyInv, DrawnBefore
(* An older bundle of this Conference object is not newer than conf.         *)
<1>10. ASSUME NEW r \in issued, r.bundle.conf = c, r.bundle.born = conf.born
       PROVE  /\ r.bundle.kekSpi <= conf.kekSpi
              /\ r.bundle.kekSpi = conf.kekSpi => r.bundle = Bundle(c, conf)
  <2>1. CASE IsNew(c, conf)
    BY <1>1, <1>3, <1>10, <2>1 DEF IsNew, KeyInv, DrawnBefore
  <2>2. CASE IsKept(c, conf)
    BY <1>4, <1>10, <2>2 DEF IsKept, KeyInv, IssuedEarlierOrCurrent
  <2>3. CASE IsRotated(c, conf)
    BY <1>3, <1>10, <2>3 DEF IsRotated, KeyInv, IssuedEarlierOrCurrent
  <2> QED BY <2>1, <2>2, <2>3
<1>11. IssuedEarlierOrCurrent'
  <2> SUFFICES ASSUME NEW r \in issued', Live(r.bundle.conf)',
                      r.bundle.born = conferences'[r.bundle.conf].born
               PROVE  LET d == r.bundle.conf
                      IN  /\ r.bundle.kekSpi <= conferences'[d].kekSpi
                          /\ r.bundle.kekSpi = conferences'[d].kekSpi
                                => r.bundle = Bundle(d, conferences'[d])
    BY DEF IssuedEarlierOrCurrent, Bundle
  <2>1. CASE r \in Issue(c, conf, es)
    BY <1>1, <1>2, <1>6, <2>1
  <2>2. CASE r \in issued /\ r.bundle.conf = c
    BY <1>2, <1>10, <2>2
  <2>3. CASE r \in issued /\ r.bundle.conf # c
    BY <1>2, <1>3, <2>3 DEF KeyInv, IssuedEarlierOrCurrent
  <2> QED BY <1>5, <2>1, <2>2, <2>3
<1>12. SameEpochSameKeys'
  <2> SUFFICES ASSUME NEW i \in issued', NEW j \in issued',
                      i.bundle.conf = j.bundle.conf, i.bundle.born = j.bundle.born,
                      i.bundle.kekSpi = j.bundle.kekSpi
               PROVE  i.bundle = j.bundle
    BY DEF SameEpochSameKeys
  <2>1. CASE i \in issued /\ j \in issued
    BY <2>1 DEF KeyInv, SameEpochSameKeys
  <2>2. CASE i \in issued /\ j \in Issue(c, conf, es)
    BY <1>6, <1>10, <2>2
  <2>3. CASE i \in Issue(c, conf, es) /\ j \in issued
    BY <1>6, <1>10, <2>3
  <2>4. CASE i \in Issue(c, conf, es) /\ j \in Issue(c, conf, es)
    BY <1>6, <2>4
  <2> QED BY <1>5, <2>1, <2>2, <2>3, <2>4
<1>13. DepartedKekRetired'
  <2> SUFFICES ASSUME NEW r \in issued', r.member, Live(r.bundle.conf)',
                      conferences'[r.bundle.conf].kek = r.bundle.kek
               PROVE  r.to \in conferences'[r.bundle.conf].endpoints
    BY DEF DepartedKekRetired
  <2>1. CASE r \in Issue(c, conf, es)
    BY <1>2, <1>6, <2>1
  <2>2. CASE r \in issued /\ r.bundle.conf = c
    <3>1. r.bundle.kek # Now
      BY <1>1, <1>3, <2>2 DEF KeyInv, DrawnBefore
    <3>2. IsKept(c, conf)
      BY <1>2, <2>2, <3>1 DEF IsNew, IsRotated
    <3>3. r.to \in conferences[c].endpoints
      BY <1>2, <1>4, <2>2, <3>2 DEF IsKept, KeyInv, DepartedKekRetired
    <3> QED BY <1>2, <2>2, <3>2, <3>3 DEF IsKept
  <2>3. CASE r \in issued /\ r.bundle.conf # c
    BY <1>2, <1>3, <2>3 DEF KeyInv, DepartedKekRetired
  <2> QED BY <1>5, <2>1, <2>2, <2>3
<1> QED BY <1>8, <1>9, <1>11, <1>12, <1>13 DEF KeyInv

(* Handlers and socket events that touch neither conferences nor bundles.    *)
LEMMA KeyUnchanged ==
    ASSUME TypeInv, KeyInv, conferences' = conferences, issued' = issued,
           clock' \in {clock, Now}
    PROVE  KeyInv'
<1>1. /\ \A d \in Conferences : Live(d)' = Live(d)
      /\ clock \in Nat /\ clock' \in Nat /\ clock' >= clock
  BY DEF Live, Now, TypeInv, TypeOK
<1>2. DrawnBefore'
  <2>1. \A d \in Conferences : Live(d) => conferences[d].born \in Nat /\ conferences[d].kek \in Nat
    BY LiveConference DEF TypeInv, Conference, Drawn
  <2>2. \A r \in issued : r.bundle \in Bundles
    BY DEF TypeInv, TypeOK
  <2>3. \A r \in issued : r.bundle.born \in Nat /\ r.bundle.kek \in Nat
    BY <2>2 DEF Bundles, Secrets
  <2> QED BY <1>1, <2>1, <2>3 DEF KeyInv, DrawnBefore
<1>3. KeysMatchMembers' /\ SameEpochSameKeys'
  BY <1>1 DEF KeyInv, KeysMatchMembers, KeyHolders, SameEpochSameKeys
<1>4. IssuedEarlierOrCurrent' /\ DepartedKekRetired'
  BY DEF KeyInv, IssuedEarlierOrCurrent, DepartedKekRetired, Live, Bundle
<1> QED BY <1>2, <1>3, <1>4 DEF KeyInv

LEMMA KeyCreate ==
    ASSUME TypeInv, KeyInv, NEW c \in Conferences, CreateConference(c)
    PROVE  KeyInv'
<1> DEFINE conf == NewConference(Now)
<1>1. /\ conf \in Conference /\ conf.born = Now /\ conf.kek = Now
      /\ conf.endpoints = {} /\ conf.endpointKeys = [e \in Endpoints |-> NoKey]
  BY NowIsDrawn, NewConferenceFacts DEF TypeInv
<1>2. /\ ~Live(c) /\ conferences' = [conferences EXCEPT ![c] = conf]
      /\ issued' = issued \cup Issue(c, conf, {}) /\ clock' = Now
  BY DEF CreateConference, Tick, Now, Issue
<1> HIDE DEF conf
<1>3. KeyStep(c, conf, {})
  BY <1>1, <1>2 DEF KeyStep, IsNew
<1> QED BY <1>3, KeyStepKeeps

LEMMA KeyJoin ==
    ASSUME TypeInv, KeyInv, NEW c \in Conferences, NEW e \in Endpoints, Join(c, e)
    PROVE  KeyInv'
<1> DEFINE was == CreatedConference(c, Now)
           conf == AddEndpoint(was, e, Now)
<1>1. /\ was \in Conference
      /\ Live(c) => was = conferences[c]
      /\ ~Live(c) => was.born = Now /\ was.kek = Now
      /\ {x \in Endpoints : was.endpointKeys[x] # NoKey} = was.endpoints
  <2>1. CASE Live(c)
    BY <2>1, NowIsDrawn, CreatedConferenceFacts
       DEF TypeInv, KeyInv, KeysMatchMembers, KeyHolders
  <2>2. CASE ~Live(c)
    BY <2>2, NowIsDrawn, CreatedConferenceFacts, NewConferenceFacts DEF TypeInv
  <2> QED BY <2>1, <2>2
<1> HIDE DEF was
<1>2. /\ conf \in Conference
      /\ conf.born = was.born /\ conf.kek = was.kek
      /\ conf.kekSpi = was.kekSpi /\ conf.e2eGroupKey = was.e2eGroupKey
      /\ conf.endpoints = was.endpoints \cup {e}
      /\ conf.endpointKeys = IF e \in was.endpoints THEN was.endpointKeys
                             ELSE [was.endpointKeys EXCEPT ![e] = Now]
  <2>1. Addition(was, e, Now, conf)
    BY <1>1, NowIsDrawn, AddEndpointFacts DEF TypeInv
  <2> HIDE DEF conf, was
  <2> QED BY <2>1 DEF Addition
<1>3. /\ conferences' = [conferences EXCEPT ![c] = conf]
      /\ issued' = issued \cup Issue(c, conf, {e}) /\ clock' = Now
  BY DEF Join, Tick, Now, was
<1> HIDE DEF conf
<1>4. {x \in Endpoints : conf.endpointKeys[x] # NoKey} = conf.endpoints
  <2>1. was.endpointKeys \in [Endpoints -> Secrets] /\ Now # NoKey
    BY <1>1, NowIsDrawn DEF Conference, KeyMaps, Drawn, TypeInv
  <2> QED BY <1>1, <1>2, <2>1
<1>5. IsNew(c, conf) \/ IsKept(c, conf)
  <2>1. CASE Live(c)
    BY <1>1, <1>2, <2>1 DEF IsKept, Bundle
  <2>2. CASE ~Live(c)
    BY <1>1, <1>2, <2>2 DEF IsNew
  <2> QED BY <2>1, <2>2
<1>6. KeyStep(c, conf, {e})
  BY <1>2, <1>3, <1>4, <1>5 DEF KeyStep
<1> QED BY <1>6, KeyStepKeeps

LEMMA KeyLeave ==
    ASSUME TypeInv, KeyInv, NEW c \in Conferences, NEW e \in Endpoints, Leave(c, e)
    PROVE  KeyInv'
<1> DEFINE was == conferences[c]
           conf == RemoveEndpoint(was, e, Now)
<1>1. /\ Live(c) /\ was \in Conference
      /\ {x \in Endpoints : was.endpointKeys[x] # NoKey} = was.endpoints
  BY LiveConference DEF Leave, TypeInv, KeyInv, KeysMatchMembers, KeyHolders
<1>2. /\ conf \in Conference
      /\ conf.born = was.born
      /\ conf.endpoints = was.endpoints \ {e}
      /\ conf.endpointKeys = [was.endpointKeys EXCEPT ![e] = NoKey]
      /\ conf.endpoints # {} => conf.kek = Now /\ conf.kekSpi = was.kekSpi + 1
  <2>1. Removal(was, e, Now, conf)
    BY <1>1, NowIsDrawn, RemoveEndpointFacts DEF TypeInv
  <2> HIDE DEF conf, was
  <2> QED BY <2>1 DEF Removal
<1>3. CASE conf.endpoints # {}
  <2>1. PICK es : /\ conferences' = [conferences EXCEPT ![c] = conf]
                  /\ issued' = issued \cup Issue(c, conf, es) /\ clock' = Now
    BY <1>3 DEF Leave, Tick, Now
  <2>2. was.endpointKeys \in [Endpoints -> Secrets]
    BY <1>1 DEF Conference, KeyMaps
  <2> HIDE DEF conf
  <2>3. {x \in Endpoints : conf.endpointKeys[x] # NoKey} = conf.endpoints
    BY <1>1, <1>2, <2>2
  <2>4. IsRotated(c, conf)
    BY <1>1, <1>2, <1>3 DEF IsRotated
  <2>5. KeyStep(c, conf, es)
    BY <1>2, <2>1, <2>3, <2>4 DEF KeyStep
  <2> QED BY <2>5, KeyStepKeeps
<1>4. CASE conf.endpoints = {}
  <2>1. /\ conferences' = [conferences EXCEPT ![c] = NoConference]
        /\ issued' = issued /\ clock' = Now
    BY <1>4 DEF Leave, Tick, Now, Issue, Owners
  <2>2. /\ ~Live(c)'
        /\ \A d \in Conferences \ {c} : conferences'[d] = conferences[d]
        /\ \A d \in Conferences \ {c} : Live(d)' = Live(d)
    BY <2>1 DEF TypeInv, TypeOK, Live, NoConference
  <2>3. /\ \A d \in Conferences : Live(d) => conferences[d].born \in Nat /\ conferences[d].kek \in Nat
        /\ clock \in Nat /\ Now = clock + 1
    BY LiveConference DEF TypeInv, TypeOK, Conference, Drawn, Now
  <2>4. \A r \in issued : r.bundle.born \in Nat /\ r.bundle.kek \in Nat
                         /\ r.bundle.conf \in Conferences
    <3>1. \A r \in issued : r.bundle \in Bundles
      BY DEF TypeInv, TypeOK
    <3> QED BY <3>1 DEF Bundles, Secrets
  <2>5. KeysMatchMembers' /\ SameEpochSameKeys'
    BY <2>1, <2>2 DEF KeyInv, KeysMatchMembers, KeyHolders, SameEpochSameKeys
  <2>6. DrawnBefore'
    BY <2>1, <2>2, <2>3, <2>4 DEF KeyInv, DrawnBefore
  <2>7. IssuedEarlierOrCurrent'
    <3> SUFFICES ASSUME NEW r \in issued, Live(r.bundle.conf)',
                        r.bundle.born = conferences'[r.bundle.conf].born
                 PROVE  LET d == r.bundle.conf
                        IN  /\ r.bundle.kekSpi <= conferences'[d].kekSpi
                            /\ r.bundle.kekSpi = conferences'[d].kekSpi
                                  => r.bundle = Bundle(d, conferences'[d])
      BY <2>1 DEF IssuedEarlierOrCurrent, Bundle
    <3> QED BY <2>2, <2>4 DEF KeyInv, IssuedEarlierOrCurrent
  <2>8. DepartedKekRetired'
    <3> SUFFICES ASSUME NEW r \in issued, r.member, Live(r.bundle.conf)',
                        conferences'[r.bundle.conf].kek = r.bundle.kek
                 PROVE  r.to \in conferences'[r.bundle.conf].endpoints
      BY <2>1 DEF DepartedKekRetired
    <3> QED BY <2>2, <2>4 DEF KeyInv, DepartedKekRetired
  <2> QED BY <2>5, <2>6, <2>7, <2>8 DEF KeyInv
<1> QED BY <1>3, <1>4

LEMMA KeyRequestRekey ==
    ASSUME TypeInv, KeyInv, NEW s \in Sockets, RequestRekey(s)
    PROVE  KeyInv'
<1> DEFINE c == socket[s].conf
           e == socket[s].endpoint
           was == conferences[c]
           conf == Rotated(was, e, Now)
           es == Owners(Receivers(endpointConnections, c, NullId))
<1>1. /\ c \in Conferences /\ e \in Endpoints /\ Live(c) /\ was \in Conference
      /\ {x \in Endpoints : was.endpointKeys[x] # NoKey} = was.endpoints
  BY OpenSocket, SocketFacts, LiveConference
     DEF RequestRekey, TypeInv, KeyInv, KeysMatchMembers, KeyHolders
<1>2. /\ conf \in Conference /\ conf.born = was.born
      /\ conf.kek = Now /\ conf.kekSpi = was.kekSpi + 1
      /\ conf.endpoints = was.endpoints
      /\ conf.endpointKeys = IF e \in was.endpoints
                             THEN [was.endpointKeys EXCEPT ![e] = Now]
                             ELSE was.endpointKeys
  <2>1. Rotation(was, e, Now, conf)
    BY <1>1, NowIsDrawn, RotatedFacts DEF TypeInv
  <2> HIDE DEF conf, was
  <2> QED BY <2>1 DEF Rotation
<1>3. /\ conferences' = [conferences EXCEPT ![c] = conf]
      /\ issued' = issued \cup Issue(c, conf, es) /\ clock' = Now
  BY DEF RequestRekey, Tick, Now, Rotated
<1>4. was.endpointKeys \in [Endpoints -> Secrets] /\ Now # NoKey
  BY <1>1, NowIsDrawn DEF Conference, KeyMaps, Drawn, TypeInv
<1> HIDE DEF conf, es
<1>5. {x \in Endpoints : conf.endpointKeys[x] # NoKey} = conf.endpoints
  BY <1>1, <1>2, <1>4
<1>6. IsRotated(c, conf)
  BY <1>1, <1>2 DEF IsRotated
<1> HIDE DEF c, e
<1>7. KeyStep(c, conf, es)
  BY <1>2, <1>3, <1>5, <1>6 DEF KeyStep
<1> QED BY <1>1, <1>7, KeyStepKeeps

LEMMA KeyNext == TypeInv /\ KeyInv /\ [Next]_vars => KeyInv'
<1> SUFFICES ASSUME TypeInv, KeyInv, [Next]_vars PROVE KeyInv'
  OBVIOUS
<1>1. CASE UNCHANGED vars
  BY <1>1, KeyUnchanged DEF vars
<1>2. ASSUME NEW c \in Conferences, CreateConference(c) PROVE KeyInv'
  BY <1>2, KeyCreate
<1>3. ASSUME NEW c \in Conferences, NEW e \in Endpoints, Join(c, e) PROVE KeyInv'
  BY <1>3, KeyJoin
<1>4. ASSUME NEW c \in Conferences, NEW e \in Endpoints, Leave(c, e) PROVE KeyInv'
  BY <1>4, KeyLeave
<1>5. ASSUME NEW s \in Sockets, RequestRekey(s) PROVE KeyInv'
  BY <1>5, KeyRequestRekey
<1>6. ASSUME NEW s \in Sockets, NEW c \in Conferences, NEW e \in Endpoints,
             EndpointConnect(s, c, e) \/ SfuConnect(s, c)
      PROVE  KeyInv'
  BY <1>6, KeyUnchanged DEF EndpointConnect, SfuConnect
<1>7. ASSUME NEW s \in Sockets, NEW c \in Conferences, SfuConnect(s, c) PROVE KeyInv'
  BY <1>7, KeyUnchanged DEF SfuConnect
<1>8. ASSUME NEW s \in Sockets, Disconnect(s) \/ EndpointClosed(s) \/ SfuClosed(s)
      PROVE  KeyInv'
  BY <1>8, KeyUnchanged DEF Disconnect, EndpointClosed, SfuClosed
<1>9. ASSUME NEW s \in Sockets, ForwardEktTag(s) \/ RequestKeys(s) PROVE KeyInv'
  BY <1>9, KeyUnchanged DEF ForwardEktTag, RequestKeys, Tick, Now
<1> QED BY <1>1, <1>2, <1>3, <1>4, <1>5, <1>6, <1>7, <1>8, <1>9 DEF Next

LEMMA KeyInvariant == Spec => [](TypeInv /\ KeyInv)
BY TypeInit, KeyInit, TypeNext, KeyNext, PTL DEF Spec

(* join never fails to find the key it announces, and allKeys lists exactly  *)
(* the members, however joins, leaves and rekeys interleave.                 *)
THEOREM KeysFollowMembership == Spec => []KeysMatchMembers
BY KeyInvariant, PTL DEF KeyInv

(* kekSpi identifies the key material of a Conference object, in every       *)
(* bundle the distributor ever issues.                                       *)
THEOREM EpochIdentifiesKeys == Spec => []SameEpochSameKeys
BY KeyInvariant, PTL DEF KeyInv

(* A KEK that a member was given stops being the conference's KEK in the     *)
(* handler that lets the member go.                                          *)
THEOREM DepartureRetiresKek == Spec => []DepartedKekRetired
BY KeyInvariant, PTL DEF KeyInv

-----------------------------------------------------------------------------
(* The distributor implements GroupKeying.                                   *)

Groups == [c \in Conferences |-> GroupOf(conferences[c])]

(* A handler that changes one conference changes its group.                  *)
LEMMA GroupStep ==
    ASSUME TypeInv, NEW c \in Conferences, NEW conf \in {NoConference} \cup Conference,
           conferences' = [conferences EXCEPT ![c] = conf]
    PROVE  Groups' = [Groups EXCEPT ![c] = GroupOf(conf)]
BY DEF Groups, TypeInv, TypeOK

(* The group of a live conference, and that of an absent one.                *)
LEMMA GroupOfFacts ==
    ASSUME NEW conf \in Conference
    PROVE  /\ GroupOf(conf).epoch = conf.kekSpi /\ conf.kekSpi # 0
           /\ GroupOf(conf).members = conf.endpoints
           /\ GroupOf(conf) = [epoch |-> conf.kekSpi, members |-> conf.endpoints,
                               mediaKey |-> conf.e2eGroupKey]
BY DEF GroupOf, Conference

LEMMA GroupsFacts ==
    ASSUME TypeInv, NEW c \in Conferences
    PROVE  /\ Groups[c] = GroupOf(conferences[c])
           /\ Live(c) <=> Groups[c].epoch # 0
<1>1. Groups[c] = GroupOf(conferences[c])
  BY DEF Groups
<1>2. CASE Live(c)
  BY <1>1, <1>2, LiveConference, GroupOfFacts DEF TypeInv
<1>3. CASE ~Live(c)
  BY <1>1, <1>3 DEF GroupOf, Live
<1> QED BY <1>1, <1>2, <1>3

LEMMA GroupCreate ==
    ASSUME TypeInv, NEW c \in Conferences, CreateConference(c)
    PROVE  GK!Open(c)
<1> DEFINE new == NewConference(Now)
<1>1. /\ new \in Conference /\ new.kekSpi = 1 /\ new.endpoints = {}
      /\ new.e2eGroupKey = Now
  BY NowIsDrawn, NewConferenceFacts DEF TypeInv
<1>2. ~Live(c) /\ conferences' = [conferences EXCEPT ![c] = new]
  BY DEF CreateConference
<1> HIDE DEF new
<1>3. GroupOf(new) = [epoch |-> 1, members |-> {}, mediaKey |-> Now]
  BY <1>1, GroupOfFacts
<1>4. Groups' = [Groups EXCEPT ![c] = GroupOf(new)]
  BY <1>1, <1>2, GroupStep
<1> QED BY <1>2, <1>3, <1>4, GroupsFacts DEF GK!Open, GK!Opened, GK!IsOpen, Groups, Now

LEMMA GroupJoin ==
    ASSUME TypeInv, NEW c \in Conferences, NEW e \in Endpoints, Join(c, e)
    PROVE  GK!Add(c, e)
<1> DEFINE was == CreatedConference(c, Now)
           conf == AddEndpoint(was, e, Now)
<1>1. /\ was \in Conference /\ Now \in Drawn
      /\ Live(c) => was = conferences[c]
      /\ ~Live(c) => was = NewConference(Now)
  BY NowIsDrawn, CreatedConferenceFacts DEF TypeInv
<1> HIDE DEF was
<1>2. /\ conf \in Conference
      /\ conf.kekSpi = was.kekSpi /\ conf.e2eGroupKey = was.e2eGroupKey
      /\ conf.endpoints = was.endpoints \cup {e}
  <2>1. Addition(was, e, Now, conf)
    BY <1>1, AddEndpointFacts
  <2> HIDE DEF conf, was
  <2> QED BY <2>1 DEF Addition
<1>3. conferences' = [conferences EXCEPT ![c] = conf]
  BY DEF Join, was
<1> HIDE DEF conf
<1>4. Groups' = [Groups EXCEPT ![c] = GroupOf(conf)]
  BY <1>2, <1>3, GroupStep
<1>5. GroupOf(conf) = [epoch |-> was.kekSpi, members |-> was.endpoints \cup {e},
                       mediaKey |-> was.e2eGroupKey]
  BY <1>2, GroupOfFacts
<1>6. CASE Live(c)
  <2>1. Groups[c] = [epoch |-> was.kekSpi, members |-> was.endpoints,
                     mediaKey |-> was.e2eGroupKey]
    BY <1>1, <1>6, GroupsFacts, GroupOfFacts
  <2>2. GroupOf(conf) = [Groups[c] EXCEPT !.members = Groups[c].members \cup {e}]
    BY <1>5, <2>1
  <2>3. Groups' = [Groups EXCEPT ![c] = [Groups[c] EXCEPT !.members = Groups[c].members \cup {e}]]
    BY <1>4, <2>2
  <2>4. Groups[c].epoch # 0
    BY <1>6, GroupsFacts
  <2> QED BY <2>3, <2>4 DEF GK!Add, GK!IsOpen, Groups
<1>7. CASE ~Live(c)
  <2>1. GroupOf(conf) = [epoch |-> 1, members |-> {e}, mediaKey |-> Now]
    BY <1>1, <1>5, <1>7, NewConferenceFacts
  <2>2. Groups[c].epoch = 0
    BY <1>7, GroupsFacts
  <2>3. Groups' = [Groups EXCEPT ![c] = [epoch |-> 1, members |-> {e}, mediaKey |-> Now]]
    BY <1>4, <2>1
  <2> QED BY <2>2, <2>3 DEF GK!Add, GK!Opened, GK!IsOpen, Groups, Now
<1> QED BY <1>6, <1>7

LEMMA GroupLeave ==
    ASSUME TypeInv, NEW c \in Conferences, NEW e \in Endpoints, Leave(c, e)
    PROVE  GK!Remove(c, e)
<1> DEFINE was == conferences[c]
           conf == RemoveEndpoint(was, e, Now)
           new == IF conf.endpoints = {} THEN NoConference ELSE conf
           rest == Groups[c].members \ {e}
<1>1. was \in Conference /\ Now \in Drawn /\ Live(c)
  BY NowIsDrawn, LiveConference DEF TypeInv, Leave
<1>2. conferences' = [conferences EXCEPT ![c] = new]
  BY DEF Leave
<1>3. /\ Groups[c] = [epoch |-> was.kekSpi, members |-> was.endpoints,
                      mediaKey |-> was.e2eGroupKey]
      /\ Groups[c].epoch # 0
  BY <1>1, GroupsFacts, GroupOfFacts
<1> HIDE DEF was
<1>4. /\ conf \in Conference
      /\ conf.e2eGroupKey = was.e2eGroupKey
      /\ conf.endpoints = was.endpoints \ {e}
      /\ conf.endpoints # {} => conf.kekSpi = was.kekSpi + 1
  <2>1. Removal(was, e, Now, conf)
    BY <1>1, RemoveEndpointFacts
  <2> HIDE DEF conf, was
  <2> QED BY <2>1 DEF Removal
<1> HIDE DEF conf
<1>5. Groups' = [Groups EXCEPT ![c] = GroupOf(new)]
  BY <1>2, <1>4, GroupStep
<1> DEFINE next == [epoch |-> Groups[c].epoch + 1, members |-> rest,
                    mediaKey |-> Groups[c].mediaKey]
<1>6. CASE rest = {}
  <2>1. GroupOf(new) = [epoch |-> 0]
    BY <1>3, <1>4, <1>6 DEF GroupOf, NoConference
  <2>2. Groups' = [Groups EXCEPT ![c] = [epoch |-> 0]]
    BY <1>5, <2>1
  <2> QED BY <1>3, <1>6, <2>2 DEF GK!Remove, GK!IsOpen, GK!Closed, Groups
<1>7. CASE rest # {}
  <2>1. new = conf /\ conf.kekSpi = was.kekSpi + 1
    BY <1>3, <1>4, <1>7
  <2>2. GroupOf(new) = [epoch |-> was.kekSpi + 1, members |-> was.endpoints \ {e},
                        mediaKey |-> was.e2eGroupKey]
    BY <1>4, <2>1, GroupOfFacts
  <2>3. GroupOf(new) = next
    BY <1>3, <2>2
  <2>4. Groups' = [Groups EXCEPT ![c] = next]
    BY <1>5, <2>3
  <2> HIDE DEF new
  <2> QED BY <1>3, <1>7, <2>4 DEF GK!Remove, GK!IsOpen, GK!Closed, Groups
<1> QED BY <1>6, <1>7

LEMMA GroupRekey ==
    ASSUME TypeInv, NEW s \in Sockets, RequestRekey(s)
    PROVE  GK!Rotate(socket[s].conf) /\ socket[s].conf \in Conferences
<1> DEFINE c == socket[s].conf
           e == socket[s].endpoint
           was == conferences[c]
           conf == Rotated(was, e, Now)
<1>1. /\ c \in Conferences /\ e \in Endpoints /\ Live(c) /\ was \in Conference
  BY OpenSocket, SocketFacts, LiveConference DEF RequestRekey, TypeInv
<1>2. /\ conf \in Conference /\ conf.kekSpi = was.kekSpi + 1
      /\ conf.e2eGroupKey = was.e2eGroupKey /\ conf.endpoints = was.endpoints
  <2>1. Rotation(was, e, Now, conf)
    BY <1>1, NowIsDrawn, RotatedFacts DEF TypeInv
  <2> HIDE DEF conf, was
  <2> QED BY <2>1 DEF Rotation
<1>3. conferences' = [conferences EXCEPT ![c] = conf]
  BY DEF RequestRekey, Rotated
<1> HIDE DEF conf, c
<1>4. Groups' = [Groups EXCEPT ![c] = GroupOf(conf)]
  BY <1>1, <1>2, <1>3, GroupStep
<1>5. /\ Groups[c] = [epoch |-> was.kekSpi, members |-> was.endpoints,
                      mediaKey |-> was.e2eGroupKey]
      /\ Groups[c].epoch # 0
  BY <1>1, GroupsFacts, GroupOfFacts
<1>6. GroupOf(conf) = [epoch |-> was.kekSpi + 1, members |-> was.endpoints,
                       mediaKey |-> was.e2eGroupKey]
  BY <1>2, GroupOfFacts
<1> HIDE DEF was
<1>7. GroupOf(conf) = [Groups[c] EXCEPT !.epoch = Groups[c].epoch + 1]
  BY <1>5, <1>6
<1>8. Groups' = [Groups EXCEPT ![c] = [Groups[c] EXCEPT !.epoch = Groups[c].epoch + 1]]
  BY <1>4, <1>7
<1>9. GK!Rotate(c)
  BY <1>5, <1>8, <1>1 DEF GK!Rotate, GK!IsOpen, Groups
<1> QED BY <1>1, <1>9 DEF c

LEMMA GroupNext == TypeInv /\ [Next]_vars => [GK!Next]_(GK!gkvars)
<1> SUFFICES ASSUME TypeInv, [Next]_vars PROVE [GK!Next]_(GK!gkvars)
  OBVIOUS
<1>1. CASE UNCHANGED vars
  BY <1>1 DEF vars, GK!gkvars
<1>2. ASSUME NEW c \in Conferences, CreateConference(c) PROVE GK!Next
  BY <1>2, GroupCreate DEF GK!Next, CreateConference, Tick
<1>3. ASSUME NEW c \in Conferences, NEW e \in Endpoints, Join(c, e) PROVE GK!Next
  BY <1>3, GroupJoin DEF GK!Next, Join, Tick
<1>4. ASSUME NEW c \in Conferences, NEW e \in Endpoints, Leave(c, e) PROVE GK!Next
  BY <1>4, GroupLeave DEF GK!Next, Leave, Tick
<1>5. ASSUME NEW s \in Sockets, RequestRekey(s) PROVE GK!Next
  BY <1>5, GroupRekey DEF GK!Next, RequestRekey, Tick
<1>6. ASSUME NEW s \in Sockets, ForwardEktTag(s) \/ RequestKeys(s) PROVE GK!Next
  BY <1>6 DEF GK!Next, ForwardEktTag, RequestKeys, Tick
<1>7. ASSUME NEW s \in Sockets, NEW c \in Conferences, NEW e \in Endpoints,
             EndpointConnect(s, c, e)
      PROVE  UNCHANGED GK!gkvars
  BY <1>7 DEF GK!gkvars, EndpointConnect
<1>8. ASSUME NEW s \in Sockets, NEW c \in Conferences, SfuConnect(s, c)
      PROVE  UNCHANGED GK!gkvars
  BY <1>8 DEF GK!gkvars, SfuConnect
<1>9. ASSUME NEW s \in Sockets, Disconnect(s) \/ EndpointClosed(s) \/ SfuClosed(s)
      PROVE  UNCHANGED GK!gkvars
  BY <1>9 DEF GK!gkvars, Disconnect, EndpointClosed, SfuClosed
<1> QED BY <1>1, <1>2, <1>3, <1>4, <1>5, <1>6, <1>7, <1>8, <1>9 DEF Next

(* Seen from outside, the distributor only opens, extends, shrinks, rotates  *)
(* and closes groups as GroupKeying says: a join never changes the epoch, a  *)
(* departure that leaves someone behind always does, the media key never     *)
(* changes while the group is open and is new when it opens.  So the         *)
(* documents that let a join rotate the KEK, or a rotation renew the media   *)
(* key, do not describe this code (MembershipChangeRekeys).                  *)
THEOREM DistributorImplementsGroupKeying == Spec => ImplementsGroupKeying
<1>1. Init => GK!Init
  BY DEF Init, GK!Init, GroupOf, NoConference, GK!Closed
<1> QED BY <1>1, TypeInit, TypeNext, GroupNext, PTL DEF Spec, ImplementsGroupKeying, GK!Spec
=============================================================================
