--------------------- MODULE KeyDistributorMessageProofs ---------------------
(***************************************************************************)
(* Proofs about what KeyDistributor writes to its sockets: the order of    *)
(* rekeys, who is told of a rotation, and what the SFU and the endpoints   *)
(* learn.  A log is what was sent to one socket.                           *)
(***************************************************************************)
EXTENDS KeyDistributorProofs, SequenceTheorems

-----------------------------------------------------------------------------
(* Ids.                                                                      *)

LEMMA Pair ==
    ASSUME NEW p, NEW q
    PROVE  <<p>> \o <<q>> = <<p, q>>
<1> DEFINE S == {p, q}
<1>1. <<p>> \in Seq(S) /\ <<q>> \in Seq(S) /\ <<p, q>> \in Seq(S)
  OBVIOUS
<1>2. /\ Len(<<p>>) = 1 /\ Len(<<q>>) = 1 /\ Len(<<p, q>>) = 2
      /\ <<p>>[1] = p /\ <<q>>[1] = q /\ <<p, q>>[1] = p /\ <<p, q>>[2] = q
  OBVIOUS
<1> HIDE DEF S
<1>3. /\ <<p>> \o <<q>> \in Seq(S) /\ Len(<<p>> \o <<q>>) = 2
      /\ \A i \in 1..2 : (<<p>> \o <<q>>)[i] = IF i <= 1 THEN <<p>>[i] ELSE <<q>>[i - 1]
  BY <1>1, <1>2, ConcatProperties
<1>4. (<<p>> \o <<q>>)[1] = p /\ (<<p>> \o <<q>>)[2] = q
  BY <1>2, <1>3
<1>5. \A i \in 1..2 : (<<p>> \o <<q>>)[i] = <<p, q>>[i]
  BY <1>2, <1>4
<1> QED BY <1>1, <1>2, <1>3, <1>5, SeqEqual

LEMMA FirstPart ==
    ASSUME NEW S, NEW t \in Seq(S), Len(t) >= 1
    PROVE  SubSeq(t, 1, 1) = <<t[1]>>
<1>1. /\ SubSeq(t, 1, 1) \in Seq(S) /\ Len(SubSeq(t, 1, 1)) = 1
      /\ \A i \in 1..1 : SubSeq(t, 1, 1)[i] = t[1 + i - 1]
  BY SubSeqProperties
<1>2. <<t[1]>> \in Seq(S) /\ Len(<<t[1]>>) = 1 /\ <<t[1]>>[1] = t[1]
  OBVIOUS
<1>3. \A i \in 1..1 : SubSeq(t, 1, 1)[i] = <<t[1]>>[i]
  BY <1>1, <1>2
<1> QED BY <1>1, <1>2, <1>3, SeqEqual

(* Ids without a colon are apart, as the theorems on broadcasts ask.         *)
LEMMA OnePartIds ==
    ASSUME NullId \notin Endpoints,
           \A c \in Conferences : \E p : c = <<p>>,
           \A x \in Endpoints \cup {NullId} : \E p : x = <<p>>
    PROVE  IdsApart
<1>1. ASSUME NEW p, NEW q, NEW r
      PROVE  /\ IsStrictPrefix(<<r>>, <<p>> \o <<q>>) <=> r = p
             /\ IsStrictSuffix(<<r>>, <<p>> \o <<q>>) <=> r = q
  <2>1. /\ <<p, q>> \in Seq({p, q}) /\ <<q, p>> \in Seq({p, q}) /\ <<r>> \in Seq({r})
        /\ Len(<<p, q>>) = 2 /\ Len(<<q, p>>) = 2 /\ Len(<<r>>) = 1
        /\ <<p, q>>[1] = p /\ <<q, p>>[1] = q /\ <<r>>[1] = r
    OBVIOUS
  <2>2. /\ SubSeq(<<r>>, 1, 1) = <<<<r>>[1]>>
        /\ SubSeq(<<p, q>>, 1, 1) = <<<<p, q>>[1]>>
        /\ SubSeq(<<q, p>>, 1, 1) = <<<<q, p>>[1]>>
    <3>1. 2 >= 1 /\ 1 >= 1
      OBVIOUS
    <3> QED BY <2>1, <3>1, FirstPart, Zenon
  <2>3. /\ Reverse(<<p, q>>) = <<q, p>> /\ Reverse(<<r>>) = <<r>>
        /\ <<r>> # <<p, q>>
    BY DEF Reverse
  <2>4. /\ <<r>> = <<p>> <=> r = p
        /\ <<r>> = <<q>> <=> r = q
    OBVIOUS
  <2>5. IsStrictPrefix(<<r>>, <<p, q>>) <=> r = p
    BY <2>1, <2>2, <2>3, <2>4 DEF IsStrictPrefix, IsPrefix
  <2>6. IsStrictSuffix(<<r>>, <<p, q>>) <=> r = q
    BY <2>1, <2>2, <2>3, <2>4 DEF IsStrictSuffix, IsSuffix, IsPrefix
  <2> QED BY <2>5, <2>6, Pair
<1>2. ASSUME NEW c \in Conferences, NEW d \in Conferences, NEW e \in Endpoints
      PROVE  IsStrictPrefix(d, c \o e) <=> d = c
  <2>1. PICK p, q, r : c = <<p>> /\ e = <<q>> /\ d = <<r>>
    OBVIOUS
  <2> QED BY <1>1, <2>1
<1>3. ASSUME NEW c \in Conferences, NEW e \in Endpoints, NEW x \in Endpoints \cup {NullId}
      PROVE  IsStrictSuffix(x, c \o e) <=> x = e
  <2>1. PICK p, q, r : c = <<p>> /\ e = <<q>> /\ x = <<r>>
    OBVIOUS
  <2> QED BY <1>1, <2>1
<1> QED BY <1>2, <1>3 DEF IdsApart

-----------------------------------------------------------------------------
(* Logs.                                                                     *)

LEMMA Appended ==
    ASSUME NEW log \in Seq(Messages), NEW m \in Messages
    PROVE  /\ log \o <<m>> = Append(log, m)
           /\ Append(log, m) \in Seq(Messages)
           /\ DOMAIN Append(log, m) = DOMAIN log \cup {Len(log) + 1}
           /\ Append(log, m)[Len(log) + 1] = m
           /\ \A i \in DOMAIN log : Append(log, m)[i] = log[i]
           /\ \A i \in DOMAIN log : i \in Nat /\ i < Len(log) + 1
           /\ Len(log) \in Nat
OBVIOUS

LEMMA AppendedTwo ==
    ASSUME NEW log \in Seq(Messages), NEW m \in Messages, NEW n \in Messages
    PROVE  log \o <<m, n>> = Append(Append(log, m), n)
OBVIOUS

(* The bundles of a log's rekeys, and that their epochs only go up.          *)
RekeyBundles(log) == {log[i].bundle : i \in {j \in DOMAIN log : IsRekey(log[j])}}
InOrder(log) ==
    \A i, j \in DOMAIN log :
        (i < j /\ IsRekey(log[i]) /\ IsRekey(log[j])) => Older(log[i].bundle, log[j].bundle)

LEMMA RekeyBundlesAppend ==
    ASSUME NEW log \in Seq(Messages), NEW m \in Messages
    PROVE  /\ IsRekey(m) => RekeyBundles(Append(log, m)) = RekeyBundles(log) \cup {m.bundle}
           /\ ~IsRekey(m) => RekeyBundles(Append(log, m)) = RekeyBundles(log)
<1> DEFINE new == Append(log, m)
           last == Len(log) + 1
<1>1. /\ DOMAIN new = DOMAIN log \cup {last} /\ new[last] = m
      /\ \A i \in DOMAIN log : new[i] = log[i]
  BY Appended
<1> HIDE DEF new, last
<1>2. /\ IsRekey(m) => RekeyBundles(new) = RekeyBundles(log) \cup {m.bundle}
      /\ ~IsRekey(m) => RekeyBundles(new) = RekeyBundles(log)
  BY <1>1 DEF RekeyBundles
<1> QED BY <1>2 DEF new

LEMMA InOrderAppend ==
    ASSUME NEW log \in Seq(Messages), NEW m \in Messages, InOrder(log),
           IsRekey(m) => \A b \in RekeyBundles(log) : Older(b, m.bundle)
    PROVE  InOrder(Append(log, m))
<1> DEFINE new == Append(log, m)
           last == Len(log) + 1
<1>1. /\ DOMAIN new = DOMAIN log \cup {last} /\ new[last] = m
      /\ \A i \in DOMAIN log : new[i] = log[i] /\ i \in Nat /\ i < last
      /\ last \in Nat
  BY Appended
<1> HIDE DEF new, last
<1> SUFFICES ASSUME NEW i \in DOMAIN new, NEW j \in DOMAIN new, i < j,
                    IsRekey(new[i]), IsRekey(new[j])
             PROVE  Older(new[i].bundle, new[j].bundle)
  BY DEF InOrder, new
<1>2. i \in DOMAIN log
  BY <1>1
<1>3. CASE j \in DOMAIN log
  BY <1>1, <1>2, <1>3 DEF InOrder
<1>4. CASE j = last
  <2>1. log[i].bundle \in RekeyBundles(log)
    BY <1>1, <1>2 DEF RekeyBundles
  <2> QED BY <1>1, <1>2, <1>4, <2>1
<1> QED BY <1>1, <1>3, <1>4

LEMMA KnowsKeyAppend ==
    ASSUME NEW log \in Seq(Messages), NEW m \in Messages, NEW x, NEW key
    PROVE  /\ TellsKeyOf(m, x) /\ KeyTold(m, x) = key => KnowsKey(Append(log, m), x, key)
           /\ ~TellsKeyOf(m, x) /\ KnowsKey(log, x, key) => KnowsKey(Append(log, m), x, key)
<1> DEFINE new == Append(log, m)
           last == Len(log) + 1
<1>1. /\ DOMAIN new = DOMAIN log \cup {last} /\ new[last] = m
      /\ \A i \in DOMAIN log : new[i] = log[i] /\ i \in Nat /\ i < last
      /\ last \in Nat
  BY Appended
<1> HIDE DEF new, last
<1>2. ASSUME TellsKeyOf(m, x), KeyTold(m, x) = key
      PROVE  KnowsKey(new, x, key)
  BY <1>1, <1>2 DEF KnowsKey
<1>3. ASSUME ~TellsKeyOf(m, x), KnowsKey(log, x, key)
      PROVE  KnowsKey(new, x, key)
  <2>1. PICK i \in DOMAIN log : /\ TellsKeyOf(log[i], x) /\ KeyTold(log[i], x) = key
                                /\ \A j \in DOMAIN log : j > i => ~TellsKeyOf(log[j], x)
    BY <1>3 DEF KnowsKey
  <2> QED BY <1>1, <1>3, <2>1 DEF KnowsKey
<1> QED BY <1>2, <1>3 DEF new

(* The SFU's view, message by message.                                       *)
LEMMA SfuViewAppend ==
    ASSUME NEW log \in Seq(Messages), NEW m \in Messages
    PROVE  \A e \in Endpoints :
              e \in SfuViewOf(Append(log, m)) <=>
                 \/ TellsItIsThere(m, e)
                 \/ ~TellsWhetherThere(m, e) /\ e \in SfuViewOf(log)
<1> DEFINE new == Append(log, m)
           last == Len(log) + 1
<1>1. /\ DOMAIN new = DOMAIN log \cup {last} /\ new[last] = m
      /\ \A i \in DOMAIN log : new[i] = log[i] /\ i \in Nat /\ i < last
      /\ last \in Nat
  BY Appended
<1> HIDE DEF new, last
<1> SUFFICES ASSUME NEW e \in Endpoints
             PROVE  e \in SfuViewOf(new) <=>
                       \/ TellsItIsThere(m, e)
                       \/ ~TellsWhetherThere(m, e) /\ e \in SfuViewOf(log)
  BY DEF new
<1>2. ASSUME e \in SfuViewOf(new), ~TellsItIsThere(m, e)
      PROVE  ~TellsWhetherThere(m, e) /\ e \in SfuViewOf(log)
  <2>1. PICK i \in DOMAIN new : /\ TellsItIsThere(new[i], e)
                                /\ \A j \in DOMAIN new : j > i => ~TellsWhetherThere(new[j], e)
    BY <1>2 DEF SfuViewOf
  <2> QED BY <1>1, <1>2, <2>1 DEF SfuViewOf
<1>3. ASSUME TellsItIsThere(m, e)
      PROVE  e \in SfuViewOf(new)
  BY <1>1, <1>3 DEF SfuViewOf
<1>4. ASSUME ~TellsWhetherThere(m, e), e \in SfuViewOf(log)
      PROVE  e \in SfuViewOf(new)
  <2>1. PICK i \in DOMAIN log : /\ TellsItIsThere(log[i], e)
                                /\ \A j \in DOMAIN log : j > i => ~TellsWhetherThere(log[j], e)
    BY <1>4 DEF SfuViewOf
  <2> QED BY <1>1, <1>4, <2>1 DEF SfuViewOf
<1> QED BY <1>2, <1>3, <1>4

(* A message that is not about membership leaves the view as it is.          *)
LEMMA SfuViewKept ==
    ASSUME NEW log \in Seq(Messages), NEW m \in Messages,
           m.type \in {"rekey", "new_member", "peer_ekt_tag", "rekey_notice"}
    PROVE  SfuViewOf(Append(log, m)) = SfuViewOf(log)
<1>1. \A e \in Endpoints : ~TellsWhetherThere(m, e) /\ ~TellsItIsThere(m, e)
  BY DEF TellsWhetherThere, TellsItIsThere
<1>2. \A e \in Endpoints : e \in SfuViewOf(Append(log, m)) <=> e \in SfuViewOf(log)
  BY <1>1, SfuViewAppend
<1>3. SfuViewOf(Append(log, m)) \subseteq Endpoints /\ SfuViewOf(log) \subseteq Endpoints
  BY DEF SfuViewOf
<1> QED BY <1>2, <1>3

LEMMA SfuViewMoves ==
    ASSUME NEW log \in Seq(Messages), NEW m \in Messages
    PROVE  /\ m.type \in {"conference_state", "conference_keys"}
                 => SfuViewOf(Append(log, m)) = m.endpoints
           /\ m.type = "endpoint_joined"
                 => SfuViewOf(Append(log, m)) = SfuViewOf(log) \cup {m.endpointId}
           /\ m.type = "endpoint_left"
                 => SfuViewOf(Append(log, m)) = SfuViewOf(log) \ {m.endpointId}
<1>1. SfuViewOf(Append(log, m)) \subseteq Endpoints /\ SfuViewOf(log) \subseteq Endpoints
  BY DEF SfuViewOf
<1>2. /\ m.type \in {"conference_state", "conference_keys"} => m.endpoints \subseteq Endpoints
      /\ m.type \in {"endpoint_joined", "endpoint_left"} => m.endpointId \in Endpoints
  BY DEF Messages
<1>3. \A e \in Endpoints :
         e \in SfuViewOf(Append(log, m)) <=>
            \/ TellsItIsThere(m, e)
            \/ ~TellsWhetherThere(m, e) /\ e \in SfuViewOf(log)
  BY SfuViewAppend
<1>4. ASSUME m.type \in {"conference_state", "conference_keys"}
      PROVE  SfuViewOf(Append(log, m)) = m.endpoints
  BY <1>1, <1>2, <1>3, <1>4 DEF TellsWhetherThere, TellsItIsThere
<1>5. ASSUME m.type = "endpoint_joined"
      PROVE  SfuViewOf(Append(log, m)) = SfuViewOf(log) \cup {m.endpointId}
  BY <1>1, <1>2, <1>3, <1>5 DEF TellsWhetherThere, TellsItIsThere
<1>6. ASSUME m.type = "endpoint_left"
      PROVE  SfuViewOf(Append(log, m)) = SfuViewOf(log) \ {m.endpointId}
  BY <1>1, <1>2, <1>3, <1>6 DEF TellsWhetherThere, TellsItIsThere
<1> QED BY <1>4, <1>5, <1>6

-----------------------------------------------------------------------------
(* What each handler appends to each log.                                    *)

Told(log, s, receivers, m) == IF s \in receivers THEN Append(log, m) ELSE log

LEMMA ToldType ==
    ASSUME NEW log \in Seq(Messages), NEW s, NEW receivers, NEW m \in Messages
    PROVE  Told(log, s, receivers, m) \in Seq(Messages)
BY Appended DEF Told

(* What Deliver does to one log.                                             *)
LEMMA Delivered ==
    ASSUME NEW logs \in [Sockets -> Seq(Messages)], NEW receivers, NEW m \in Messages
    PROVE  /\ Deliver(logs, receivers, <<m>>) \in [Sockets -> Seq(Messages)]
           /\ \A s \in Sockets :
                 Deliver(logs, receivers, <<m>>)[s] = Told(logs[s], s, receivers, m)
<1>1. ASSUME NEW s \in Sockets
      PROVE  /\ Deliver(logs, receivers, <<m>>)[s] = Told(logs[s], s, receivers, m)
             /\ Told(logs[s], s, receivers, m) \in Seq(Messages)
  <2>1. logs[s] \in Seq(Messages)
    OBVIOUS
  <2> QED BY <2>1, Appended, ToldType DEF Deliver, Told
<1>2. Deliver(logs, receivers, <<m>>)
         = [s \in Sockets |-> Deliver(logs, receivers, <<m>>)[s]]
  BY DEF Deliver
<1> QED BY <1>1, <1>2

LEMMA SentType ==
    ASSUME TypeInv
    PROVE  sent \in [Sockets -> Seq(Messages)] /\ \A s \in Sockets : sent[s] \in Seq(Messages)
BY DEF TypeInv, TypeOK

NewMember(e, conf) == [type |-> "new_member", endpointId |-> e, e2eKey |-> conf.endpointKeys[e]]
Joined(e) == [type |-> "endpoint_joined", endpointId |-> e]
LeftMessage(e) == [type |-> "endpoint_left", endpointId |-> e]
Notice == [type |-> "rekey_notice"]

LEMMA MessageTypes ==
    ASSUME NEW e \in Endpoints, NEW conf \in Conference, NEW c \in Conferences
    PROVE  /\ NewMember(e, conf) \in Messages /\ Joined(e) \in Messages
           /\ LeftMessage(e) \in Messages /\ Notice \in Messages
           /\ RekeyMessage(c, conf) \in Messages
<1>1. conf.endpointKeys[e] \in Secrets
  BY DEF Conference, KeyMaps
<1>2. NewMember(e, conf) \in Messages
  BY <1>1 DEF NewMember, Messages
<1>3. Joined(e) \in Messages /\ LeftMessage(e) \in Messages /\ Notice \in Messages
  BY DEF Joined, LeftMessage, Notice, Messages
<1> QED BY <1>2, <1>3, BundleType

LEMMA JoinLogs ==
    ASSUME TypeInv, NEW c \in Conferences, NEW e \in Endpoints, Join(c, e),
           NEW conf, conf = AddEndpoint(CreatedConference(c, Now), e, Now)
    PROVE  /\ conf \in Conference
           /\ conferences' = [conferences EXCEPT ![c] = conf]
           /\ \A s \in Sockets :
                 sent'[s] = Told(Told(sent[s], s, Receivers(endpointConnections, c, e),
                                      NewMember(e, conf)),
                                 s, SfuReceivers(sfuConnections, c), Joined(e))
<1>1. conf \in Conference
  BY NowIsDrawn, CreatedConferenceFacts, AddEndpointFacts DEF TypeInv, Addition
<1> DEFINE R == Receivers(endpointConnections, c, e)
           F == SfuReceivers(sfuConnections, c)
<1>2. /\ sent' = Deliver(Deliver(sent, R, <<NewMember(e, conf)>>), F, <<Joined(e)>>)
      /\ conferences' = [conferences EXCEPT ![c] = conf]
  BY DEF Join, NewMember, Joined
<1> HIDE DEF R, F
<1> DEFINE first == Deliver(sent, R, <<NewMember(e, conf)>>)
<1>3. /\ first \in [Sockets -> Seq(Messages)]
      /\ \A s \in Sockets : first[s] = Told(sent[s], s, R, NewMember(e, conf))
  BY <1>1, MessageTypes, SentType, Delivered
<1> HIDE DEF first
<1>4. \A s \in Sockets : Deliver(first, F, <<Joined(e)>>)[s] = Told(first[s], s, F, Joined(e))
  BY <1>1, <1>3, MessageTypes, Delivered
<1> QED BY <1>1, <1>2, <1>3, <1>4 DEF first, R, F

(* The last one out: nobody is told.                                         *)
LEMMA LeaveLastLogs ==
    ASSUME TypeInv, NEW c \in Conferences, NEW e \in Endpoints, Leave(c, e),
           NEW conf, conf = RemoveEndpoint(conferences[c], e, Now), conf.endpoints = {}
    PROVE  /\ conferences' = [conferences EXCEPT ![c] = NoConference]
           /\ sfuConnections' = [sfuConnections EXCEPT ![c] = NoSocket]
           /\ sent' = sent
<1>1. /\ conferences' = [conferences EXCEPT ![c] = NoConference]
      /\ sfuConnections' = [sfuConnections EXCEPT ![c] = NoSocket]
      /\ \E m : sent' = Deliver(Deliver(sent, {}, m), SfuReceivers(sfuConnections', c),
                                <<LeftMessage(e)>>)
  BY DEF Leave, LeftMessage
<1>2. SfuReceivers(sfuConnections', c) = {}
  BY <1>1, NoSocketAssumption DEF TypeInv, TypeOK, SfuReceivers
<1> QED BY <1>1, <1>2, SentType DEF Deliver

LEMMA LeaveLogs ==
    ASSUME TypeInv, NEW c \in Conferences, NEW e \in Endpoints, Leave(c, e),
           NEW conf, conf = RemoveEndpoint(conferences[c], e, Now), conf.endpoints # {}
    PROVE  /\ conf \in Conference
           /\ conferences' = [conferences EXCEPT ![c] = conf]
           /\ sfuConnections' = sfuConnections
           /\ \A s \in Sockets :
                 sent'[s] = Told(Told(Told(sent[s],
                    s, Receivers(endpointConnections', c, NullId), RekeyMessage(c, conf)),
                    s, SfuReceivers(sfuConnections, c), Notice),
                    s, SfuReceivers(sfuConnections, c), LeftMessage(e))
<1>1. conf \in Conference
  BY NowIsDrawn, LiveConference, RemoveEndpointFacts DEF TypeInv, Leave, Removal
<1> DEFINE R == Receivers(endpointConnections', c, NullId)
           F == SfuReceivers(sfuConnections, c)
           rekey == RekeyMessage(c, conf)
<1>2. /\ sent' = Deliver(Deliver(sent, R, <<rekey>>), F, <<Notice, LeftMessage(e)>>)
      /\ conferences' = [conferences EXCEPT ![c] = conf]
      /\ sfuConnections' = sfuConnections
  BY DEF Leave, Notice, LeftMessage
<1>3. rekey \in Messages /\ Notice \in Messages /\ LeftMessage(e) \in Messages
  BY <1>1, MessageTypes
<1> HIDE DEF R, F, rekey
<1> DEFINE first == Deliver(sent, R, <<rekey>>)
<1>4. /\ first \in [Sockets -> Seq(Messages)]
      /\ \A s \in Sockets : first[s] = Told(sent[s], s, R, rekey)
  BY <1>3, SentType, Delivered
<1> HIDE DEF first
<1>5. ASSUME NEW s \in Sockets
      PROVE  Deliver(first, F, <<Notice, LeftMessage(e)>>)[s]
                = Told(Told(first[s], s, F, Notice), s, F, LeftMessage(e))
  <2>1. first[s] \in Seq(Messages)
    BY <1>4
  <2> QED BY <1>3, <2>1, AppendedTwo DEF Told, Deliver
<1> QED BY <1>1, <1>2, <1>4, <1>5 DEF first, R, F, rekey

LEMMA RequestRekeyLogs ==
    ASSUME TypeInv, NEW t \in Sockets, RequestRekey(t),
           NEW c, c = socket[t].conf, NEW e, e = socket[t].endpoint,
           NEW conf, conf = Rotated(conferences[c], e, Now)
    PROVE  /\ c \in Conferences /\ e \in Endpoints /\ Live(c)
           /\ Rotation(conferences[c], e, Now, conf)
           /\ conferences' = [conferences EXCEPT ![c] = conf]
           /\ \A s \in Sockets :
                 sent'[s] = Told(sent[s], s, Receivers(endpointConnections, c, NullId),
                                 RekeyMessage(c, conf))
<1>1. c \in Conferences /\ e \in Endpoints /\ Live(c)
  BY OpenSocket, SocketFacts DEF RequestRekey, TypeInv
<1>2. Rotation(conferences[c], e, Now, conf)
  BY <1>1, NowIsDrawn, LiveConference, RotatedFacts DEF TypeInv
<1>3. conf \in Conference
  BY <1>2 DEF Rotation
<1>4. /\ conferences' = [conferences EXCEPT ![c] = conf]
      /\ sent' = Deliver(sent, Receivers(endpointConnections, c, NullId),
                         <<RekeyMessage(c, conf)>>)
  BY DEF RequestRekey, Rotated
<1> QED BY <1>1, <1>2, <1>3, <1>4, MessageTypes, SentType, Delivered

LEMMA ForwardLogs ==
    ASSUME TypeInv, NEW t \in Sockets, ForwardEktTag(t)
    PROVE  /\ socket[t].conf \in Conferences /\ socket[t].endpoint \in Endpoints
           /\ \E m \in Messages :
                 /\ m.type = "peer_ekt_tag"
                 /\ \A s \in Sockets :
                       sent'[s] = Told(sent[s], s, Receivers(endpointConnections,
                                          socket[t].conf, socket[t].endpoint), m)
<1>1. socket[t].conf \in Conferences /\ socket[t].endpoint \in Endpoints
  BY OpenSocket, SocketFacts DEF ForwardEktTag, TypeInv
<1> DEFINE m == [type |-> "peer_ekt_tag", fromEndpoint |-> socket[t].endpoint]
<1>2. m \in Messages /\ m.type = "peer_ekt_tag"
  BY <1>1 DEF Messages
<1>3. sent' = Deliver(sent, Receivers(endpointConnections, socket[t].conf, socket[t].endpoint), <<m>>)
  BY DEF ForwardEktTag
<1> HIDE DEF m
<1> QED BY <1>1, <1>2, <1>3, SentType, Delivered

LEMMA RequestKeysLogs ==
    ASSUME TypeInv, NEW t \in Sockets, RequestKeys(t), NEW c, c = socket[t].conf
    PROVE  /\ c \in Conferences /\ Live(c)
           /\ \E m \in Messages :
                 /\ m.type = "conference_keys" /\ m.endpoints = conferences[c].endpoints
                 /\ \A s \in Sockets :
                       sent'[s] = Told(sent[s], s, SfuReceivers(sfuConnections, c), m)
<1>1. c \in Conferences /\ Live(c)
  BY OpenSocket, SocketFacts DEF RequestKeys, TypeInv
<1>2. conferences[c].endpoints \in SUBSET Endpoints
  BY <1>1, LiveConference DEF TypeInv, Conference
<1> DEFINE m == [type |-> "conference_keys", endpoints |-> conferences[c].endpoints]
<1>3. m \in Messages /\ m.type = "conference_keys" /\ m.endpoints = conferences[c].endpoints
  BY <1>2 DEF Messages
<1>4. sent' = Deliver(sent, SfuReceivers(sfuConnections, c), <<m>>)
  BY DEF RequestKeys
<1> HIDE DEF m
<1> QED BY <1>1, <1>3, <1>4, SentType, Delivered

LEMMA SfuConnectLogs ==
    ASSUME TypeInv, NEW t \in Sockets, NEW c \in Conferences, SfuConnect(t, c)
    PROVE  /\ ~Live(c) => sent' = sent
           /\ Live(c) => \E m \in Messages :
                 /\ m.type = "conference_state" /\ m.endpoints = conferences[c].endpoints
                 /\ \A s \in Sockets : sent'[s] = Told(sent[s], s, {t}, m)
<1> SUFFICES ASSUME Live(c)
             PROVE  \E m \in Messages :
                 /\ m.type = "conference_state" /\ m.endpoints = conferences[c].endpoints
                 /\ \A s \in Sockets : sent'[s] = Told(sent[s], s, {t}, m)
  BY DEF SfuConnect
<1>2. conferences[c].endpoints \in SUBSET Endpoints
  BY LiveConference DEF TypeInv, Conference
<1> DEFINE m == [type |-> "conference_state", endpoints |-> conferences[c].endpoints]
<1>3. m \in Messages /\ m.type = "conference_state" /\ m.endpoints = conferences[c].endpoints
  BY <1>2 DEF Messages
<1>4. sent' = Deliver(sent, {t}, <<m>>)
  BY DEF SfuConnect
<1> HIDE DEF m
<1> QED BY <1>3, <1>4, SentType, Delivered

-----------------------------------------------------------------------------
(* Sockets through a handler.                                                *)

(* A socket that was accepted keeps its owner, and does not open again.      *)
SameOwner(s) ==
    /\ socket'[s] # Unused
    /\ socket'[s].role = socket[s].role /\ socket'[s].conf = socket[s].conf
    /\ socket'[s].since = socket[s].since
    /\ socket[s].role = "endpoint" => socket'[s].endpoint = socket[s].endpoint
    /\ IsOpen(s)' => IsOpen(s)

LEMMA SocketsKept ==
    ASSUME TypeInv, [Next]_vars
    PROVE  \A s \in Sockets : socket[s] # Unused => SameOwner(s)
<1> SUFFICES ASSUME NEW s \in Sockets, socket[s] # Unused PROVE SameOwner(s)
  OBVIOUS
<1>1. CASE socket' = socket
  BY <1>1 DEF SameOwner, IsOpen
<1>2. ASSUME NEW t \in Sockets, socket[t] = Unused, NEW r,
             socket' = [socket EXCEPT ![t] = r]
      PROVE  SameOwner(s)
  <2>1. socket'[s] = socket[s]
    BY <1>2 DEF TypeInv, TypeOK
  <2> QED BY <2>1 DEF SameOwner, IsOpen
<1>3. ASSUME NEW t \in Sockets, NEW st \in States, st # "open",
             socket[t] # Unused, socket' = [socket EXCEPT ![t].state = st]
      PROVE  SameOwner(s)
  <2>1. CASE t # s
    <3>1. socket'[s] = socket[s]
      BY <1>3, <2>1 DEF TypeInv, TypeOK
    <3> QED BY <3>1 DEF SameOwner, IsOpen
  <2>2. CASE t = s
    <3>1. socket'[s] = [socket[s] EXCEPT !.state = st]
      BY <1>3, <2>2 DEF TypeInv, TypeOK
    <3> QED BY <1>3, <3>1, SocketStateFacts DEF SameOwner, IsOpen, TypeInv
  <2> QED BY <2>1, <2>2
<1>4. ASSUME NEW t \in Sockets, Disconnect(t) \/ EndpointClosed(t) \/ SfuClosed(t)
      PROVE  SameOwner(s)
  <2>1. /\ socket[t] # Unused
        /\ \E st \in States \ {"open"} : socket' = [socket EXCEPT ![t].state = st]
    BY <1>4, OpenSocket DEF Disconnect, EndpointClosed, SfuClosed, States
  <2> QED BY <1>3, <2>1
<1>5. ASSUME NEW t \in Sockets, NEW c \in Conferences, NEW e \in Endpoints,
             EndpointConnect(t, c, e)
      PROVE  SameOwner(s)
  BY <1>2, <1>5 DEF EndpointConnect
<1>6. ASSUME NEW t \in Sockets, NEW c \in Conferences, SfuConnect(t, c)
      PROVE  SameOwner(s)
  BY <1>2, <1>6 DEF SfuConnect
<1>7. CASE UNCHANGED vars
  BY <1>1, <1>7 DEF vars
<1>8. ASSUME NEW c \in Conferences,
             \/ CreateConference(c)
             \/ \E e \in Endpoints : Join(c, e) \/ Leave(c, e)
      PROVE  SameOwner(s)
  BY <1>1, <1>8 DEF CreateConference, Join, Leave
<1>9. ASSUME NEW t \in Sockets, ForwardEktTag(t) \/ RequestRekey(t) \/ RequestKeys(t)
      PROVE  SameOwner(s)
  BY <1>1, <1>9 DEF ForwardEktTag, RequestRekey, RequestKeys
<1> QED BY <1>4, <1>5, <1>6, <1>7, <1>8, <1>9 DEF Next

-----------------------------------------------------------------------------
(* The SFU's view.  Besides the property itself: nothing was sent on a       *)
(* connection that is still to come.                                         *)

SilentUntilAccepted == \A s \in Sockets : socket[s] = Unused => sent[s] = <<>>

SfuInv == SilentUntilAccepted /\ SfuViewAccurate

MembersOf(c) == IF Live(c) THEN conferences[c].endpoints ELSE {}

(* A handler that accepts no SFU, and changes nothing an SFU knows but what  *)
(* it tells the SFU of c.                                                    *)
LEMMA SfuStep ==
    ASSUME TypeInv, SfuViewAccurate, [Next]_vars, NEW c \in Conferences,
           \A d \in Conferences : sfuConnections'[d] \in {sfuConnections[d], NoSocket},
           \A d \in Conferences \ {c} : conferences'[d] = conferences[d],
           \A s \in Sockets :
              sfuConnections[c] # s => SfuViewOf(sent'[s]) = SfuViewOf(sent[s]),
           \A s \in Sockets :
              (/\ sfuConnections'[c] = s /\ IsOpen(s)
               /\ SfuViewOf(sent[s]) = MembersOf(c))
              => SfuViewOf(sent'[s]) = MembersOf(c)'
    PROVE  SfuViewAccurate'
<1> SUFFICES ASSUME NEW d \in Conferences, NEW s, s = sfuConnections'[d],
                    s # NoSocket, IsOpen(s)'
             PROVE  SfuViewOf(sent'[s]) = MembersOf(d)'
  BY DEF SfuViewAccurate, SfuView, MembersOf
<1>1. s = sfuConnections[d] /\ s \in Sockets /\ socket[s] # Unused /\ socket[s].conf = d
  BY DEF TypeInv, TypeOK, RegisteredOwn
<1>2. IsOpen(s)
  BY <1>1, SocketsKept DEF SameOwner
<1>3. SfuViewOf(sent[s]) = MembersOf(d)
  BY <1>1, <1>2 DEF SfuViewAccurate, SfuView, MembersOf
<1>4. CASE d = c
  BY <1>1, <1>2, <1>3, <1>4
<1>5. CASE d # c
  <2>1. sfuConnections[c] # s
    BY <1>1, <1>5 DEF TypeInv, RegisteredOwn
  <2>2. MembersOf(d)' = MembersOf(d)
    BY <1>5 DEF MembersOf, Live
  <2> QED BY <1>1, <1>3, <2>1, <2>2
<1> QED BY <1>4, <1>5

(* The SFU of c, if its connection is up, is who is told.                    *)
LEMMA ToldSfu ==
    ASSUME NEW c \in Conferences, NEW s \in Sockets, NEW log, NEW m
    PROVE  /\ sfuConnections[c] # s => Told(log, s, SfuReceivers(sfuConnections, c), m) = log
           /\ sfuConnections[c] = s /\ IsOpen(s)
                 => Told(log, s, SfuReceivers(sfuConnections, c), m) = Append(log, m)
BY DEF Told, SfuReceivers

LEMMA ToldKept ==
    ASSUME NEW log \in Seq(Messages), NEW s, NEW receivers, NEW m \in Messages,
           m.type \in {"rekey", "new_member", "peer_ekt_tag", "rekey_notice"}
    PROVE  SfuViewOf(Told(log, s, receivers, m)) = SfuViewOf(log)
BY SfuViewKept DEF Told

LEMMA SfuJoin ==
    ASSUME TypeInv, SfuViewAccurate, NEW c \in Conferences, NEW e \in Endpoints, Join(c, e)
    PROVE  SfuViewAccurate'
<1> DEFINE was == CreatedConference(c, Now)
           conf == AddEndpoint(was, e, Now)
           R == Receivers(endpointConnections, c, e)
           F == SfuReceivers(sfuConnections, c)
<1>1. /\ conf \in Conference
      /\ conferences' = [conferences EXCEPT ![c] = conf]
      /\ \A s \in Sockets :
            sent'[s] = Told(Told(sent[s], s, R, NewMember(e, conf)), s, F, Joined(e))
  BY JoinLogs
<1>2. conf.endpoints = MembersOf(c) \cup {e}
  <2>1. TypeOK /\ Now \in Drawn
    BY NowIsDrawn DEF TypeInv
  <2>2. /\ was \in Conference
        /\ Live(c) => was = conferences[c]
        /\ ~Live(c) => was = NewConference(Now)
    BY <2>1, CreatedConferenceFacts
  <2>3. NewConference(Now).endpoints = {}
    BY <2>1, NewConferenceFacts
  <2>4. Addition(was, e, Now, conf)
    BY <2>1, <2>2, AddEndpointFacts
  <2> HIDE DEF was, conf
  <2> QED BY <2>2, <2>3, <2>4 DEF Addition, MembersOf
<1> HIDE DEF conf, R
<1>3. MembersOf(c)' = MembersOf(c) \cup {e}
  BY <1>1, <1>2 DEF MembersOf, Live, Conference, TypeInv, TypeOK
<1>4. ASSUME NEW s \in Sockets
      PROVE  LET first == Told(sent[s], s, R, NewMember(e, conf))
             IN  first \in Seq(Messages) /\ SfuViewOf(first) = SfuViewOf(sent[s])
  <2>1. NewMember(e, conf) \in Messages /\ NewMember(e, conf).type = "new_member"
    BY <1>1, MessageTypes DEF NewMember
  <2> QED BY <2>1, SentType, ToldType, ToldKept
<1>5. Joined(e) \in Messages /\ Joined(e).type = "endpoint_joined" /\ Joined(e).endpointId = e
  BY <1>1, MessageTypes DEF Joined
<1>6. ASSUME NEW s \in Sockets, sfuConnections[c] # s
      PROVE  SfuViewOf(sent'[s]) = SfuViewOf(sent[s])
  BY <1>1, <1>4, <1>6, ToldSfu
<1>7. ASSUME NEW s \in Sockets, sfuConnections[c] = s, IsOpen(s),
             SfuViewOf(sent[s]) = MembersOf(c)
      PROVE  SfuViewOf(sent'[s]) = MembersOf(c)'
  <2> DEFINE first == Told(sent[s], s, R, NewMember(e, conf))
  <2>1. first \in Seq(Messages) /\ SfuViewOf(first) = MembersOf(c)
    BY <1>4, <1>7
  <2>2. sent'[s] = Append(first, Joined(e))
    BY <1>1, <1>7, ToldSfu
  <2> HIDE DEF first
  <2> QED BY <1>3, <1>5, <2>1, <2>2, SfuViewMoves
<1>8. sfuConnections' = sfuConnections /\ [Next]_vars
  BY DEF Join, Next
<1>9. \A d \in Conferences \ {c} : conferences'[d] = conferences[d]
  BY <1>1 DEF TypeInv, TypeOK
<1> QED BY <1>6, <1>7, <1>8, <1>9, SfuStep

LEMMA SfuLeave ==
    ASSUME TypeInv, SfuViewAccurate, NEW c \in Conferences, NEW e \in Endpoints, Leave(c, e)
    PROVE  SfuViewAccurate'
<1> DEFINE conf == RemoveEndpoint(conferences[c], e, Now)
           R == Receivers(endpointConnections', c, NullId)
           F == SfuReceivers(sfuConnections, c)
           rekey == RekeyMessage(c, conf)
<1>1. [Next]_vars
  BY DEF Next
<1>2. CASE conf.endpoints = {}
  <2>1. /\ conferences' = [conferences EXCEPT ![c] = NoConference]
        /\ sfuConnections' = [sfuConnections EXCEPT ![c] = NoSocket]
        /\ sent' = sent
    BY <1>2, LeaveLastLogs
  <2>2. /\ \A d \in Conferences \ {c} : conferences'[d] = conferences[d]
        /\ sfuConnections'[c] = NoSocket
        /\ \A d \in Conferences : sfuConnections'[d] \in {sfuConnections[d], NoSocket}
    BY <2>1 DEF TypeInv, TypeOK
  <2> QED BY <1>1, <2>1, <2>2, NoSocketAssumption, SfuStep
<1>3. CASE conf.endpoints # {}
  <2>1. /\ conf \in Conference
        /\ conferences' = [conferences EXCEPT ![c] = conf]
        /\ sfuConnections' = sfuConnections
        /\ \A s \in Sockets :
              sent'[s] = Told(Told(Told(sent[s], s, R, rekey), s, F, Notice),
                              s, F, LeftMessage(e))
    BY <1>3, LeaveLogs
  <2>2. Live(c) /\ conf.endpoints = MembersOf(c) \ {e}
    <3>1. Live(c) /\ conferences[c] \in Conference
      BY LiveConference DEF Leave, TypeInv
    <3>2. Removal(conferences[c], e, Now, conf)
      BY <3>1, NowIsDrawn, RemoveEndpointFacts DEF TypeInv
    <3> HIDE DEF conf
    <3> QED BY <3>1, <3>2 DEF Removal, MembersOf
  <2>3. /\ rekey \in Messages /\ rekey.type = "rekey"
        /\ Notice \in Messages /\ Notice.type = "rekey_notice"
        /\ LeftMessage(e) \in Messages /\ LeftMessage(e).type = "endpoint_left"
        /\ LeftMessage(e).endpointId = e
    BY <2>1, MessageTypes DEF RekeyMessage, Notice, LeftMessage
  <2> HIDE DEF conf, R, rekey
  <2>4. MembersOf(c)' = MembersOf(c) \ {e}
    BY <2>1, <2>2 DEF MembersOf, Live, Conference, TypeInv, TypeOK
  <2>5. ASSUME NEW s \in Sockets
        PROVE  LET first == Told(sent[s], s, R, rekey)
                   second == Told(first, s, F, Notice)
               IN  /\ second \in Seq(Messages) /\ SfuViewOf(second) = SfuViewOf(sent[s])
                   /\ SfuViewOf(first) = SfuViewOf(sent[s])
    <3>1. /\ Told(sent[s], s, R, rekey) \in Seq(Messages)
          /\ SfuViewOf(Told(sent[s], s, R, rekey)) = SfuViewOf(sent[s])
      BY <2>3, SentType, ToldType, ToldKept
    <3> QED BY <2>3, <3>1, ToldType, ToldKept
  <2>6. ASSUME NEW s \in Sockets, sfuConnections[c] # s
        PROVE  SfuViewOf(sent'[s]) = SfuViewOf(sent[s])
    BY <2>1, <2>5, <2>6, ToldSfu
  <2>7. ASSUME NEW s \in Sockets, sfuConnections[c] = s, IsOpen(s),
               SfuViewOf(sent[s]) = MembersOf(c)
        PROVE  SfuViewOf(sent'[s]) = MembersOf(c)'
    <3> DEFINE second == Told(Told(sent[s], s, R, rekey), s, F, Notice)
    <3>1. second \in Seq(Messages) /\ SfuViewOf(second) = MembersOf(c)
      BY <2>5, <2>7
    <3>2. sent'[s] = Append(second, LeftMessage(e))
      BY <2>1, <2>7, ToldSfu
    <3> HIDE DEF second
    <3> QED BY <2>3, <2>4, <3>1, <3>2, SfuViewMoves
  <2>8. \A d \in Conferences \ {c} : conferences'[d] = conferences[d]
    BY <2>1 DEF TypeInv, TypeOK
  <2> QED BY <1>1, <2>1, <2>6, <2>7, <2>8, SfuStep
<1> QED BY <1>2, <1>3

LEMMA SfuTold ==
    ASSUME TypeInv, SfuViewAccurate, NEW t \in Sockets,
           ForwardEktTag(t) \/ RequestRekey(t) \/ RequestKeys(t)
    PROVE  SfuViewAccurate'
<1>0. socket[t].conf \in Conferences
  BY OpenSocket, SocketFacts DEF ForwardEktTag, RequestRekey, RequestKeys, TypeInv
<1> SUFFICES ASSUME NEW c \in Conferences, c = socket[t].conf
             PROVE  SfuViewAccurate'
  BY <1>0
<1>1. [Next]_vars /\ sfuConnections' = sfuConnections
  BY DEF Next, ForwardEktTag, RequestRekey, RequestKeys
<1> DEFINE F == SfuReceivers(sfuConnections, c)
<1>2. CASE ForwardEktTag(t)
  <2>1. PICK m, R :
           /\ m \in Messages /\ m.type = "peer_ekt_tag"
           /\ \A s \in Sockets : sent'[s] = Told(sent[s], s, R, m)
    BY <1>2, ForwardLogs
  <2>2. \A s \in Sockets : SfuViewOf(sent'[s]) = SfuViewOf(sent[s])
    BY <2>1, SentType, ToldKept
  <2>3. conferences' = conferences /\ MembersOf(c)' = MembersOf(c)
    BY <1>2 DEF ForwardEktTag, MembersOf, Live
  <2> QED BY <1>1, <2>2, <2>3, SfuStep
<1>3. CASE RequestRekey(t)
  <2> DEFINE e == socket[t].endpoint
             conf == Rotated(conferences[c], e, Now)
             R == Receivers(endpointConnections, c, NullId)
  <2>1. /\ Live(c) /\ Rotation(conferences[c], e, Now, conf)
        /\ conferences' = [conferences EXCEPT ![c] = conf]
        /\ \A s \in Sockets : sent'[s] = Told(sent[s], s, R, RekeyMessage(c, conf))
    BY <1>3, RequestRekeyLogs
  <2> HIDE DEF e, conf, R
  <2>2. conf \in Conference /\ conf.endpoints = conferences[c].endpoints
    BY <2>1 DEF Rotation
  <2>3. RekeyMessage(c, conf) \in Messages /\ RekeyMessage(c, conf).type = "rekey"
    BY <1>1, <2>2, BundleType DEF RekeyMessage
  <2>4. \A s \in Sockets : SfuViewOf(sent'[s]) = SfuViewOf(sent[s])
    BY <2>1, <2>3, SentType, ToldKept
  <2>5. conferences'[c] = conf /\ \A d \in Conferences \ {c} : conferences'[d] = conferences[d]
    BY <1>1, <2>1 DEF TypeInv, TypeOK
  <2>6. MembersOf(c)' = MembersOf(c)
    BY <2>1, <2>2, <2>5 DEF MembersOf, Live, Conference
  <2> QED BY <1>1, <2>4, <2>5, <2>6, SfuStep
<1>4. CASE RequestKeys(t)
  <2>1. Live(c)
    BY <1>4, RequestKeysLogs
  <2>2. PICK m \in Messages :
           /\ m.type = "conference_keys" /\ m.endpoints = conferences[c].endpoints
           /\ \A s \in Sockets : sent'[s] = Told(sent[s], s, F, m)
    BY <1>4, RequestKeysLogs
  <2>3. conferences' = conferences /\ MembersOf(c)' = MembersOf(c)
    BY <1>4 DEF RequestKeys, MembersOf, Live
  <2>4. \A s \in Sockets : sfuConnections[c] # s => SfuViewOf(sent'[s]) = SfuViewOf(sent[s])
    BY <1>1, <2>2, ToldSfu
  <2>5. ASSUME NEW s \in Sockets, sfuConnections[c] = s, IsOpen(s)
        PROVE  SfuViewOf(sent'[s]) = MembersOf(c)'
    <3>1. sent'[s] = Append(sent[s], m)
      BY <1>1, <2>2, <2>5, ToldSfu
    <3>2. SfuViewOf(Append(sent[s], m)) = m.endpoints
      BY <2>2, SentType, SfuViewMoves
    <3> QED BY <2>1, <2>2, <2>3, <3>1, <3>2 DEF MembersOf
  <2> QED BY <1>1, <2>3, <2>4, <2>5, SfuStep
<1> QED BY <1>2, <1>3, <1>4

LEMMA SfuAccepted ==
    ASSUME TypeInv, SfuInv, NEW t \in Sockets, NEW c \in Conferences, SfuConnect(t, c)
    PROVE  SfuViewAccurate'
<1> SUFFICES ASSUME NEW d \in Conferences, NEW s, s = sfuConnections'[d],
                    s # NoSocket, IsOpen(s)'
             PROVE  SfuViewOf(sent'[s]) = MembersOf(d)'
  BY DEF SfuViewAccurate, SfuView, MembersOf
<1>1. /\ socket[t] = Unused /\ sent[t] = <<>>
      /\ sfuConnections' = [sfuConnections EXCEPT ![c] = t]
      /\ conferences' = conferences /\ MembersOf(d)' = MembersOf(d)
  BY DEF SfuConnect, SfuInv, SilentUntilAccepted, MembersOf, Live
<1>2. CASE d = c
  <2>1. s = t
    BY <1>1, <1>2 DEF TypeInv, TypeOK
  <2>2. CASE ~Live(c)
    <3>1. sent'[t] = <<>>
      BY <1>1, <2>2, SfuConnectLogs
    <3>2. SfuViewOf(<<>>) = {}
      BY DEF SfuViewOf
    <3> QED BY <1>1, <1>2, <2>1, <2>2, <3>1, <3>2 DEF MembersOf
  <2>3. CASE Live(c)
    <3>1. PICK m \in Messages :
             /\ m.type = "conference_state" /\ m.endpoints = conferences[c].endpoints
             /\ sent'[t] = Told(sent[t], t, {t}, m)
      BY <2>3, SfuConnectLogs
    <3>2. SfuViewOf(Append(sent[t], m)) = m.endpoints
      BY <3>1, SentType, SfuViewMoves
    <3> QED BY <1>1, <1>2, <2>1, <2>3, <3>1, <3>2 DEF MembersOf, Told
  <2> QED BY <2>2, <2>3
<1>3. CASE d # c
  <2>1. s = sfuConnections[d] /\ s \in Sockets
    BY <1>1, <1>3 DEF TypeInv, TypeOK
  <2>2. socket[s] # Unused /\ s # t
    BY <1>1, <2>1 DEF TypeInv, RegisteredOwn
  <2>3. IsOpen(s)
    BY <2>1, <2>2, SocketsKept DEF Next, SameOwner
  <2>4. SfuViewOf(sent[s]) = MembersOf(d)
    BY <2>1, <2>3 DEF SfuInv, SfuViewAccurate, SfuView, MembersOf
  <2>5. sent'[s] = sent[s]
    BY <2>1, <2>2, SfuConnectLogs DEF Told
  <2> QED BY <1>1, <2>4, <2>5
<1> QED BY <1>2, <1>3

LEMMA SfuQuiet ==
    ASSUME TypeInv, SfuViewAccurate, [Next]_vars,
           sent' = sent,
           \A d \in Conferences : sfuConnections'[d] \in {sfuConnections[d], NoSocket},
           \A d \in Conferences : MembersOf(d)' = MembersOf(d)
    PROVE  SfuViewAccurate'
<1> SUFFICES ASSUME NEW d \in Conferences, NEW s, s = sfuConnections'[d],
                    s # NoSocket, IsOpen(s)'
             PROVE  SfuViewOf(sent'[s]) = MembersOf(d)'
  BY DEF SfuViewAccurate, SfuView, MembersOf
<1>1. s = sfuConnections[d] /\ s \in Sockets /\ socket[s] # Unused
  BY DEF TypeInv, TypeOK, RegisteredOwn
<1>2. IsOpen(s)
  BY <1>1, SocketsKept DEF SameOwner
<1> QED BY <1>1, <1>2 DEF SfuViewAccurate, SfuView, MembersOf

LEMMA SfuViewNext == TypeInv /\ SfuInv /\ [Next]_vars => SfuViewAccurate'
<1> SUFFICES ASSUME TypeInv, SfuInv, [Next]_vars PROVE SfuViewAccurate'
  OBVIOUS
<1>1. SfuViewAccurate
  BY DEF SfuInv
<1>2. ASSUME NEW c \in Conferences, CreateConference(c) PROVE SfuViewAccurate'
  <2>1. /\ conferences' = [conferences EXCEPT ![c] = NewConference(Now)]
        /\ sent' = sent /\ sfuConnections' = sfuConnections /\ ~Live(c)
    BY <1>2 DEF CreateConference
  <2>2. NewConference(Now).endpoints = {}
    BY NowIsDrawn, NewConferenceFacts DEF TypeInv
  <2>3. \A d \in Conferences : MembersOf(d)' = MembersOf(d)
    BY <2>1, <2>2 DEF MembersOf, Live, TypeInv, TypeOK
  <2> QED BY <1>1, <2>1, <2>3, SfuQuiet
<1>3. ASSUME NEW c \in Conferences, NEW e \in Endpoints, Join(c, e) \/ Leave(c, e)
      PROVE  SfuViewAccurate'
  BY <1>1, <1>3, SfuJoin, SfuLeave
<1>4. ASSUME NEW t \in Sockets, NEW c \in Conferences, SfuConnect(t, c)
      PROVE  SfuViewAccurate'
  BY <1>4, SfuAccepted
<1>5. ASSUME NEW t \in Sockets, ForwardEktTag(t) \/ RequestRekey(t) \/ RequestKeys(t)
      PROVE  SfuViewAccurate'
  BY <1>1, <1>5, SfuTold
<1>6. ASSUME conferences' = conferences, sent' = sent,
             \A d \in Conferences : sfuConnections'[d] \in {sfuConnections[d], NoSocket}
      PROVE  SfuViewAccurate'
  BY <1>1, <1>6, SfuQuiet DEF MembersOf, Live
<1>7. ASSUME NEW t \in Sockets, NEW c \in Conferences, NEW e \in Endpoints,
             EndpointConnect(t, c, e)
      PROVE  SfuViewAccurate'
  BY <1>6, <1>7 DEF EndpointConnect
<1>8. ASSUME NEW t \in Sockets, Disconnect(t) \/ EndpointClosed(t) \/ SfuClosed(t)
      PROVE  SfuViewAccurate'
  <2>1. \A d \in Conferences : sfuConnections'[d] \in {sfuConnections[d], NoSocket}
    BY <1>8 DEF Disconnect, EndpointClosed, SfuClosed, TypeInv, TypeOK
  <2> QED BY <1>6, <1>8, <2>1 DEF Disconnect, EndpointClosed, SfuClosed
<1>9. CASE UNCHANGED vars
  BY <1>6, <1>9 DEF vars
<1> QED BY <1>2, <1>3, <1>4, <1>5, <1>7, <1>8, <1>9 DEF Next

(* Nobody is told who is not connected.                                      *)
LEMMA ToldOpen ==
    ASSUME NEW s \in Sockets, socket[s] = Unused, NEW log, NEW m, NEW c, NEW x, NEW connections
    PROVE  /\ Told(log, s, Receivers(connections, c, x), m) = log
           /\ Told(log, s, SfuReceivers(connections, c), m) = log
BY DEF Told, Receivers, SfuReceivers, IsOpen, Unused

LEMMA SilentNext == TypeInv /\ SilentUntilAccepted /\ [Next]_vars => SilentUntilAccepted'
<1> SUFFICES ASSUME TypeInv, SilentUntilAccepted, [Next]_vars,
                    NEW s \in Sockets, socket'[s] = Unused
             PROVE  sent'[s] = <<>>
  BY DEF SilentUntilAccepted
<1>1. socket[s] = Unused /\ sent[s] = <<>>
  BY SocketsKept DEF SameOwner, SilentUntilAccepted
<1>2. CASE sent' = sent
  BY <1>1, <1>2
<1>3. ASSUME NEW c \in Conferences, NEW e \in Endpoints, Join(c, e) PROVE sent'[s] = sent[s]
  BY <1>1, <1>3, JoinLogs, ToldOpen
<1>4. ASSUME NEW c \in Conferences, NEW e \in Endpoints, Leave(c, e) PROVE sent'[s] = sent[s]
  <2> DEFINE conf == RemoveEndpoint(conferences[c], e, Now)
  <2>1. CASE conf.endpoints = {}
    BY <1>4, <2>1, LeaveLastLogs
  <2>2. CASE conf.endpoints # {}
    <3> DEFINE R == Receivers(endpointConnections', c, NullId)
               F == SfuReceivers(sfuConnections, c)
    <3>1. sent'[s] = Told(Told(Told(sent[s], s, R, RekeyMessage(c, conf)), s, F, Notice),
                          s, F, LeftMessage(e))
      BY <1>4, <2>2, LeaveLogs
    <3>2. \A log, m : Told(log, s, R, m) = log /\ Told(log, s, F, m) = log
      BY <1>1, ToldOpen
    <3> HIDE DEF conf, R, F
    <3> QED BY <3>1, <3>2
  <2> QED BY <2>1, <2>2
<1>5. ASSUME NEW t \in Sockets, ForwardEktTag(t) PROVE sent'[s] = sent[s]
  BY <1>1, <1>5, ForwardLogs, ToldOpen
<1>6. ASSUME NEW t \in Sockets, RequestRekey(t) PROVE sent'[s] = sent[s]
  BY <1>1, <1>6, RequestRekeyLogs, ToldOpen
<1>7. ASSUME NEW t \in Sockets, RequestKeys(t) PROVE sent'[s] = sent[s]
  BY <1>1, <1>7, RequestKeysLogs, ToldOpen
<1>8. ASSUME NEW t \in Sockets, NEW c \in Conferences, SfuConnect(t, c)
      PROVE  sent'[s] = sent[s]
  <2>1. socket'[t] # Unused
    <3>1. socket'[t] = [state |-> "open", role |-> "sfu", conf |-> c, since |-> clock]
      BY <1>8 DEF SfuConnect, TypeInv, TypeOK
    <3> QED BY <3>1 DEF Unused
  <2>2. s # t
    BY <2>1
  <2> QED BY <1>8, <2>2, SfuConnectLogs DEF Told
<1>9. ASSUME NEW c \in Conferences, CreateConference(c) PROVE sent' = sent
  BY <1>9 DEF CreateConference
<1>10. ASSUME NEW t \in Sockets, NEW c \in Conferences, NEW e \in Endpoints,
              EndpointConnect(t, c, e)
       PROVE  sent' = sent
  BY <1>10 DEF EndpointConnect
<1>11. ASSUME NEW t \in Sockets, Disconnect(t) \/ EndpointClosed(t) \/ SfuClosed(t)
       PROVE  sent' = sent
  BY <1>11 DEF Disconnect, EndpointClosed, SfuClosed
<1>12. CASE UNCHANGED vars
  BY <1>2, <1>12 DEF vars
<1> QED BY <1>1, <1>2, <1>3, <1>4, <1>5, <1>6, <1>7, <1>8, <1>9, <1>10, <1>11, <1>12 DEF Next

LEMMA SfuInit == Init => SfuInv
<1> SUFFICES ASSUME Init PROVE SfuInv
  OBVIOUS
<1>1. SilentUntilAccepted /\ SfuViewAccurate
  BY DEF Init, SilentUntilAccepted, SfuViewAccurate
<1> QED BY <1>1 DEF SfuInv

LEMMA SfuNext == TypeInv /\ SfuInv /\ [Next]_vars => SfuInv'
BY SfuViewNext, SilentNext DEF SfuInv

LEMMA SfuInvariant == Spec => [](TypeInv /\ SfuInv)
BY TypeInit, SfuInit, TypeNext, SfuNext, PTL DEF Spec

(* The SFU that is registered knows exactly who is in its conference,        *)
(* whatever order arrivals, departures, removals of the conference, its own  *)
(* connections and its requests come in.                                     *)
THEOREM SfuKnowsMembers == Spec => []SfuViewAccurate
<1>1. SfuInv => SfuViewAccurate
  BY DEF SfuInv
<1> QED BY <1>1, SfuInvariant, PTL

-----------------------------------------------------------------------------
(* Who a broadcast reaches, when ids are apart.                              *)

LEMMA RegisteredSocket ==
    ASSUME TypeInv, NEW k \in Keys, endpointConnections[k] # NoSocket
    PROVE  LET s == endpointConnections[k]
           IN  /\ s \in Sockets /\ socket[s] # Unused /\ socket[s].role = "endpoint"
               /\ k = socket[s].conf \o socket[s].endpoint
<1>1. endpointConnections[k] \in Sockets
  BY DEF TypeInv, TypeOK
<1> QED BY <1>1, Zenon DEF TypeInv, RegisteredOwn

(* A socket registered for an endpoint of a conference was accepted for it.  *)
LEMMA RegisteredFor ==
    ASSUME IdsApart, TypeInv, NEW c \in Conferences, NEW e \in Endpoints,
           NEW s, s = endpointConnections[c \o e], s # NoSocket
    PROVE  /\ s \in Sockets /\ socket[s] # Unused
           /\ socket[s].conf = c /\ socket[s].endpoint = e
<1>2. /\ s \in Sockets /\ socket[s] # Unused /\ socket[s].role = "endpoint"
      /\ c \o e = socket[s].conf \o socket[s].endpoint
  BY KeyIsKey, RegisteredSocket
<1>3. ASSUME NEW d \in Conferences, NEW f \in Endpoints, c \o e = d \o f
      PROVE  d = c /\ f = e
  <2>1. IsStrictPrefix(c, c \o e) /\ IsStrictSuffix(e, c \o e)
    BY DEF IdsApart
  <2>2. IsStrictPrefix(c, d \o f) /\ IsStrictSuffix(e, d \o f)
    BY <1>3, <2>1
  <2> QED BY <2>2 DEF IdsApart
<1>4. socket[s].conf \in Conferences /\ socket[s].endpoint \in Endpoints
  BY <1>2, SocketFacts DEF TypeInv
<1> QED BY <1>2, <1>3, <1>4

(* A broadcast goes to sockets of its conference only, and to all of them    *)
(* that are registered, but for the endpoint left out.                       *)
LEMMA Reach ==
    ASSUME IdsApart, TypeInv, NEW c \in Conferences, NEW x,
           NEW connections \in [Keys -> Sockets \cup {NoSocket}],
           \A k \in Keys : connections[k] \in {endpointConnections[k], NoSocket},
           NEW s \in Receivers(connections, c, x)
    PROVE  s \in Sockets /\ IsOpen(s) /\ socket[s] # Unused /\ socket[s].conf = c
<1>1. s \in Sockets /\ IsOpen(s) /\ socket[s] # Unused
  BY OpenSocket DEF Receivers
<1>2. PICK k \in Keys : IsStrictPrefix(c, k) /\ connections[k] = s
  BY DEF Receivers, Addressed
<1>3. endpointConnections[k] = s /\ s # NoSocket
  BY <1>1, <1>2, NoSocketAssumption
<1>4. PICK d \in Conferences, e \in Endpoints : k = d \o e
  BY DEF Keys
<1>5. d = c
  BY <1>2, <1>4 DEF IdsApart
<1> QED BY <1>1, <1>3, <1>4, <1>5, RegisteredFor

LEMMA Reached ==
    ASSUME IdsApart, NEW c \in Conferences, NEW e \in Endpoints,
           NEW x \in Endpoints \cup {NullId}, x # e,
           NEW connections, NEW s \in Sockets, connections[c \o e] = s, IsOpen(s)
    PROVE  s \in Receivers(connections, c, x)
BY KeyIsKey DEF IdsApart, Receivers, Addressed

-----------------------------------------------------------------------------
(* What a handler does to a log, as far as keys go: it adds nothing that     *)
(* tells a key, it tells the key of one endpoint, or it adds a rekey.        *)

Extends(log, new) == \A i \in DOMAIN log : i \in DOMAIN new /\ new[i] = log[i]

LogKeeps(log, new) ==
    /\ new \in Seq(Messages) /\ Extends(log, new)
    /\ RekeyBundles(new) = RekeyBundles(log)
    /\ InOrder(log) => InOrder(new)
    /\ \A x \in Endpoints, key \in Secrets : KnowsKey(log, x, key) => KnowsKey(new, x, key)

LogLearns(log, new, e, told) ==
    /\ new \in Seq(Messages) /\ Extends(log, new)
    /\ RekeyBundles(new) = RekeyBundles(log)
    /\ InOrder(log) => InOrder(new)
    /\ \A x \in Endpoints \ {e}, key \in Secrets :
          KnowsKey(log, x, key) => KnowsKey(new, x, key)
    /\ KnowsKey(new, e, told)

LogRekeyed(log, new, m) ==
    /\ new \in Seq(Messages) /\ Extends(log, new)
    /\ RekeyBundles(new) = RekeyBundles(log) \cup {m.bundle}
    /\ (InOrder(log) /\ \A b \in RekeyBundles(log) : Older(b, m.bundle)) => InOrder(new)
    /\ \A x \in Endpoints : KnowsKey(new, x, m.allKeys[x])

LEMMA KeepsThen ==
    ASSUME NEW a, NEW b, NEW c, LogKeeps(b, c)
    PROVE  /\ LogKeeps(a, b) => LogKeeps(a, c)
           /\ \A e \in Endpoints, key \in Secrets :
                 LogLearns(a, b, e, key) => LogLearns(a, c, e, key)
           /\ \A m : (LogRekeyed(a, b, m) /\ m.allKeys \in KeyMaps) => LogRekeyed(a, c, m)
<1>0. ASSUME Extends(a, b), Extends(b, c) PROVE Extends(a, c)
  BY <1>0 DEF Extends
<1>1. LogKeeps(a, b) => LogKeeps(a, c)
  BY <1>0 DEF LogKeeps
<1>2. ASSUME NEW e \in Endpoints, NEW key \in Secrets, LogLearns(a, b, e, key)
      PROVE  LogLearns(a, c, e, key)
  BY <1>0, <1>2 DEF LogKeeps, LogLearns
<1>3. ASSUME NEW m, LogRekeyed(a, b, m), m.allKeys \in KeyMaps
      PROVE  LogRekeyed(a, c, m)
  <2>1. \A x \in Endpoints : m.allKeys[x] \in Secrets
    BY <1>3 DEF KeyMaps
  <2> QED BY <1>0, <1>3, <2>1 DEF LogKeeps, LogRekeyed
<1> QED BY <1>1, <1>2, <1>3

(* A message that tells no key.                                              *)
LEMMA ToldAside ==
    ASSUME NEW log \in Seq(Messages), NEW m \in Messages, NEW s, NEW receivers,
           m.type \notin {"rekey", "new_member"}
    PROVE  LogKeeps(log, Told(log, s, receivers, m))
<1>1. ~IsRekey(m) /\ \A x : ~TellsKeyOf(m, x)
  BY DEF IsRekey, TellsKeyOf
<1>2. LogKeeps(log, Append(log, m))
  <2>1. Append(log, m) \in Seq(Messages) /\ Extends(log, Append(log, m))
    BY Appended DEF Extends
  <2>2. RekeyBundles(Append(log, m)) = RekeyBundles(log)
    BY <1>1, RekeyBundlesAppend
  <2>3. InOrder(log) => InOrder(Append(log, m))
    BY <1>1, InOrderAppend
  <2>4. \A x \in Endpoints, key \in Secrets :
           KnowsKey(log, x, key) => KnowsKey(Append(log, m), x, key)
    BY <1>1, KnowsKeyAppend
  <2> QED BY <2>1, <2>2, <2>3, <2>4 DEF LogKeeps
<1>3. LogKeeps(log, log)
  BY DEF LogKeeps, Extends
<1> QED BY <1>2, <1>3 DEF Told

LEMMA KeepsItself ==
    ASSUME NEW log \in Seq(Messages)
    PROVE  LogKeeps(log, log)
BY DEF LogKeeps, Extends

LEMMA ToldNewMember ==
    ASSUME NEW log \in Seq(Messages), NEW e \in Endpoints, NEW conf \in Conference,
           NEW s, NEW receivers
    PROVE  LET new == Told(log, s, receivers, NewMember(e, conf))
           IN  /\ s \in receivers => LogLearns(log, new, e, conf.endpointKeys[e])
               /\ s \notin receivers => LogKeeps(log, new)
               /\ new \in Seq(Messages)
<1> DEFINE m == NewMember(e, conf)
<1>1. m \in Messages
  <2>1. conf.endpointKeys[e] \in Secrets
    BY DEF Conference, KeyMaps
  <2> QED BY <2>1 DEF NewMember, Messages
<1>2. /\ ~IsRekey(m) /\ KeyTold(m, e) = conf.endpointKeys[e]
      /\ \A x : TellsKeyOf(m, x) <=> x = e
  BY DEF NewMember, IsRekey, TellsKeyOf, KeyTold
<1> HIDE DEF m
<1>3. LogLearns(log, Append(log, m), e, conf.endpointKeys[e])
  <2>1. Append(log, m) \in Seq(Messages) /\ Extends(log, Append(log, m))
    BY <1>1, Appended DEF Extends
  <2>2. RekeyBundles(Append(log, m)) = RekeyBundles(log)
    BY <1>1, <1>2, RekeyBundlesAppend
  <2>3. InOrder(log) => InOrder(Append(log, m))
    BY <1>1, <1>2, InOrderAppend
  <2>4. \A x \in Endpoints \ {e}, key \in Secrets :
           KnowsKey(log, x, key) => KnowsKey(Append(log, m), x, key)
    BY <1>1, <1>2, KnowsKeyAppend
  <2>5. KnowsKey(Append(log, m), e, conf.endpointKeys[e])
    BY <1>1, <1>2, KnowsKeyAppend
  <2> QED BY <2>1, <2>2, <2>3, <2>4, <2>5 DEF LogLearns
<1> QED BY <1>1, <1>3, KeepsItself, ToldType DEF Told, m

LEMMA ToldRekey ==
    ASSUME NEW log \in Seq(Messages), NEW c \in Conferences, NEW conf \in Conference,
           NEW s, NEW receivers
    PROVE  LET new == Told(log, s, receivers, RekeyMessage(c, conf))
           IN  /\ s \in receivers => LogRekeyed(log, new, RekeyMessage(c, conf))
               /\ s \notin receivers => LogKeeps(log, new)
               /\ new \in Seq(Messages)
<1> DEFINE m == RekeyMessage(c, conf)
<1>1. m \in Messages
  BY BundleType
<1>2. /\ IsRekey(m)
      /\ \A x : TellsKeyOf(m, x) /\ KeyTold(m, x) = m.allKeys[x]
  BY DEF RekeyMessage, IsRekey, TellsKeyOf, KeyTold
<1> HIDE DEF m
<1>3. LogRekeyed(log, Append(log, m), m)
  <2>1. Append(log, m) \in Seq(Messages) /\ Extends(log, Append(log, m))
    BY <1>1, Appended DEF Extends
  <2>2. RekeyBundles(Append(log, m)) = RekeyBundles(log) \cup {m.bundle}
    BY <1>1, <1>2, RekeyBundlesAppend
  <2>3. (InOrder(log) /\ \A b \in RekeyBundles(log) : Older(b, m.bundle))
           => InOrder(Append(log, m))
    BY <1>1, InOrderAppend
  <2>4. \A x \in Endpoints : KnowsKey(Append(log, m), x, m.allKeys[x])
    BY <1>1, <1>2, KnowsKeyAppend
  <2> QED BY <2>1, <2>2, <2>3, <2>4 DEF LogRekeyed
<1> QED BY <1>1, <1>3, KeepsItself, ToldType DEF Told, m

-----------------------------------------------------------------------------
(* The three things a handler can do to keys and logs: welcome an endpoint,  *)
(* rotate and broadcast, or neither.                                         *)

IsFresh(d) == /\ ~Live(d) /\ clock' = Now
              /\ conferences'[d].born = Now /\ conferences'[d].kek = Now

Welcome(c, e, conf) ==
    /\ conf \in Conference
    /\ conferences' = [conferences EXCEPT ![c] = conf]
    /\ Live(c) => /\ Bundle(c, conf) = Bundle(c, conferences[c])
                  /\ \A x \in Endpoints \ {e} :
                        conf.endpointKeys[x] = conferences[c].endpointKeys[x]
    /\ ~Live(c) => IsFresh(c)
    /\ clock' = Now /\ endpointConnections' = endpointConnections /\ socket' = socket
    /\ \A s \in Sockets :
          IF s \in Receivers(endpointConnections, c, e)
          THEN LogLearns(sent[s], sent'[s], e, conf.endpointKeys[e])
          ELSE LogKeeps(sent[s], sent'[s])

Broadcast(c, conf) ==
    /\ Live(c) /\ conf \in Conference
    /\ conf.born = conferences[c].born /\ conf.kekSpi = conferences[c].kekSpi + 1
    /\ conf.e2eGroupKey = conferences[c].e2eGroupKey
    /\ conferences' = [conferences EXCEPT ![c] = conf]
    /\ clock' = Now /\ socket' = socket
    /\ endpointConnections' \in [Keys -> Sockets \cup {NoSocket}]
    /\ \A k \in Keys : endpointConnections'[k] \in {endpointConnections[k], NoSocket}
    /\ \A s \in Sockets :
          IF s \in Receivers(endpointConnections', c, NullId)
          THEN LogRekeyed(sent[s], sent'[s], RekeyMessage(c, conf))
          ELSE LogKeeps(sent[s], sent'[s])

Quiet ==
    /\ clock' \in {clock, Now}
    /\ \A d \in Conferences : Live(d)' => (conferences'[d] = conferences[d] \/ IsFresh(d))
    /\ \A s \in Sockets : LogKeeps(sent[s], sent'[s])
    /\ \A k \in Keys :
          \/ endpointConnections'[k] \in {endpointConnections[k], NoSocket}
          \/ /\ socket[endpointConnections'[k]] = Unused
             /\ socket'[endpointConnections'[k]].since = clock
             /\ conferences' = conferences

LEMMA JoinWelcomes ==
    ASSUME TypeInv, NEW c \in Conferences, NEW e \in Endpoints, Join(c, e)
    PROVE  \E conf : Welcome(c, e, conf)
<1> DEFINE was == CreatedConference(c, Now)
           conf == AddEndpoint(was, e, Now)
           R == Receivers(endpointConnections, c, e)
           F == SfuReceivers(sfuConnections, c)
<1>1. /\ conf \in Conference
      /\ conferences' = [conferences EXCEPT ![c] = conf]
      /\ \A s \in Sockets :
            sent'[s] = Told(Told(sent[s], s, R, NewMember(e, conf)), s, F, Joined(e))
  BY JoinLogs
<1>2. /\ clock' = Now /\ endpointConnections' = endpointConnections /\ socket' = socket
      /\ conferences'[c] = conf
  BY <1>1 DEF Join, Tick, Now, TypeInv, TypeOK
<1>3. TypeOK /\ Now \in Drawn
  BY NowIsDrawn DEF TypeInv
<1>4. /\ was \in Conference
      /\ Live(c) => was = conferences[c]
      /\ ~Live(c) => was = NewConference(Now)
  BY <1>3, CreatedConferenceFacts
<1>5. NewConference(Now).born = Now /\ NewConference(Now).kek = Now
  BY <1>3, NewConferenceFacts
<1>6. Addition(was, e, Now, conf)
  BY <1>3, <1>4, AddEndpointFacts
<1> HIDE DEF was, conf, R, F
<1>7. ASSUME Live(c)
      PROVE  /\ Bundle(c, conf) = Bundle(c, conferences[c])
             /\ \A x \in Endpoints \ {e} :
                   conf.endpointKeys[x] = conferences[c].endpointKeys[x]
  <2>1. was.endpointKeys \in [Endpoints -> Secrets]
    BY <1>4 DEF Conference, KeyMaps
  <2> QED BY <1>4, <1>6, <1>7, <2>1 DEF Addition, Bundle
<1>8. ~Live(c) => IsFresh(c)
  BY <1>2, <1>4, <1>5, <1>6 DEF Addition, IsFresh
<1>9. ASSUME NEW s \in Sockets
      PROVE  IF s \in R THEN LogLearns(sent[s], sent'[s], e, conf.endpointKeys[e])
                        ELSE LogKeeps(sent[s], sent'[s])
  <2> DEFINE first == Told(sent[s], s, R, NewMember(e, conf))
  <2>1. /\ s \in R => LogLearns(sent[s], first, e, conf.endpointKeys[e])
        /\ s \notin R => LogKeeps(sent[s], first)
        /\ first \in Seq(Messages)
    BY <1>1, SentType, ToldNewMember
  <2>2. Joined(e) \in Messages /\ Joined(e).type \notin {"rekey", "new_member"}
    BY <1>1, MessageTypes DEF Joined
  <2>3. conf.endpointKeys[e] \in Secrets
    BY <1>1 DEF Conference, KeyMaps
  <2>4. sent'[s] = Told(first, s, F, Joined(e))
    BY <1>1
  <2> HIDE DEF first
  <2>5. LogKeeps(first, sent'[s])
    BY <2>1, <2>2, <2>4, ToldAside
  <2> QED BY <2>1, <2>3, <2>5, KeepsThen
<1>10. Welcome(c, e, conf)
  BY <1>1, <1>2, <1>7, <1>8, <1>9 DEF Welcome, R
<1> QED BY <1>10

LEMMA LeaveBroadcasts ==
    ASSUME TypeInv, NEW c \in Conferences, NEW e \in Endpoints, Leave(c, e),
           RemoveEndpoint(conferences[c], e, Now).endpoints # {}
    PROVE  \E conf : Broadcast(c, conf)
<1> DEFINE conf == RemoveEndpoint(conferences[c], e, Now)
           R == Receivers(endpointConnections', c, NullId)
           F == SfuReceivers(sfuConnections, c)
           rekey == RekeyMessage(c, conf)
<1>1. /\ conf \in Conference
      /\ conferences' = [conferences EXCEPT ![c] = conf]
      /\ \A s \in Sockets :
            sent'[s] = Told(Told(Told(sent[s], s, R, rekey), s, F, Notice),
                            s, F, LeftMessage(e))
  BY LeaveLogs
<1>2. Removal(conferences[c], e, Now, conf)
  BY NowIsDrawn, LiveConference, RemoveEndpointFacts DEF TypeInv, Leave
<1>3. Live(c) /\ clock' = Now /\ socket' = socket /\ conf.endpoints # {}
  BY DEF Leave, Tick, Now
<1>4. /\ endpointConnections' \in [Keys -> Sockets \cup {NoSocket}]
      /\ \A k \in Keys : endpointConnections'[k] \in {endpointConnections[k], NoSocket}
  <2>1. endpointConnections' = [endpointConnections EXCEPT ![c \o e] = NoSocket]
    BY DEF Leave
  <2> QED BY <2>1 DEF TypeInv, TypeOK
<1> HIDE DEF conf, R, F
<1>5. /\ conf.born = conferences[c].born /\ conf.kekSpi = conferences[c].kekSpi + 1
      /\ conf.e2eGroupKey = conferences[c].e2eGroupKey
  BY <1>2, <1>3 DEF Removal
<1>6. ASSUME NEW s \in Sockets
      PROVE  IF s \in R THEN LogRekeyed(sent[s], sent'[s], rekey)
                        ELSE LogKeeps(sent[s], sent'[s])
  <2> DEFINE first == Told(sent[s], s, R, rekey)
             second == Told(first, s, F, Notice)
  <2>1. /\ s \in R => LogRekeyed(sent[s], first, rekey)
        /\ s \notin R => LogKeeps(sent[s], first)
        /\ first \in Seq(Messages)
    BY <1>1, SentType, ToldRekey
  <2>2. /\ Notice \in Messages /\ Notice.type \notin {"rekey", "new_member"}
        /\ LeftMessage(e) \in Messages /\ LeftMessage(e).type \notin {"rekey", "new_member"}
    BY <1>1, MessageTypes DEF Notice, LeftMessage
  <2>3. rekey.allKeys \in KeyMaps
    BY <1>1 DEF Conference, RekeyMessage
  <2>4. sent'[s] = Told(second, s, F, LeftMessage(e))
    BY <1>1
  <2> HIDE DEF first, rekey
  <2>5. second \in Seq(Messages) /\ LogKeeps(first, second)
    BY <2>1, <2>2, ToldType, ToldAside
  <2> HIDE DEF second
  <2>6. LogKeeps(second, sent'[s])
    BY <2>2, <2>4, <2>5, ToldAside
  <2>7. LogKeeps(first, sent'[s])
    BY <2>5, <2>6, KeepsThen
  <2> QED BY <2>1, <2>3, <2>7, KeepsThen
<1>7. Broadcast(c, conf)
  BY <1>1, <1>3, <1>4, <1>5, <1>6 DEF Broadcast, R
<1> QED BY <1>7

LEMMA RequestRekeyBroadcasts ==
    ASSUME TypeInv, NEW t \in Sockets, RequestRekey(t)
    PROVE  \E c \in Conferences : \E conf : Broadcast(c, conf)
<1>1. socket[t].conf \in Conferences /\ socket[t].endpoint \in Endpoints
  BY OpenSocket, SocketFacts DEF RequestRekey, TypeInv
<1> SUFFICES ASSUME NEW c \in Conferences, c = socket[t].conf,
                    NEW e \in Endpoints, e = socket[t].endpoint,
                    NEW conf, conf = Rotated(conferences[c], e, Now)
             PROVE  Broadcast(c, conf)
  BY <1>1
<1>2. /\ Live(c) /\ Rotation(conferences[c], e, Now, conf)
      /\ conferences' = [conferences EXCEPT ![c] = conf]
      /\ \A s \in Sockets : sent'[s] = Told(sent[s], s,
            Receivers(endpointConnections, c, NullId), RekeyMessage(c, conf))
  BY RequestRekeyLogs
<1>3. /\ clock' = Now /\ socket' = socket /\ endpointConnections' = endpointConnections
      /\ endpointConnections \in [Keys -> Sockets \cup {NoSocket}]
  BY DEF RequestRekey, Tick, Now, TypeInv, TypeOK
<1>4. /\ conf \in Conference
      /\ conf.born = conferences[c].born /\ conf.kekSpi = conferences[c].kekSpi + 1
      /\ conf.e2eGroupKey = conferences[c].e2eGroupKey
  BY <1>2 DEF Rotation
<1>5. ASSUME NEW s \in Sockets
      PROVE  IF s \in Receivers(endpointConnections, c, NullId)
             THEN LogRekeyed(sent[s], sent'[s], RekeyMessage(c, conf))
             ELSE LogKeeps(sent[s], sent'[s])
  BY <1>2, <1>4, SentType, ToldRekey
<1> QED BY <1>2, <1>3, <1>4, <1>5 DEF Broadcast

LEMMA QuietFacts ==
    ASSUME TypeInv, clock' \in {clock, Now}, conferences' = conferences,
           \A s \in Sockets : LogKeeps(sent[s], sent'[s]),
           \A k \in Keys : endpointConnections'[k] \in {endpointConnections[k], NoSocket}
    PROVE  Quiet
BY DEF Quiet

LEMMA SentUnchanged ==
    ASSUME TypeInv, sent' = sent
    PROVE  \A s \in Sockets : LogKeeps(sent[s], sent'[s])
BY SentType, KeepsItself

LEMMA CreateQuiet ==
    ASSUME TypeInv, NEW c \in Conferences, CreateConference(c)
    PROVE  Quiet
<1>1. /\ ~Live(c) /\ conferences' = [conferences EXCEPT ![c] = NewConference(Now)]
      /\ clock' = Now /\ sent' = sent /\ endpointConnections' = endpointConnections
  BY DEF CreateConference, Tick, Now
<1>2. NewConference(Now).born = Now /\ NewConference(Now).kek = Now
  BY NowIsDrawn, NewConferenceFacts DEF TypeInv
<1>3. \A d \in Conferences : conferences'[d] = conferences[d] \/ IsFresh(d)
  BY <1>1, <1>2 DEF IsFresh, TypeInv, TypeOK
<1> QED BY <1>1, <1>3, SentUnchanged DEF Quiet

LEMMA LeaveLastQuiet ==
    ASSUME TypeInv, NEW c \in Conferences, NEW e \in Endpoints, Leave(c, e),
           RemoveEndpoint(conferences[c], e, Now).endpoints = {}
    PROVE  Quiet
<1>1. conferences' = [conferences EXCEPT ![c] = NoConference] /\ sent' = sent
  BY LeaveLastLogs
<1>2. /\ clock' = Now
      /\ endpointConnections' = [endpointConnections EXCEPT ![c \o e] = NoSocket]
  BY DEF Leave, Tick, Now
<1>3. \A k \in Keys : endpointConnections'[k] \in {endpointConnections[k], NoSocket}
  BY <1>2 DEF TypeInv, TypeOK
<1>4. \A d \in Conferences : Live(d)' => conferences'[d] = conferences[d]
  BY <1>1 DEF TypeInv, TypeOK, Live, NoConference
<1> QED BY <1>1, <1>2, <1>3, <1>4, SentUnchanged DEF Quiet

LEMMA ConnectQuiet ==
    ASSUME TypeInv, NEW t \in Sockets, NEW c \in Conferences, NEW e \in Endpoints,
           EndpointConnect(t, c, e)
    PROVE  Quiet
<1> DEFINE accepted == [state |-> "open", role |-> "endpoint", conf |-> c,
                        endpoint |-> e, since |-> clock]
<1>1. /\ socket[t] = Unused /\ socket' = [socket EXCEPT ![t] = accepted]
      /\ endpointConnections' = [endpointConnections EXCEPT ![c \o e] = t]
      /\ conferences' = conferences /\ sent' = sent /\ clock' = clock
  BY DEF EndpointConnect
<1>2. socket'[t] = accepted
  BY <1>1 DEF TypeInv, TypeOK
<1>3. socket'[t].since = clock
  BY <1>2
<1> HIDE DEF accepted
<1>4. \A k \in Keys : endpointConnections'[k] \in {endpointConnections[k], t}
  BY <1>1 DEF TypeInv, TypeOK
<1> QED BY <1>1, <1>3, <1>4, SentUnchanged DEF Quiet

LEMMA AsideQuiet ==
    ASSUME TypeInv, conferences' = conferences, clock' \in {clock, Now},
           endpointConnections' = endpointConnections,
           NEW m \in Messages, m.type \notin {"rekey", "new_member"}, NEW receivers,
           \A s \in Sockets : sent'[s] = Told(sent[s], s, receivers, m)
    PROVE  Quiet
<1>1. \A s \in Sockets : LogKeeps(sent[s], sent'[s])
  BY SentType, ToldAside
<1> QED BY <1>1, QuietFacts

(* Every handler and socket event is one of the three.                       *)
LEMMA KeyMoves ==
    ASSUME TypeInv, [Next]_vars
    PROVE  \/ \E c \in Conferences, e \in Endpoints : \E conf : Welcome(c, e, conf)
           \/ \E c \in Conferences : \E conf : Broadcast(c, conf)
           \/ Quiet
<1>1. ASSUME NEW c \in Conferences, NEW e \in Endpoints, Leave(c, e)
      PROVE  Quiet \/ \E conf : Broadcast(c, conf)
  BY <1>1, LeaveBroadcasts, LeaveLastQuiet
<1>2. ASSUME NEW t \in Sockets, NEW c \in Conferences, SfuConnect(t, c)
      PROVE  Quiet
  <2>1. /\ conferences' = conferences /\ clock' = clock
        /\ endpointConnections' = endpointConnections
    BY <1>2 DEF SfuConnect
  <2>2. CASE ~Live(c)
    BY <1>2, <2>1, <2>2, SfuConnectLogs, SentUnchanged, QuietFacts
  <2>3. CASE Live(c)
    <3>1. PICK m \in Messages :
             /\ m.type = "conference_state"
             /\ \A s \in Sockets : sent'[s] = Told(sent[s], s, {t}, m)
      BY <1>2, <2>3, SfuConnectLogs
    <3> QED BY <2>1, <3>1, AsideQuiet
  <2> QED BY <2>2, <2>3
<1>3. ASSUME NEW t \in Sockets, ForwardEktTag(t)
      PROVE  Quiet
  <2>1. PICK m, R :
           /\ m \in Messages /\ m.type = "peer_ekt_tag"
           /\ \A s \in Sockets : sent'[s] = Told(sent[s], s, R, m)
    BY <1>3, ForwardLogs
  <2>2. conferences' = conferences /\ clock' = Now /\ endpointConnections' = endpointConnections
    BY <1>3 DEF ForwardEktTag, Tick, Now
  <2> QED BY <2>1, <2>2, AsideQuiet
<1>4. ASSUME NEW t \in Sockets, RequestKeys(t)
      PROVE  Quiet
  <2>1. PICK m, R :
           /\ m \in Messages /\ m.type = "conference_keys"
           /\ \A s \in Sockets : sent'[s] = Told(sent[s], s, R, m)
    BY <1>4, RequestKeysLogs
  <2>2. conferences' = conferences /\ clock' = Now /\ endpointConnections' = endpointConnections
    BY <1>4 DEF RequestKeys, Tick, Now
  <2> QED BY <2>1, <2>2, AsideQuiet
<1>5. ASSUME NEW t \in Sockets, Disconnect(t) \/ EndpointClosed(t) \/ SfuClosed(t)
      PROVE  Quiet
  <2>1. /\ conferences' = conferences /\ clock' = clock /\ sent' = sent
        /\ \A k \in Keys : endpointConnections'[k] \in {endpointConnections[k], NoSocket}
    BY <1>5 DEF Disconnect, EndpointClosed, SfuClosed, TypeInv, TypeOK
  <2> QED BY <2>1, SentUnchanged, QuietFacts
<1>6. CASE UNCHANGED vars
  BY <1>6, SentUnchanged, QuietFacts DEF vars
<1>7. ASSUME NEW c \in Conferences, CreateConference(c)
      PROVE  Quiet
  BY <1>7, CreateQuiet
<1>8. ASSUME NEW c \in Conferences, NEW e \in Endpoints, Join(c, e)
      PROVE  \E conf : Welcome(c, e, conf)
  BY <1>8, JoinWelcomes
<1>9. ASSUME NEW t \in Sockets, NEW c \in Conferences, NEW e \in Endpoints,
             EndpointConnect(t, c, e)
      PROVE  Quiet
  BY <1>9, ConnectQuiet
<1>10. ASSUME NEW t \in Sockets, RequestRekey(t)
       PROVE  \E c \in Conferences : \E conf : Broadcast(c, conf)
  BY <1>10, RequestRekeyBroadcasts
<1> QED BY <1>1, <1>2, <1>3, <1>4, <1>5, <1>6, <1>7, <1>8, <1>9, <1>10 DEF Next

(* What a bundle says of its conference.                                     *)
LEMMA SameBundle ==
    ASSUME NEW c, NEW a, NEW b, Bundle(c, a) = Bundle(c, b)
    PROVE  /\ a.born = b.born /\ a.kek = b.kek /\ a.kekSpi = b.kekSpi
           /\ a.e2eGroupKey = b.e2eGroupKey
BY DEF Bundle

(* What the three have in common: a conference that is live afterwards is    *)
(* fresh, or the same object with the same media key at the same epoch or    *)
(* the next; a log only grows, and the one rekey it may get is of an epoch   *)
(* that has just begun.                                                      *)
Rotates(c) == /\ Live(c) /\ Live(c)'
              /\ conferences'[c].born = conferences[c].born
              /\ conferences'[c].e2eGroupKey = conferences[c].e2eGroupKey
              /\ conferences'[c].kekSpi = conferences[c].kekSpi + 1

Remains(c) == /\ Live(c) /\ Live(c)'
              /\ Bundle(c, conferences'[c]) = Bundle(c, conferences[c])

LEMMA RemainsUnchanged ==
    ASSUME NEW c, conferences'[c] = conferences[c], Live(c)'
    PROVE  Remains(c)
BY DEF Remains, Live

LEMMA StepFacts ==
    ASSUME TypeInv, [Next]_vars
    PROVE  /\ clock' \in {clock, Now}
           /\ \A d \in Conferences : Live(d)' => (IsFresh(d) \/ Remains(d) \/ Rotates(d))
           /\ \A s \in Sockets :
                 /\ Extends(sent[s], sent'[s])
                 /\ \/ RekeyBundles(sent'[s]) = RekeyBundles(sent[s])
                    \/ \E c \in Conferences :
                          /\ Rotates(c)
                          /\ RekeyBundles(sent'[s])
                                = RekeyBundles(sent[s]) \cup {Bundle(c, conferences'[c])}
<1>1. CASE Quiet
  BY <1>1, RemainsUnchanged DEF Quiet, LogKeeps
<1>2. ASSUME NEW c \in Conferences, NEW e \in Endpoints, NEW conf, Welcome(c, e, conf)
      PROVE  /\ clock' \in {clock, Now}
             /\ \A d \in Conferences : Live(d)' => (IsFresh(d) \/ Remains(d) \/ Rotates(d))
             /\ \A s \in Sockets : /\ Extends(sent[s], sent'[s])
                                   /\ RekeyBundles(sent'[s]) = RekeyBundles(sent[s])
  <2>1. conferences'[c] = conf /\ \A d \in Conferences \ {c} : conferences'[d] = conferences[d]
    BY <1>2 DEF Welcome, TypeInv, TypeOK
  <2>2. Live(c)' => (IsFresh(c) \/ Remains(c))
    BY <1>2, <2>1 DEF Welcome, Remains
  <2>3. \A d \in Conferences \ {c} : Live(d)' => Remains(d)
    BY <2>1, RemainsUnchanged
  <2>4. \A s \in Sockets : /\ Extends(sent[s], sent'[s])
                           /\ RekeyBundles(sent'[s]) = RekeyBundles(sent[s])
    BY <1>2 DEF Welcome, LogKeeps, LogLearns
  <2> QED BY <1>2, <2>2, <2>3, <2>4 DEF Welcome
<1>3. ASSUME NEW c \in Conferences, NEW conf, Broadcast(c, conf)
      PROVE  /\ clock' \in {clock, Now}
             /\ \A d \in Conferences : Live(d)' => (IsFresh(d) \/ Remains(d) \/ Rotates(d))
             /\ \A s \in Sockets :
                   /\ Extends(sent[s], sent'[s])
                   /\ \/ RekeyBundles(sent'[s]) = RekeyBundles(sent[s])
                      \/ /\ Rotates(c)
                         /\ RekeyBundles(sent'[s])
                               = RekeyBundles(sent[s]) \cup {Bundle(c, conferences'[c])}
  <2>1. conferences'[c] = conf /\ \A d \in Conferences \ {c} : conferences'[d] = conferences[d]
    BY <1>3 DEF Broadcast, TypeInv, TypeOK
  <2>2. Rotates(c)
    BY <1>3, <2>1 DEF Broadcast, Rotates, Live
  <2>3. \A d \in Conferences \ {c} : Live(d)' => Remains(d)
    BY <2>1, RemainsUnchanged
  <2>4. RekeyMessage(c, conf).bundle = Bundle(c, conf)
    BY DEF RekeyMessage
  <2>5. \A s \in Sockets :
           /\ Extends(sent[s], sent'[s])
           /\ \/ RekeyBundles(sent'[s]) = RekeyBundles(sent[s])
              \/ RekeyBundles(sent'[s]) = RekeyBundles(sent[s]) \cup {Bundle(c, conf)}
    BY <1>3, <2>4 DEF Broadcast, LogKeeps, LogRekeyed
  <2> QED BY <1>3, <2>1, <2>2, <2>3, <2>5 DEF Broadcast
<1> QED BY <1>1, <1>2, <1>3, KeyMoves

-----------------------------------------------------------------------------
(* The invariant.  RekeysOwn is what makes the next rekey newer than all     *)
(* those before: whatever a socket was sent is of its own conference, and    *)
(* not newer than the epoch that conference is at.                           *)

NotNewer(b, conf) == Older(b, conf) \/ (b.born = conf.born /\ b.kekSpi = conf.kekSpi)

RekeysOwn ==
    \A s \in Sockets : \A b \in RekeyBundles(sent[s]) :
        /\ b.conf = socket[s].conf
        /\ b.born <= clock
        /\ Live(b.conf) => NotNewer(b, conferences[b.conf])

(* Whoever is registered and ever had a rekey from the present conference    *)
(* had the one of the present epoch.                                         *)
RekeyedToDate ==
    \A c \in Conferences, e \in Endpoints :
        LET s == endpointConnections[c \o e]
            rekeyed == \E b \in RekeyBundles(sent[s]) : b.born = conferences[c].born
        IN  (Live(c) /\ s # NoSocket) =>
                ((IsOpen(s) /\ rekeyed) => Bundle(c, conferences[c]) \in RekeyBundles(sent[s]))

RekeyInv ==
    /\ SilentUntilAccepted
    /\ RekeysOwn
    /\ RekeysInOrder
    /\ RekeyedToDate
    /\ RegisteredUpToDate
    /\ PeerKeysAccurate

LEMMA RekeyBundleFacts ==
    ASSUME TypeInv, SilentUntilAccepted, NEW s \in Sockets, NEW b \in RekeyBundles(sent[s])
    PROVE  /\ b \in Bundles /\ b.born \in Nat /\ b.kekSpi \in Nat /\ b.conf \in Conferences
           /\ socket[s] # Unused
<1>1. PICK i \in DOMAIN sent[s] : IsRekey(sent[s][i]) /\ b = sent[s][i].bundle
  BY DEF RekeyBundles
<1>2. sent[s][i] \in Messages
  BY <1>1, SentType
<1>3. b \in Bundles
  BY <1>1, <1>2 DEF Messages, IsRekey
<1>4. sent[s] # <<>>
  BY <1>1
<1>5. socket[s] # Unused
  BY <1>4 DEF SilentUntilAccepted
<1> QED BY <1>3, <1>5 DEF Bundles

LEMMA ConferenceNumbers ==
    ASSUME NEW conf \in Conference
    PROVE  /\ conf.born \in Nat /\ conf.kekSpi \in Nat /\ conf.kek \in Nat
           /\ conf.born # 0
BY DEF Conference, Drawn

(* A bundle from before is not newer than a conference that kept its epoch,  *)
(* took the next one or is fresh.                                            *)
LEMMA StillNotNewer ==
    ASSUME TypeInv, SilentUntilAccepted, RekeysOwn, NEW s \in Sockets,
           NEW b \in RekeyBundles(sent[s]), NEW d, d = b.conf,
           clock' \in {clock, Now}, Live(d)',
           \/ conferences'[d] = conferences[d]
           \/ IsFresh(d)
           \/ /\ Live(d) /\ conferences'[d].born = conferences[d].born
              /\ conferences'[d].kekSpi \in {conferences[d].kekSpi, conferences[d].kekSpi + 1}
    PROVE  /\ b.born <= clock'
           /\ NotNewer(b, conferences'[d])
<1>1. /\ b.born \in Nat /\ b.kekSpi \in Nat /\ d \in Conferences
      /\ b.born <= clock /\ clock \in Nat /\ Now = clock + 1
  BY RekeyBundleFacts DEF RekeysOwn, TypeInv, TypeOK, Now
<1>2. Live(d) => /\ conferences[d].born \in Nat /\ conferences[d].kekSpi \in Nat
                 /\ NotNewer(b, conferences[d])
  BY <1>1, LiveConference, ConferenceNumbers DEF RekeysOwn, TypeInv
<1>3. CASE conferences'[d] = conferences[d]
  <2>1. Live(d)
    BY <1>3 DEF Live
  <2> QED BY <1>1, <1>2, <1>3, <2>1
<1>4. CASE IsFresh(d)
  BY <1>1, <1>4 DEF IsFresh, NotNewer, Older
<1>5. CASE /\ Live(d) /\ conferences'[d].born = conferences[d].born
           /\ conferences'[d].kekSpi \in {conferences[d].kekSpi, conferences[d].kekSpi + 1}
  BY <1>1, <1>2, <1>5 DEF NotNewer, Older
<1> QED BY <1>3, <1>4, <1>5

(* A log that got no rekey.                                                  *)
LEMMA OrderKept ==
    ASSUME TypeInv, SilentUntilAccepted, RekeysOwn, [Next]_vars, NEW s \in Sockets,
           RekeyBundles(sent'[s]) = RekeyBundles(sent[s]),
           clock' \in {clock, Now},
           \A d \in Conferences : Live(d)' =>
              \/ conferences'[d] = conferences[d]
              \/ IsFresh(d)
              \/ /\ Live(d) /\ conferences'[d].born = conferences[d].born
                 /\ conferences'[d].kekSpi \in {conferences[d].kekSpi, conferences[d].kekSpi + 1}
    PROVE  \A b \in RekeyBundles(sent'[s]) :
              /\ b.conf = socket'[s].conf
              /\ b.born <= clock'
              /\ Live(b.conf)' => NotNewer(b, conferences'[b.conf])
<1> SUFFICES ASSUME NEW b \in RekeyBundles(sent[s])
             PROVE  /\ b.conf = socket'[s].conf
                    /\ b.born <= clock'
                    /\ Live(b.conf)' => NotNewer(b, conferences'[b.conf])
  OBVIOUS
<1>1. b.conf \in Conferences /\ b.born \in Nat /\ socket[s] # Unused
  BY RekeyBundleFacts
<1>2. b.conf = socket'[s].conf
  BY <1>1, SocketsKept DEF SameOwner, RekeysOwn
<1>3. b.born <= clock'
  BY <1>1 DEF RekeysOwn, Now, TypeInv, TypeOK
<1>4. ASSUME Live(b.conf)' PROVE NotNewer(b, conferences'[b.conf])
  BY <1>1, <1>4, StillNotNewer
<1> QED BY <1>2, <1>3, <1>4

LEMMA WelcomeOrder ==
    ASSUME TypeInv, RekeyInv, [Next]_vars, NEW c \in Conferences, NEW e \in Endpoints,
           NEW conf, Welcome(c, e, conf)
    PROVE  RekeysOwn' /\ RekeysInOrder'
<1>1. \A s \in Sockets : /\ RekeyBundles(sent'[s]) = RekeyBundles(sent[s])
                         /\ InOrder(sent[s]) => InOrder(sent'[s])
  BY DEF Welcome, LogKeeps, LogLearns
<1>2. \A d \in Conferences : Live(d)' =>
         \/ conferences'[d] = conferences[d]
         \/ IsFresh(d)
         \/ /\ Live(d) /\ conferences'[d].born = conferences[d].born
            /\ conferences'[d].kekSpi \in {conferences[d].kekSpi, conferences[d].kekSpi + 1}
  <2>1. conferences'[c] = conf /\ \A d \in Conferences \ {c} : conferences'[d] = conferences[d]
    BY DEF Welcome, TypeInv, TypeOK
  <2>2. Live(c) => conf.born = conferences[c].born /\ conf.kekSpi = conferences[c].kekSpi
    BY DEF Welcome, Bundle
  <2>3. ~Live(c) => IsFresh(c)
    BY DEF Welcome
  <2> QED BY <2>1, <2>2, <2>3
<1>3. clock' \in {clock, Now} /\ SilentUntilAccepted /\ RekeysOwn
  BY DEF Welcome, RekeyInv
<1>4. RekeysOwn'
  BY <1>1, <1>2, <1>3, OrderKept DEF RekeysOwn
<1> QED BY <1>1, <1>4 DEF RekeyInv, RekeysInOrder, InOrder

LEMMA QuietOrder ==
    ASSUME TypeInv, RekeyInv, [Next]_vars, Quiet
    PROVE  RekeysOwn' /\ RekeysInOrder'
<1>1. \A s \in Sockets : /\ RekeyBundles(sent'[s]) = RekeyBundles(sent[s])
                         /\ InOrder(sent[s]) => InOrder(sent'[s])
  BY DEF Quiet, LogKeeps
<1>2. RekeysOwn'
  BY <1>1, OrderKept DEF RekeysOwn, RekeyInv, Quiet
<1> QED BY <1>1, <1>2 DEF RekeyInv, RekeysInOrder, InOrder

LEMMA BroadcastOrder ==
    ASSUME IdsApart, TypeInv, KeyInv, RekeyInv, [Next]_vars, NEW c \in Conferences,
           NEW conf, Broadcast(c, conf)
    PROVE  RekeysOwn' /\ RekeysInOrder'
<1> DEFINE R == Receivers(endpointConnections', c, NullId)
           new == Bundle(c, conf)
<1>1. /\ conferences'[c] = conf /\ \A d \in Conferences \ {c} : conferences'[d] = conferences[d]
      /\ Live(c) /\ Live(c)' /\ conf \in Conference /\ clock' = Now
      /\ conf.born = conferences[c].born /\ conf.kekSpi = conferences[c].kekSpi + 1
  <2>1. conferences'[c] = conf /\ \A d \in Conferences \ {c} : conferences'[d] = conferences[d]
    BY DEF Broadcast, TypeInv, TypeOK
  <2>2. Live(c)'
    BY <2>1, ConferenceNumbers DEF Broadcast, Live
  <2> QED BY <2>1, <2>2 DEF Broadcast
<1>2. /\ conf.born \in Nat /\ conf.kekSpi \in Nat
      /\ conferences[c].born \in Nat /\ conferences[c].kekSpi \in Nat
      /\ new.conf = c /\ new.born = conf.born /\ new.kekSpi = conf.kekSpi
      /\ clock \in Nat /\ Now = clock + 1
  BY <1>1, ConferenceNumbers, LiveConference DEF TypeInv, TypeOK, Now, Bundle
<1>3. SilentUntilAccepted /\ RekeysOwn /\ RekeysInOrder
  BY DEF RekeyInv
<1>4. \A d \in Conferences : Live(d)' =>
         \/ conferences'[d] = conferences[d]
         \/ IsFresh(d)
         \/ /\ Live(d) /\ conferences'[d].born = conferences[d].born
            /\ conferences'[d].kekSpi \in {conferences[d].kekSpi, conferences[d].kekSpi + 1}
  BY <1>1
<1>5. \A s \in Sockets : InOrder(sent[s])
  BY <1>3 DEF RekeysInOrder, InOrder
<1>6. ASSUME NEW s \in Sockets, s \notin R
      PROVE  /\ RekeyBundles(sent'[s]) = RekeyBundles(sent[s])
             /\ InOrder(sent'[s])
  BY <1>5, <1>6 DEF Broadcast, LogKeeps
<1>7. ASSUME NEW s \in Sockets, s \in R
      PROVE  /\ socket'[s].conf = c
             /\ RekeyBundles(sent'[s]) = RekeyBundles(sent[s]) \cup {new}
             /\ InOrder(sent'[s])
  <2>1. socket[s].conf = c /\ socket'[s].conf = c
    BY <1>7, Reach DEF Broadcast
  <2>2. LogRekeyed(sent[s], sent'[s], RekeyMessage(c, conf)) /\ RekeyMessage(c, conf).bundle = new
    BY <1>7 DEF Broadcast, RekeyMessage
  <2>3. ASSUME NEW b \in RekeyBundles(sent[s])
        PROVE  Older(b, new)
    <3>1. b.conf = c /\ NotNewer(b, conferences[c]) /\ b.born \in Nat /\ b.kekSpi \in Nat
      BY <1>1, <1>3, <2>1, RekeyBundleFacts DEF RekeysOwn
    <3> QED BY <1>1, <1>2, <3>1 DEF NotNewer, Older
  <2> QED BY <1>5, <2>1, <2>2, <2>3 DEF LogRekeyed
<1>8. RekeysInOrder'
  BY <1>6, <1>7 DEF RekeysInOrder, InOrder
<1>9. ASSUME NEW s \in Sockets, NEW b \in RekeyBundles(sent'[s])
      PROVE  /\ b.conf = socket'[s].conf
             /\ b.born <= clock'
             /\ Live(b.conf)' => NotNewer(b, conferences'[b.conf])
  <2>1. CASE s \notin R
    BY <1>1, <1>3, <1>4, <1>6, <2>1, OrderKept
  <2>2. CASE s \in R /\ b \in RekeyBundles(sent[s])
    <3>1. b.conf = c /\ b.born <= clock /\ b.born \in Nat
      BY <1>3, <2>2, Reach, RekeyBundleFacts DEF RekeysOwn, Broadcast
    <3>2. NotNewer(b, conferences'[c])
      BY <1>1, <1>3, <1>4, <3>1, <2>2, StillNotNewer
    <3> QED BY <1>1, <1>2, <1>7, <2>2, <3>1, <3>2
  <2>3. CASE s \in R /\ b = new
    <3>1. conferences[c].born <= clock
      BY <1>1 DEF KeyInv, DrawnBefore
    <3> QED BY <1>1, <1>2, <1>7, <2>3, <3>1 DEF NotNewer
  <2> QED BY <1>7, <2>1, <2>2, <2>3
<1> QED BY <1>8, <1>9 DEF RekeysOwn

LEMMA OrderNext ==
    ASSUME IdsApart, TypeInv, KeyInv, RekeyInv, [Next]_vars
    PROVE  RekeysOwn' /\ RekeysInOrder'
BY KeyMoves, WelcomeOrder, BroadcastOrder, QuietOrder

-----------------------------------------------------------------------------
(* Whoever is registered is told.                                            *)

LEMMA UpToDateFacts ==
    ASSUME NEW s, NEW c
    PROVE  UpToDate(s, c) <=> \/ conferences[c].kek <= socket[s].since
                              \/ conferences[c].kek = conferences[c].born
                              \/ Bundle(c, conferences[c]) \in RekeyBundles(sent[s])
BY DEF UpToDate, RekeyBundles

(* What a step is for a socket s that is registered for e of c, and open,    *)
(* after it, when c is live: s has just connected, or it was registered and  *)
(* the conference is fresh, or kept its bundle, and then s still knows the   *)
(* keys it knew, or rotated, and then s was sent the rekey.                  *)
JustConnected(s) ==
    /\ socket[s] = Unused /\ socket'[s].since = clock
    /\ conferences' = conferences
    /\ RekeyBundles(sent'[s]) = RekeyBundles(sent[s])

WasRegistered(s, c, e) ==
    /\ s = endpointConnections[c \o e] /\ s \in Sockets
    /\ IsOpen(s) /\ socket'[s].since = socket[s].since

FreshFor(s, c) ==
    /\ IsFresh(c)
    /\ RekeyBundles(sent'[s]) = RekeyBundles(sent[s])

KeptFor(s, c, e) ==
    /\ Live(c)
    /\ Bundle(c, conferences'[c]) = Bundle(c, conferences[c])
    /\ RekeyBundles(sent'[s]) = RekeyBundles(sent[s])
    /\ \A x \in Endpoints \ {e} :
          KnowsKey(sent[s], x, conferences[c].endpointKeys[x])
             => KnowsKey(sent'[s], x, conferences'[c].endpointKeys[x])

RekeyedFor(s, c) == LogRekeyed(sent[s], sent'[s], RekeyMessage(c, conferences'[c]))

LEMMA EndpointKeyIsSecret ==
    ASSUME TypeInv, NEW c \in Conferences, Live(c), NEW x \in Endpoints
    PROVE  conferences[c].endpointKeys[x] \in Secrets
<1>1. conferences[c] \in Conference
  BY LiveConference DEF TypeInv
<1> QED BY <1>1 DEF Conference, KeyMaps

LEMMA KeptForUnchanged ==
    ASSUME TypeInv, NEW c \in Conferences, NEW e, NEW s,
           conferences'[c] = conferences[c], Live(c)', LogKeeps(sent[s], sent'[s])
    PROVE  KeptFor(s, c, e)
<1>1. Live(c)
  BY DEF Live
<1>2. \A x \in Endpoints : conferences[c].endpointKeys[x] \in Secrets
  BY <1>1, EndpointKeyIsSecret
<1> QED BY <1>1, <1>2 DEF LogKeeps, KeptFor

LEMMA RegisteredStep ==
    ASSUME IdsApart, TypeInv, [Next]_vars, NEW c \in Conferences, NEW e \in Endpoints,
           NEW s, s = endpointConnections'[c \o e], s # NoSocket, IsOpen(s)', Live(c)'
    PROVE  \/ s \in Sockets /\ JustConnected(s)
           \/ /\ WasRegistered(s, c, e)
              /\ FreshFor(s, c) \/ KeptFor(s, c, e) \/ RekeyedFor(s, c)
<1>0. TypeInv'
  BY TypeNext
<1>1. s \in Sockets
  BY <1>0, KeyIsKey DEF TypeInv, TypeOK
<1>2. ASSUME s = endpointConnections[c \o e]
      PROVE  WasRegistered(s, c, e) /\ socket[s].conf = c
  <2>1. socket[s] # Unused /\ socket[s].conf = c
    BY <1>2, RegisteredFor
  <2> QED BY <1>1, <1>2, <2>1, SocketsKept DEF SameOwner, WasRegistered
<1>3. CASE Quiet
  <2>1. CASE endpointConnections'[c \o e] \in {endpointConnections[c \o e], NoSocket}
    <3>1. WasRegistered(s, c, e) /\ LogKeeps(sent[s], sent'[s])
      BY <1>1, <1>2, <1>3, <2>1 DEF Quiet
    <3>2. CASE IsFresh(c)
      BY <3>1, <3>2 DEF FreshFor, LogKeeps
    <3>3. CASE conferences'[c] = conferences[c]
      BY <3>1, <3>3, KeptForUnchanged
    <3> QED BY <1>3, <3>1, <3>2, <3>3 DEF Quiet
  <2>2. CASE /\ socket[s] = Unused /\ socket'[s].since = clock
             /\ conferences' = conferences
    BY <1>1, <1>3, <2>2 DEF JustConnected, Quiet, LogKeeps
  <2> QED BY <1>3, <2>1, <2>2, KeyIsKey DEF Quiet
<1>4. ASSUME NEW d \in Conferences, NEW f \in Endpoints, NEW conf, Welcome(d, f, conf)
      PROVE  WasRegistered(s, c, e) /\ (FreshFor(s, c) \/ KeptFor(s, c, e))
  <2> DEFINE R == Receivers(endpointConnections, d, f)
  <2>1. /\ WasRegistered(s, c, e) /\ socket[s].conf = c
        /\ endpointConnections \in [Keys -> Sockets \cup {NoSocket}]
    BY <1>2, <1>4 DEF Welcome, TypeInv, TypeOK
  <2>2. /\ s \in R => LogLearns(sent[s], sent'[s], f, conf.endpointKeys[f])
        /\ s \notin R => LogKeeps(sent[s], sent'[s])
    BY <1>1, <1>4 DEF Welcome
  <2>3. conferences'[d] = conf /\ (d # c => conferences'[c] = conferences[c])
    BY <1>4 DEF Welcome, TypeInv, TypeOK
  <2>4. RekeyBundles(sent'[s]) = RekeyBundles(sent[s])
    BY <2>2 DEF LogLearns, LogKeeps
  <2>5. CASE d # c
    <3>1. s \notin R
      BY <2>1, <2>5, Reach
    <3> QED BY <2>1, <2>2, <2>3, <2>5, <3>1, KeptForUnchanged
  <2>6. CASE d = c /\ ~Live(c)
    BY <1>4, <2>1, <2>4, <2>6 DEF Welcome, FreshFor
  <2>7. CASE d = c /\ Live(c)
    <3>1. /\ Bundle(c, conf) = Bundle(c, conferences[c])
          /\ \A x \in Endpoints \ {f} : conf.endpointKeys[x] = conferences[c].endpointKeys[x]
      BY <1>4, <2>7 DEF Welcome
    <3>2. \A x \in Endpoints : conferences[c].endpointKeys[x] \in Secrets
      BY <2>7, EndpointKeyIsSecret
    <3>3. f # e => s \in R
      BY <2>1, <2>7, Reached DEF WasRegistered
    <3> HIDE DEF R
    <3>4. ASSUME NEW x \in Endpoints \ {e}, KnowsKey(sent[s], x, conferences[c].endpointKeys[x])
          PROVE  KnowsKey(sent'[s], x, conf.endpointKeys[x])
      <4>1. CASE x = f
        BY <2>2, <3>3, <3>4, <4>1 DEF LogLearns
      <4>2. CASE x # f
        BY <2>2, <3>1, <3>2, <3>4, <4>2 DEF LogLearns, LogKeeps
      <4> QED BY <4>1, <4>2
    <3> QED BY <2>1, <2>3, <2>4, <2>7, <3>1, <3>4 DEF KeptFor
  <2> QED BY <2>5, <2>6, <2>7
<1>5. ASSUME NEW d \in Conferences, NEW conf, Broadcast(d, conf)
      PROVE  WasRegistered(s, c, e) /\ (KeptFor(s, c, e) \/ RekeyedFor(s, c))
  <2> DEFINE R == Receivers(endpointConnections', d, NullId)
  <2>1. /\ WasRegistered(s, c, e) /\ socket[s].conf = c
        /\ endpointConnections' \in [Keys -> Sockets \cup {NoSocket}]
        /\ \A k \in Keys : endpointConnections'[k] \in {endpointConnections[k], NoSocket}
    BY <1>2, <1>5, KeyIsKey DEF Broadcast
  <2>2. /\ s \in R => LogRekeyed(sent[s], sent'[s], RekeyMessage(d, conf))
        /\ s \notin R => LogKeeps(sent[s], sent'[s])
    BY <1>1, <1>5 DEF Broadcast
  <2>3. conferences'[d] = conf /\ (d # c => conferences'[c] = conferences[c])
    BY <1>5 DEF Broadcast, TypeInv, TypeOK
  <2>4. CASE d # c
    <3>1. s \notin R
      BY <2>1, <2>4, Reach
    <3> QED BY <2>1, <2>2, <2>3, <2>4, <3>1, KeptForUnchanged
  <2>5. CASE d = c
    <3>1. s \in R
      BY <1>1, <2>1, <2>5, Reached DEF WasRegistered, IdsApart
    <3> QED BY <2>1, <2>2, <2>3, <2>5, <3>1 DEF RekeyedFor
  <2> QED BY <2>4, <2>5
<1> QED BY <1>3, <1>4, <1>5, KeyMoves

LEMMA UpToDateNext ==
    ASSUME IdsApart, TypeInv, KeyInv, RekeyInv, [Next]_vars
    PROVE  RegisteredUpToDate'
<1> SUFFICES ASSUME NEW c \in Conferences, NEW e \in Endpoints, NEW s,
                    s = endpointConnections'[c \o e], s # NoSocket, IsOpen(s)', Live(c)'
             PROVE  UpToDate(s, c)'
  BY DEF RegisteredUpToDate
<1>1. SUFFICES \/ conferences'[c].kek <= socket'[s].since
               \/ conferences'[c].kek = conferences'[c].born
               \/ Bundle(c, conferences'[c]) \in RekeyBundles(sent'[s])
  BY DEF UpToDate, RekeyBundles, Bundle
<1>2. CASE JustConnected(s)
  <2>1. Live(c) /\ conferences'[c] = conferences[c]
    BY <1>2 DEF JustConnected, Live
  <2> QED BY <1>2, <2>1 DEF KeyInv, DrawnBefore, JustConnected
<1>3. CASE WasRegistered(s, c, e) /\ FreshFor(s, c)
  BY <1>3 DEF FreshFor, IsFresh
<1>4. CASE WasRegistered(s, c, e) /\ KeptFor(s, c, e)
  <2>1. /\ conferences'[c].born = conferences[c].born
        /\ conferences'[c].kek = conferences[c].kek
        /\ Bundle(c, conferences'[c]) = Bundle(c, conferences[c])
    BY <1>4, SameBundle DEF KeptFor
  <2>2. UpToDate(s, c)
    BY <1>4 DEF RekeyInv, RegisteredUpToDate, WasRegistered, KeptFor
  <2>3. \/ conferences[c].kek <= socket[s].since
        \/ conferences[c].kek = conferences[c].born
        \/ Bundle(c, conferences[c]) \in RekeyBundles(sent[s])
    BY <2>2, UpToDateFacts
  <2> QED BY <1>4, <2>1, <2>3 DEF WasRegistered, KeptFor
<1>5. CASE WasRegistered(s, c, e) /\ RekeyedFor(s, c)
  <2>1. RekeyMessage(c, conferences'[c]).bundle = Bundle(c, conferences'[c])
    BY DEF RekeyMessage
  <2> QED BY <1>5, <2>1 DEF RekeyedFor, LogRekeyed
<1> QED BY <1>2, <1>3, <1>4, <1>5, RegisteredStep

LEMMA RekeyedToDateNext ==
    ASSUME IdsApart, TypeInv, KeyInv, RekeyInv, [Next]_vars
    PROVE  RekeyedToDate'
<1> SUFFICES ASSUME NEW c \in Conferences, NEW e \in Endpoints, NEW s,
                    s = endpointConnections'[c \o e], s # NoSocket, IsOpen(s)', Live(c)',
                    NEW b \in RekeyBundles(sent'[s]), b.born = conferences'[c].born
             PROVE  Bundle(c, conferences'[c]) \in RekeyBundles(sent'[s])
  BY DEF RekeyedToDate, RekeyBundles, Bundle
<1>2. ASSUME b \in RekeyBundles(sent[s]), s \in Sockets
      PROVE  /\ b.born \in Nat /\ b.born <= clock /\ clock \in Nat
             /\ socket[s] # Unused
  BY <1>2, RekeyBundleFacts DEF RekeyInv, RekeysOwn, TypeInv, TypeOK
<1>3. CASE s \in Sockets /\ JustConnected(s)
  BY <1>2, <1>3 DEF JustConnected
<1>4. CASE WasRegistered(s, c, e) /\ FreshFor(s, c)
  BY <1>2, <1>4 DEF WasRegistered, FreshFor, IsFresh, Now
<1>5. CASE WasRegistered(s, c, e) /\ KeptFor(s, c, e)
  <2>1. b \in RekeyBundles(sent[s]) /\ b.born = conferences[c].born
    BY <1>5, SameBundle DEF KeptFor
  <2>2. Bundle(c, conferences[c]) \in RekeyBundles(sent[s])
    BY <1>5, <2>1 DEF WasRegistered, KeptFor, RekeyInv, RekeyedToDate
  <2> QED BY <1>5, <2>2 DEF KeptFor
<1>6. CASE WasRegistered(s, c, e) /\ RekeyedFor(s, c)
  <2>1. RekeyMessage(c, conferences'[c]).bundle = Bundle(c, conferences'[c])
    BY DEF RekeyMessage
  <2> QED BY <1>6, <2>1 DEF RekeyedFor, LogRekeyed
<1> QED BY <1>3, <1>4, <1>5, <1>6, RegisteredStep

LEMMA PeerKeysNext ==
    ASSUME IdsApart, TypeInv, KeyInv, RekeyInv, [Next]_vars
    PROVE  PeerKeysAccurate'
<1> SUFFICES ASSUME NEW c \in Conferences, NEW e \in Endpoints, NEW s,
                    s = endpointConnections'[c \o e], s # NoSocket, IsOpen(s)', Live(c)',
                    \E b \in RekeyBundles(sent'[s]) : b.born = conferences'[c].born,
                    NEW x \in Endpoints \ {e}
             PROVE  KnowsKey(sent'[s], x, conferences'[c].endpointKeys[x])
  BY DEF PeerKeysAccurate, RekeyBundles
<1>1. PICK b \in RekeyBundles(sent'[s]) : b.born = conferences'[c].born
  OBVIOUS
<1>2. ASSUME b \in RekeyBundles(sent[s]), s \in Sockets
      PROVE  /\ b.born \in Nat /\ b.born <= clock /\ clock \in Nat
             /\ socket[s] # Unused
  BY <1>2, RekeyBundleFacts DEF RekeyInv, RekeysOwn, TypeInv, TypeOK
<1>3. CASE s \in Sockets /\ JustConnected(s)
  BY <1>1, <1>2, <1>3 DEF JustConnected
<1>4. CASE WasRegistered(s, c, e) /\ FreshFor(s, c)
  BY <1>1, <1>2, <1>4 DEF WasRegistered, FreshFor, IsFresh, Now
<1>5. CASE WasRegistered(s, c, e) /\ KeptFor(s, c, e)
  <2>1. b \in RekeyBundles(sent[s]) /\ b.born = conferences[c].born
    BY <1>1, <1>5, SameBundle DEF KeptFor
  <2>2. \E i \in DOMAIN sent[s] :
           IsRekey(sent[s][i]) /\ sent[s][i].bundle.born = conferences[c].born
    BY <2>1 DEF RekeyBundles
  <2>3. KnowsKey(sent[s], x, conferences[c].endpointKeys[x])
    BY <1>5, <2>2 DEF WasRegistered, KeptFor, RekeyInv, PeerKeysAccurate
  <2> QED BY <1>5, <2>3 DEF KeptFor
<1>6. CASE WasRegistered(s, c, e) /\ RekeyedFor(s, c)
  <2>1. RekeyMessage(c, conferences'[c]).allKeys = conferences'[c].endpointKeys
    BY DEF RekeyMessage
  <2> QED BY <1>6, <2>1 DEF RekeyedFor, LogRekeyed
<1> QED BY <1>3, <1>4, <1>5, <1>6, RegisteredStep

-----------------------------------------------------------------------------
(* The theorems.  IdsApart is a condition on the ids that requests carry,    *)
(* which the server does not check.                                          *)

LEMMA RekeyInit == Init => RekeyInv
<1> SUFFICES ASSUME Init PROVE RekeyInv
  OBVIOUS
<1>1. SilentUntilAccepted /\ \A s \in Sockets : sent[s] = <<>>
  BY DEF Init, SilentUntilAccepted
<1>2. RekeysOwn /\ RekeysInOrder
  BY <1>1 DEF RekeysOwn, RekeysInOrder, RekeyBundles
<1>3. RekeyedToDate /\ RegisteredUpToDate /\ PeerKeysAccurate
  BY DEF Init, RekeyedToDate, RegisteredUpToDate, PeerKeysAccurate, Live, NoConference
<1> QED BY <1>1, <1>2, <1>3 DEF RekeyInv

LEMMA RekeyNext ==
    ASSUME IdsApart
    PROVE  TypeInv /\ KeyInv /\ RekeyInv /\ [Next]_vars => RekeyInv'
<1> SUFFICES ASSUME TypeInv, KeyInv, RekeyInv, [Next]_vars PROVE RekeyInv'
  OBVIOUS
<1>1. SilentUntilAccepted'
  BY SilentNext DEF RekeyInv
<1> QED BY <1>1, OrderNext, RekeyedToDateNext, UpToDateNext, PeerKeysNext DEF RekeyInv

LEMMA RekeyInvariant ==
    ASSUME IdsApart
    PROVE  Spec => [](TypeInv /\ KeyInv /\ RekeyInv)
BY TypeInit, KeyInit, RekeyInit, TypeNext, KeyNext, RekeyNext, PTL DEF Spec

(* A client may install each rekey as it arrives (client.js:476-478): no     *)
(* order of joins, leaves, requests and reconnections makes the epochs       *)
(* written to one socket go back.                                            *)
THEOREM RekeysArriveInOrder ==
    ASSUME IdsApart
    PROVE  Spec => []RekeysInOrder
<1>1. RekeyInv => RekeysInOrder
  BY DEF RekeyInv
<1> QED BY <1>1, RekeyInvariant, PTL

(* Every rotation reaches every endpoint whose registered connection is up,  *)
(* so that it can always have the KEK in force.                              *)
THEOREM NoRotationMissed ==
    ASSUME IdsApart
    PROVE  Spec => []RegisteredUpToDate
<1>1. RekeyInv => RegisteredUpToDate
  BY DEF RekeyInv
<1> QED BY <1>1, RekeyInvariant, PTL

(* Rekeys and new_member messages keep a registered endpoint exact about     *)
(* every other member's key: none is missed, none is overwritten by an older.*)
THEOREM PeerKeysStayExact ==
    ASSUME IdsApart
    PROVE  Spec => []PeerKeysAccurate
<1>1. RekeyInv => PeerKeysAccurate
  BY DEF RekeyInv
<1> QED BY <1>1, RekeyInvariant, PTL
=============================================================================
