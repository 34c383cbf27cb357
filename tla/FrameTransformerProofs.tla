----------------------- MODULE FrameTransformerProofs -----------------------
(***************************************************************************)
(* Proofs about FrameTransformer, for any peers, senders and receivers and *)
(* any bounds.                                                             *)
(***************************************************************************)
EXTENDS FrameTransformer, SequenceTheorems, FiniteSetTheorems, TLAPS

-----------------------------------------------------------------------------
(* Ranges of sequences that grow at the end and shrink at the front.         *)

LEMMA RangeOfTail ==
    ASSUME NEW S, NEW q \in Seq(S), q # <<>>
    PROVE  /\ Head(q) \in S /\ Tail(q) \in Seq(S)
           /\ Range(q) = {Head(q)} \cup Range(Tail(q))
<1>1. /\ Head(q) \in S /\ Tail(q) \in Seq(S)
      /\ Len(Tail(q)) = Len(q) - 1
      /\ \A i \in 1 .. Len(Tail(q)) : Tail(q)[i] = q[i + 1]
  BY HeadTailProperties
<1>2. Len(q) \in Nat \ {0} /\ Head(q) = q[1]
  BY EmptySeq
<1>3. /\ Range(q) = {q[i] : i \in 1 .. Len(q)}
      /\ Range(Tail(q)) = {Tail(q)[i] : i \in 1 .. Len(Tail(q))}
  BY <1>1, RangeEquality
<1>4. ASSUME NEW y \in Range(q) PROVE y \in {Head(q)} \cup Range(Tail(q))
  <2>1. PICK i \in 1 .. Len(q) : y = q[i]
    BY <1>3
  <2>2. CASE i = 1
    BY <2>1, <2>2, <1>2
  <2>3. CASE i # 1
    <3>1. i - 1 \in 1 .. Len(Tail(q)) /\ Tail(q)[i - 1] = q[i]
      BY <2>3, <1>1, <1>2
    <3> QED BY <3>1, <2>1, <1>3
  <2> QED BY <2>2, <2>3
<1>5. ASSUME NEW y \in {Head(q)} \cup Range(Tail(q)) PROVE y \in Range(q)
  <2>1. CASE y = Head(q)
    BY <2>1, <1>2, <1>3
  <2>2. CASE y \in Range(Tail(q))
    <3>1. PICK i \in 1 .. Len(Tail(q)) : y = Tail(q)[i]
      BY <2>2, <1>3
    <3>2. i + 1 \in 1 .. Len(q) /\ y = q[i + 1]
      BY <3>1, <1>1, <1>2
    <3> QED BY <3>2, <1>3
  <2> QED BY <2>1, <2>2
<1> QED BY <1>1, <1>4, <1>5

LEMMA RangeOfAppend ==
    ASSUME NEW S, NEW q \in Seq(S), NEW e \in S
    PROVE  Append(q, e) \in Seq(S) /\ Range(Append(q, e)) = Range(q) \cup {e}
<1>1. Append(q, e) = q \o <<e>> /\ Append(q, e) \in Seq(S)
  BY AppendIsConcat, AppendProperties
<1>2. <<e>> \in Seq(S) /\ Range(<<e>>) = {e}
  BY DEF Range
<1>3. Range(q \o <<e>>) = Range(q) \cup Range(<<e>>)
  BY <1>2, RangeConcatenation
<1> QED BY <1>1, <1>2, <1>3

-----------------------------------------------------------------------------
(* Types, and which peer the transformers in a list belong to.               *)

Ownership ==
    \A p \in Peers : /\ \A x \in Range(installing[p]) : Owner[x] = p
                     /\ \A x \in Range(recvOrder[p]) : Owner[x] = p

(* No transformer of a peer that has not been given a key is armed.          *)
ArmedOnlyIfStored ==
    \A p \in Peers : stored[p] = NoBundle =>
        /\ MutexFree(p)
        /\ \A x \in armed : Owner[x] # p

TypeInv == TypeOK /\ IsFiniteSet(wire) /\ Ownership /\ ArmedOnlyIfStored

(* What SetE2eKey does to the ciphers.                                       *)
KeySet(x, b) ==
    /\ cipher' \in [Transformers -> Ciphers]
    /\ working' \subseteq keyed' /\ keyed' \subseteq armed' /\ armed' \subseteq Transformers
    /\ \A y \in keyed' : cipher'[y].key \in Keys
    /\ armed' = armed \cup {x}
    /\ \A y \in Transformers \ {x} : cipher'[y] = cipher[y]
    /\ \A y \in Transformers \ {x} : y \in working' <=> y \in working
    /\ x \in working' => cipher'[x].keyId = b.keyId /\ cipher'[x].key = b.key
    /\ \/ cipher'[x] = cipher[x]
       \/ cipher'[x].installs = cipher[x].installs + 1 /\ cipher'[x].counter = 0
    /\ failures' \in Nat
    /\ failures' = 0 => failures = 0 /\ x \in working'

LEMMA SetE2eKeyFacts ==
    ASSUME TypeOK, NEW x \in Transformers, NEW b \in Bundles, SetE2eKey(x, b)
    PROVE  KeySet(x, b)
<1> DEFINE c == cipher[x]
<1>1. c \in Ciphers /\ cipher \in [Transformers -> Ciphers] /\ failures \in Nat
      /\ working \subseteq keyed /\ keyed \subseteq armed /\ armed \subseteq Transformers
      /\ b.key \in Keys /\ \A y \in keyed : cipher[y].key \in Keys
  BY DEF TypeOK, Bundles
<1>2. /\ SetKey(c, b) \in Ciphers
      /\ SetKey(c, b).keyId = b.keyId /\ SetKey(c, b).key = b.key
      /\ SetKey(c, b).installs = c.installs + 1
      /\ SetKey(c, b).counter = 0
  BY <1>1 DEF SetKey, Fresh, Ciphers, Bundles
<1>3. CASE /\ armed' = armed \cup {x}
           /\ cipher' = [cipher EXCEPT ![x] = SetKey(@, b)]
           /\ keyed' = keyed \cup {x} /\ working' = working \cup {x}
           /\ UNCHANGED failures
  <2>1. cipher'[x] = SetKey(c, b) /\ cipher' \in [Transformers -> Ciphers]
        /\ \A y \in Transformers \ {x} : cipher'[y] = cipher[y]
    BY <1>1, <1>2, <1>3
  <2> QED BY <1>1, <1>2, <1>3, <2>1 DEF KeySet
<1>4. CASE /\ armed' = armed \cup {x}
           /\ failures' = failures + 1
           /\ working' = working \ {x}
           /\ UNCHANGED <<cipher, keyed>>
  BY <1>1, <1>4 DEF KeySet
<1> QED BY <1>3, <1>4 DEF SetE2eKey

LEMMA OwnedSets ==
    ASSUME NEW p \in Peers
    PROVE  /\ SenderOrder[p] \in Seq(Transformers)
           /\ \A x \in Range(SenderOrder[p]) : x \in Senders /\ Owner[x] = p
           /\ \A s \in Senders : Owner[s] = p => s \in Range(SenderOrder[p])
<1>1. SenderOrder[p] \in Seq(Senders)
  BY SenderOrderAssumption
<1>2. Range(SenderOrder[p]) \subseteq Senders
  BY <1>1, RangeOfSeq
<1>3. SenderOrder[p] \in Seq(Transformers)
  BY <1>1, SeqMonotonic DEF Transformers
<1> QED BY <1>2, <1>3, SenderOrderAssumption

LEMMA InstallKeyTyped ==
    ASSUME TypeInv, NEW p \in Peers, NEW spi \in Spis, NEW k \in Keys, InstallKey(p, spi, k)
    PROVE  TypeInv'
<1> DEFINE b == [keyId |-> KeyIdOf(spi), key |-> k]
           all == SenderOrder[p] \o recvOrder[p]
<1>1. b \in Bundles /\ b # NoBundle
  BY SpiAssumption, NoBundleAssumption DEF Bundles, KeyIdOf
<1>2. recvOrder[p] \in Seq(Transformers)
  BY SeqMonotonic DEF TypeInv, TypeOK, Transformers
<1>3. all \in Seq(Transformers) /\ Range(all) = Range(SenderOrder[p]) \cup Range(recvOrder[p])
  BY <1>2, OwnedSets, ConcatProperties, RangeConcatenation
<1>4. \A x \in Range(all) : Owner[x] = p
  BY <1>3, OwnedSets DEF TypeInv, Ownership
<1> HIDE DEF b, all
<1>5. /\ stored' = [stored EXCEPT ![p] = b] /\ installing' = [installing EXCEPT ![p] = all]
      /\ installs' = installs + 1
      /\ UNCHANGED <<recvOrder, cipher, keyed, working, armed, callbacks, wire, decoded, failures>>
  BY DEF InstallKey, cipherVars, b, all
<1>6. TypeOK'
  BY <1>1, <1>3, <1>5 DEF TypeInv, TypeOK
<1>7. Ownership'
  BY <1>4, <1>5 DEF TypeInv, TypeOK, Ownership
<1>8. ArmedOnlyIfStored'
  BY <1>1, <1>5 DEF TypeInv, TypeOK, ArmedOnlyIfStored, MutexFree
<1>9. IsFiniteSet(wire)'
  BY <1>5 DEF TypeInv
<1> QED BY <1>6, <1>7, <1>8, <1>9 DEF TypeInv

(* What an install step keys: a transformer of the peer, with its bundle.    *)
LEMMA InstallNextKeys ==
    ASSUME TypeInv, NEW p \in Peers, InstallNext(p)
    PROVE  LET x == Head(installing[p])
           IN  /\ x \in Transformers /\ Owner[x] = p
               /\ stored[p] \in Bundles /\ stored[p] # NoBundle
               /\ Tail(installing[p]) \in Seq(Transformers)
               /\ Range(installing[p]) = {x} \cup Range(Tail(installing[p]))
               /\ KeySet(x, stored[p])
<1> DEFINE x == Head(installing[p])
<1>1. installing[p] \in Seq(Transformers) /\ installing[p] # <<>>
  BY DEF TypeInv, TypeOK, InstallNext, MutexFree
<1>2. /\ x \in Transformers /\ Tail(installing[p]) \in Seq(Transformers)
      /\ Range(installing[p]) = {x} \cup Range(Tail(installing[p]))
  BY <1>1, RangeOfTail
<1>3. Owner[x] = p
  BY <1>2 DEF TypeInv, Ownership
<1>4. stored[p] \in Bundles /\ stored[p] # NoBundle
  BY <1>1 DEF TypeInv, TypeOK, ArmedOnlyIfStored, MutexFree
<1>5. KeySet(x, stored[p])
  BY <1>2, <1>4, SetE2eKeyFacts DEF TypeInv, InstallNext
<1> QED BY <1>2, <1>3, <1>4, <1>5

LEMMA InstallNextTyped ==
    ASSUME TypeInv, NEW p \in Peers, InstallNext(p)
    PROVE  TypeInv'
<1> DEFINE x == Head(installing[p])
           rest == Tail(installing[p])
<1>1. /\ x \in Transformers /\ Owner[x] = p
      /\ stored[p] \in Bundles /\ stored[p] # NoBundle
      /\ rest \in Seq(Transformers) /\ Range(installing[p]) = {x} \cup Range(rest)
      /\ KeySet(x, stored[p])
  BY InstallNextKeys
<1> HIDE DEF x, rest
<1>2. /\ installing' = [installing EXCEPT ![p] = rest]
      /\ UNCHANGED <<stored, recvOrder, installs, callbacks, wire, decoded>>
  BY DEF InstallNext, rest
<1>3. TypeOK'
  BY <1>1, <1>2 DEF TypeInv, TypeOK, KeySet
<1>4. Ownership'
  BY <1>1, <1>2 DEF TypeInv, TypeOK, Ownership
<1>5. ArmedOnlyIfStored'
  BY <1>1, <1>2 DEF TypeInv, TypeOK, ArmedOnlyIfStored, MutexFree, KeySet
<1>6. IsFiniteSet(wire)'
  BY <1>2 DEF TypeInv
<1> QED BY <1>3, <1>4, <1>5, <1>6 DEF TypeInv

LEMMA AttachTyped ==
    ASSUME TypeInv, NEW r \in Receivers, AttachRecvTransformer(r)
    PROVE  TypeInv'
<1> DEFINE p == Owner[r]
           longer == Append(recvOrder[p], r)
<1>1. p \in Peers /\ r \in Transformers
  BY OwnerAssumption DEF Transformers
<1>2. longer \in Seq(Receivers) /\ Range(longer) = Range(recvOrder[p]) \cup {r}
  BY <1>1, RangeOfAppend DEF TypeInv, TypeOK
<1> HIDE DEF p, longer
<1>3. /\ recvOrder' = [recvOrder EXCEPT ![p] = longer]
      /\ UNCHANGED <<stored, installing, installs, callbacks, wire, decoded>>
  BY DEF AttachRecvTransformer, p, longer
<1>4. /\ cipher' \in [Transformers -> Ciphers]
      /\ working' \subseteq keyed' /\ keyed' \subseteq armed' /\ armed' \subseteq Transformers
      /\ \A y \in keyed' : cipher'[y].key \in Keys
      /\ failures' \in Nat
      /\ armed' = armed \/ (armed' = armed \cup {r} /\ stored[p] # NoBundle)
  <2>1. CASE stored[p] # NoBundle /\ SetE2eKey(r, stored[p])
    <3>1. stored[p] \in Bundles
      BY <2>1, <1>1 DEF TypeInv, TypeOK
    <3> QED BY <2>1, <3>1, <1>1, SetE2eKeyFacts DEF TypeInv, KeySet
  <2>2. CASE UNCHANGED <<cipherVars, failures>>
    BY <2>2 DEF TypeInv, TypeOK, cipherVars
  <2> QED BY <2>1, <2>2 DEF AttachRecvTransformer, p
<1>5. TypeOK'
  BY <1>1, <1>2, <1>3, <1>4 DEF TypeInv, TypeOK
<1>6. Ownership'
  BY <1>1, <1>2, <1>3 DEF TypeInv, TypeOK, Ownership, p
<1>7. ArmedOnlyIfStored'
  BY <1>1, <1>3, <1>4 DEF TypeInv, TypeOK, ArmedOnlyIfStored, MutexFree, p
<1>8. IsFiniteSet(wire)'
  BY <1>3 DEF TypeInv
<1> QED BY <1>5, <1>6, <1>7, <1>8 DEF TypeInv

(* The frame TransformSend emits.                                            *)
LEMMA EmittedFrame ==
    ASSUME TypeInv, NEW x \in Senders, NEW q \in Payloads, Emit(x, q)
    PROVE  \E f \in Frames : /\ f.ssrc = x /\ f.payload = q /\ f.stance = Stance(x)
                             /\ wire' = wire \cup {f}
<1> DEFINE f == [ssrc |-> x, body |-> Cardinality(wire) + 1, stance |-> Stance(x), payload |-> q]
<1>1. Cardinality(wire) \in Nat
  BY FS_CardinalityType DEF TypeInv
<1>2. f \in Frames /\ f.ssrc = x /\ f.payload = q /\ f.stance = Stance(x)
  BY <1>1 DEF Frames, Stance, Stances
<1> QED BY <1>2 DEF Emit

(* What Encrypt produces for a sender that has a key.                        *)
SealedBy(x, q) ==
    /\ q \in Payloads /\ q # Plain
    /\ q.keyId = cipher[x].keyId /\ q.key = cipher[x].key
    /\ q.iv = <<x, cipher[x].counter>>
    /\ q.install = cipher[x].installs
    /\ q.marker = MarkerLen(x)

LEMMA SealedFacts ==
    ASSUME TypeOK, NEW x \in Senders, x \in keyed
    PROVE  SealedBy(x, Sealed(x, cipher[x]))
<1> DEFINE c == cipher[x]
<1>1. c \in Ciphers /\ c.key \in Keys
  BY DEF TypeOK, Transformers
<1>2. c.keyId \in 0 .. 255 /\ c.counter \in Nat /\ c.installs \in Nat
  BY <1>1 DEF Ciphers
<1>3. MarkerLen(x) \in 0 .. 1
  BY DEF MarkerLen
<1>4. Sealed(x, c) = [keyId |-> c.keyId, key |-> c.key, iv |-> <<x, c.counter>>,
                      install |-> c.installs, marker |-> MarkerLen(x)]
  BY DEF Sealed, GenerateIv
<1> HIDE DEF c
<1>5. <<x, c.counter>> \in (Senders \cup {AnySsrc}) \X Nat
  BY <1>2
<1>6. Sealed(x, c) \in Payloads
  BY <1>1, <1>2, <1>3, <1>4, <1>5 DEF Payloads
<1>7. Sealed(x, c) # Plain
  BY <1>1, <1>2, <1>3, <1>4, <1>5, PlainAssumption
<1> QED BY <1>4, <1>6, <1>7 DEF SealedBy, c

(* What TransformSend does, with the frame it emits.                         *)
Sent(x, f) ==
    /\ f \in Frames /\ f.ssrc = x /\ f.stance = Stance(x)
    /\ wire' = wire \cup {f}
    /\ failures' \in Nat /\ (failures' = 0 => failures = 0)
    /\ UNCHANGED <<stored, installing, recvOrder, installs, keyed, working, armed,
                   callbacks, decoded>>
    /\ \/ /\ f.payload = Plain
          /\ failures' = 0 => x \notin working
          /\ \/ cipher' = cipher
             \/ cipher' = [cipher EXCEPT ![x].counter = @ + 1]
       \/ /\ x \in working
          /\ SealedBy(x, f.payload)
          /\ cipher' = [cipher EXCEPT ![x].counter = @ + 1]

LEMMA TransformSendFacts ==
    ASSUME TypeInv, NEW x \in Senders, TransformSend(x)
    PROVE  \E f \in Frames : Sent(x, f)
<1>1. failures \in Nat /\ working \subseteq keyed
  BY DEF TypeInv, TypeOK
<1>2. UNCHANGED <<stored, installing, recvOrder, installs, keyed, working, armed,
                  callbacks, decoded>>
  BY DEF TransformSend, keyVars
<1>3. Plain \in Payloads
  BY DEF Payloads
<1>4. CASE x \notin keyed \cap working /\ Emit(x, Plain) /\ UNCHANGED <<cipher, failures>>
  <2>1. PICK f \in Frames : /\ f.ssrc = x /\ f.payload = Plain /\ f.stance = Stance(x)
                            /\ wire' = wire \cup {f}
    BY <1>3, <1>4, EmittedFrame
  <2> QED BY <1>1, <1>2, <1>4, <2>1 DEF Sent
<1>5. CASE /\ x \in keyed \cap working /\ Emit(x, Sealed(x, cipher[x]))
           /\ cipher' = [cipher EXCEPT ![x].counter = @ + 1]
           /\ UNCHANGED failures
  <2>1. SealedBy(x, Sealed(x, cipher[x]))
    BY <1>5, SealedFacts DEF TypeInv
  <2>2. PICK f \in Frames : /\ f.ssrc = x /\ f.payload = Sealed(x, cipher[x])
                            /\ f.stance = Stance(x) /\ wire' = wire \cup {f}
    BY <1>5, <2>1, EmittedFrame DEF SealedBy
  <2> QED BY <1>1, <1>2, <1>5, <2>1, <2>2 DEF Sent
<1>6. CASE /\ failures' = failures + 1 /\ Emit(x, Plain)
           /\ cipher' = [cipher EXCEPT ![x].counter = @ + 1]
  <2>1. PICK f \in Frames : /\ f.ssrc = x /\ f.payload = Plain /\ f.stance = Stance(x)
                            /\ wire' = wire \cup {f}
    BY <1>3, <1>6, EmittedFrame
  <2> QED BY <1>1, <1>2, <1>6, <2>1 DEF Sent
<1> QED BY <1>4, <1>5, <1>6 DEF TransformSend

LEMMA CounterStep ==
    ASSUME TypeOK, NEW x \in Transformers, cipher' = [cipher EXCEPT ![x].counter = @ + 1]
    PROVE  /\ cipher' \in [Transformers -> Ciphers]
           /\ \A y \in Transformers : /\ cipher'[y].keyId = cipher[y].keyId
                                      /\ cipher'[y].key = cipher[y].key
                                      /\ cipher'[y].installs = cipher[y].installs
                                      /\ y # x => cipher'[y] = cipher[y]
           /\ cipher'[x].counter = cipher[x].counter + 1
<1> DEFINE c == cipher[x]
           d == [c EXCEPT !.counter = @ + 1]
<1>1. c \in Ciphers
  BY DEF TypeOK
<1>2. /\ d \in Ciphers /\ d.counter = c.counter + 1
      /\ d.keyId = c.keyId /\ d.key = c.key /\ d.installs = c.installs
  BY <1>1 DEF Ciphers
<1>3. cipher' = [cipher EXCEPT ![x] = d]
  OBVIOUS
<1> HIDE DEF d
<1>4. cipher' \in [Transformers -> Ciphers] /\ cipher'[x] = d
      /\ \A y \in Transformers : y # x => cipher'[y] = cipher[y]
  BY <1>2, <1>3 DEF TypeOK
<1> QED BY <1>2, <1>4

LEMMA SendTyped ==
    ASSUME TypeInv, NEW x \in Senders, NEW f \in Frames, Sent(x, f)
    PROVE  TypeInv'
<1>1. x \in Transformers
  BY DEF Transformers
<1>2. cipher' \in [Transformers -> Ciphers] /\ \A y \in Transformers : cipher'[y].key = cipher[y].key
  <2>1. CASE cipher' = cipher
    BY <2>1 DEF TypeInv, TypeOK
  <2>2. CASE cipher' = [cipher EXCEPT ![x].counter = @ + 1]
    BY <1>1, <2>2, CounterStep DEF TypeInv
  <2> QED BY <2>1, <2>2 DEF Sent
<1>3. TypeOK'
  BY <1>1, <1>2 DEF TypeInv, TypeOK, Sent
<1>4. IsFiniteSet(wire)'
  BY FS_AddElement DEF TypeInv, Sent
<1>5. Ownership' /\ ArmedOnlyIfStored'
  BY DEF TypeInv, Ownership, ArmedOnlyIfStored, MutexFree, Sent
<1> QED BY <1>3, <1>4, <1>5 DEF TypeInv

LEMMA PassedOnTyped ==
    ASSUME NEW r \in Receivers, NEW f \in Frames
    PROVE  PassedOn(r, f) \subseteq Payloads
BY DEF PassedOn, Frames, Payloads

LEMMA ReceiveTyped ==
    ASSUME TypeInv, NEW r \in Receivers, NEW f \in wire, TransformReceive(r, f)
    PROVE  TypeInv'
<1> DEFINE out == {[sent |-> f.payload, payload |-> q, stance |-> Stance(r)] : q \in PassedOn(r, f)}
<1>1. f \in Frames
  BY DEF TypeInv, TypeOK
<1>2. f.payload \in Payloads /\ Stance(r) \in Stances /\ PassedOn(r, f) \subseteq Payloads
  BY <1>1, PassedOnTyped DEF Frames, Stance, Stances
<1>3. out \subseteq [sent : Payloads, payload : Payloads, stance : Stances]
  BY <1>2
<1> HIDE DEF out
<1>4. /\ decoded' = [decoded EXCEPT ![r] = out]
      /\ UNCHANGED <<stored, installing, recvOrder, installs, cipher, keyed, working, armed,
                     callbacks, wire, failures>>
  BY DEF TransformReceive, keyVars, cipherVars, out
<1>5. TypeOK'
  BY <1>3, <1>4 DEF TypeInv, TypeOK
<1> QED BY <1>4, <1>5 DEF TypeInv, Ownership, ArmedOnlyIfStored, MutexFree

LEMMA CallbackTyped ==
    ASSUME TypeInv, NEW x \in Transformers, NEW ssrc \in Registrations(x),
           RegisterCallback(x, ssrc) \/ UnregisterCallback(x, ssrc)
    PROVE  TypeInv'
<1>1. ssrc \in Senders \cup {AnySsrc}
  BY DEF Registrations
<1>2. /\ callbacks' \in [Transformers -> SUBSET (Senders \cup {AnySsrc})]
      /\ UNCHANGED <<stored, installing, recvOrder, installs, cipher, keyed, working, armed,
                     wire, decoded, failures>>
  BY <1>1 DEF TypeInv, TypeOK, RegisterCallback, UnregisterCallback, keyVars, cipherVars
<1> QED BY <1>2 DEF TypeInv, TypeOK, Ownership, ArmedOnlyIfStored, MutexFree

LEMMA TypeInit == Init => TypeInv
<1> SUFFICES ASSUME Init PROVE TypeInv
  OBVIOUS
<1>1. NoCipher \in Ciphers
  BY DEF NoCipher, Ciphers
<1>2. <<>> \in Seq(Transformers) /\ <<>> \in Seq(Receivers) /\ Range(<<>>) = {}
  BY DEF Range
<1>3. TypeOK
  BY <1>1, <1>2 DEF Init, TypeOK
<1> QED BY <1>2, <1>3, FS_EmptySet DEF Init, TypeInv, Ownership, ArmedOnlyIfStored, MutexFree

LEMMA TypeStep == TypeInv /\ [Next]_vars => TypeInv'
<1> SUFFICES ASSUME TypeInv, [Next]_vars PROVE TypeInv'
  OBVIOUS
<1>1. ASSUME NEW p \in Peers, NEW spi \in Spis, NEW k \in Keys, InstallKey(p, spi, k)
      PROVE  TypeInv'
  BY <1>1, InstallKeyTyped
<1>2. ASSUME NEW p \in Peers, InstallNext(p) PROVE TypeInv'
  BY <1>2, InstallNextTyped
<1>3. ASSUME NEW r \in Receivers, AttachRecvTransformer(r) PROVE TypeInv'
  BY <1>3, AttachTyped
<1>4. ASSUME NEW x \in Transformers, NEW ssrc \in Registrations(x),
             RegisterCallback(x, ssrc) \/ UnregisterCallback(x, ssrc)
      PROVE  TypeInv'
  BY <1>4, CallbackTyped
<1>5. ASSUME NEW x \in Senders, TransformSend(x) PROVE TypeInv'
  BY <1>5, TransformSendFacts, SendTyped
<1>6. ASSUME NEW r \in Receivers, NEW f \in wire, TransformReceive(r, f) PROVE TypeInv'
  BY <1>6, ReceiveTyped
<1>7. CASE UNCHANGED vars
  BY <1>7 DEF TypeInv, TypeOK, Ownership, ArmedOnlyIfStored, MutexFree, vars, keyVars, cipherVars
<1> QED BY <1>1, <1>2, <1>3, <1>4, <1>5, <1>6, <1>7 DEF Next

(* The state keeps its shape, a transformer that can encrypt has a key of    *)
(* the Key Distributor and is armed (e2ee_transformer.cc:74-99, 233-238).    *)
THEOREM TypeCorrect == Spec => []TypeOK
<1>1. Spec => []TypeInv
  BY TypeInit, TypeStep, PTL DEF Spec
<1> QED BY <1>1, PTL DEF TypeInv

-----------------------------------------------------------------------------
(* Every sealed frame against its sender's cipher: its IV carries the        *)
(* sender's SSRC, it stems from an install the cipher has had, and if that   *)
(* is the present one, the counter is past it and the key is still the same. *)

Matches(f, c) ==
    /\ f.payload.iv[1] = f.ssrc
    /\ f.payload.marker = MarkerLen(f.ssrc)
    /\ f.payload.install <= c.installs
    /\ f.payload.install = c.installs =>
          /\ f.payload.iv[2] < c.counter
          /\ f.payload.keyId = c.keyId /\ f.payload.key = c.key

WireMatches == \A f \in wire : f.payload # Plain => Matches(f, cipher[f.ssrc])

WireInv == WireMatches /\ IvUniquePerInstall

LEMMA SealedTypes ==
    ASSUME TypeOK, NEW f \in wire, f.payload # Plain
    PROVE  /\ f.ssrc \in Senders /\ f.ssrc \in Transformers
           /\ f.payload.install \in Nat /\ f.payload.iv[2] \in Nat
           /\ cipher[f.ssrc].installs \in Nat /\ cipher[f.ssrc].counter \in Nat
<1>1. f \in Frames
  BY DEF TypeOK
<1>2. f.ssrc \in Senders /\ f.payload \in Payloads
  BY <1>1 DEF Frames
<1>3. f.payload \in [keyId : 0 .. 255, key : Keys, iv : (Senders \cup {AnySsrc}) \X Nat,
                     install : Nat, marker : 0 .. 1]
  BY <1>2 DEF Payloads
<1>4. f.payload.install \in Nat /\ f.payload.iv \in (Senders \cup {AnySsrc}) \X Nat
  BY <1>3
<1>5. f.ssrc \in Transformers
  BY <1>2 DEF Transformers
<1>6. cipher[f.ssrc] \in Ciphers
  BY <1>5 DEF TypeOK
<1>7. cipher[f.ssrc].installs \in Nat /\ cipher[f.ssrc].counter \in Nat
  BY <1>6 DEF Ciphers
<1> QED BY <1>2, <1>4, <1>5, <1>7

(* A new key leaves the frames of the earlier installs behind.               *)
LEMMA WireKeptByKeySet ==
    ASSUME TypeInv, WireInv, NEW x \in Transformers, NEW b, KeySet(x, b), wire' = wire
    PROVE  WireInv'
<1>1. ASSUME NEW f \in wire, f.payload # Plain
      PROVE  Matches(f, cipher'[f.ssrc])
  <2>1. Matches(f, cipher[f.ssrc])
    BY <1>1 DEF WireInv, WireMatches
  <2>2. /\ f.ssrc \in Transformers /\ f.payload.install \in Nat
        /\ cipher[f.ssrc].installs \in Nat
    BY <1>1, SealedTypes DEF TypeInv
  <2>3. CASE cipher'[f.ssrc] = cipher[f.ssrc]
    BY <2>1, <2>3
  <2>4. CASE cipher'[f.ssrc].installs = cipher[f.ssrc].installs + 1
    BY <2>1, <2>2, <2>4 DEF Matches
  <2> QED BY <2>2, <2>3, <2>4 DEF KeySet
<1>2. WireMatches'
  BY <1>1 DEF WireMatches
<1> QED BY <1>2 DEF WireInv, IvUniquePerInstall, SealedUnder

LEMMA WireKeptBySend ==
    ASSUME TypeInv, WireInv, NEW x \in Senders, NEW f \in Frames, Sent(x, f)
    PROVE  WireInv'
<1> DEFINE c == cipher[x]
<1>1. x \in Transformers
  BY DEF Transformers
<1>2. c.installs \in Nat /\ c.counter \in Nat
  BY <1>1 DEF TypeInv, TypeOK, Ciphers
<1>3. \/ cipher' = cipher
      \/ cipher' = [cipher EXCEPT ![x].counter = @ + 1]
  BY DEF Sent
<1>4. \A y \in Transformers : /\ cipher'[y].keyId = cipher[y].keyId
                              /\ cipher'[y].key = cipher[y].key
                              /\ cipher'[y].installs = cipher[y].installs
                              /\ cipher'[y].counter \in {cipher[y].counter, cipher[y].counter + 1}
  BY <1>1, <1>3, CounterStep DEF TypeInv
<1>5. ASSUME NEW g \in wire, g.payload # Plain
      PROVE  Matches(g, cipher'[g.ssrc])
  <2>1. Matches(g, cipher[g.ssrc])
    BY <1>5 DEF WireInv, WireMatches
  <2>2. /\ g.ssrc \in Transformers /\ g.payload.iv[2] \in Nat
        /\ cipher[g.ssrc].counter \in Nat
    BY <1>5, SealedTypes DEF TypeInv
  <2> QED BY <1>4, <2>1, <2>2 DEF Matches
<1>6. CASE f.payload = Plain
  <2>1. WireMatches'
    BY <1>5, <1>6 DEF WireMatches, Sent
  <2>2. IvUniquePerInstall'
    BY <1>6 DEF WireInv, IvUniquePerInstall, SealedUnder, Sent
  <2> QED BY <2>1, <2>2 DEF WireInv
<1>7. CASE /\ x \in working /\ SealedBy(x, f.payload)
           /\ cipher' = [cipher EXCEPT ![x].counter = @ + 1]
  <2>1. /\ f.ssrc = x /\ f.payload.iv = <<x, c.counter>> /\ f.payload.install = c.installs
        /\ f.payload.keyId = c.keyId /\ f.payload.key = c.key
        /\ f.payload.marker = MarkerLen(x)
    BY <1>7 DEF SealedBy, Sent
  <2>2. cipher'[x].counter = c.counter + 1
    BY <1>1, <1>7, CounterStep DEF TypeInv
  <2>3. Matches(f, cipher'[x])
    BY <1>1, <1>2, <1>4, <2>1, <2>2 DEF Matches
  <2>4. WireMatches'
    BY <1>5, <2>1, <2>3 DEF WireMatches, Sent
  <2>5. ASSUME NEW g \in wire, SealedUnder(f, g) \/ SealedUnder(g, f)
        PROVE  f.payload.install # g.payload.install
    <3>1. g.payload # Plain /\ g.payload.iv = <<x, c.counter>>
      BY <2>1, <2>5 DEF SealedUnder
    <3>2. Matches(g, cipher[g.ssrc])
      BY <3>1 DEF WireInv, WireMatches
    <3>3. g.ssrc = x
      BY <3>1, <3>2 DEF Matches
    <3> QED BY <1>2, <2>1, <3>1, <3>2, <3>3 DEF Matches
  <2>6. IvUniquePerInstall'
    <3> SUFFICES ASSUME NEW g \in wire', NEW h \in wire', SealedUnder(g, h)
                 PROVE  g = h \/ g.payload.install # h.payload.install
      BY DEF IvUniquePerInstall, SealedUnder
    <3>1. CASE g \in wire /\ h \in wire
      BY <3>1 DEF WireInv, IvUniquePerInstall
    <3>2. CASE g \in wire /\ h = f
      BY <2>5, <3>2
    <3>3. CASE h \in wire /\ g = f
      BY <2>5, <3>3
    <3> QED BY <3>1, <3>2, <3>3 DEF Sent
  <2> QED BY <2>4, <2>6 DEF WireInv
<1> QED BY <1>6, <1>7 DEF Sent

-----------------------------------------------------------------------------
(* Every attached transformer against its peer: the running install has yet  *)
(* to reach it, or it holds what the peer stores.                            *)

UpToDate(p, x) ==
    /\ x \in working => Holds(x, stored[p])
    /\ (failures = 0 /\ stored[p] # NoBundle) => x \in working

AllKeyed == \A p \in Peers : \A x \in Attached(p) :
                x \in Range(installing[p]) \/ UpToDate(p, x)

LEMMA AttachedOwned ==
    ASSUME TypeInv, NEW p \in Peers, NEW x \in Attached(p)
    PROVE  x \in Transformers /\ Owner[x] = p
<1>1. Range(recvOrder[p]) \subseteq Receivers
  BY RangeOfSeq DEF TypeInv, TypeOK
<1> QED BY <1>1 DEF Attached, Transformers, TypeInv, Ownership

LEMMA KeyedByInstallKey ==
    ASSUME TypeInv, AllKeyed, NEW p \in Peers, NEW spi \in Spis, NEW k \in Keys,
           InstallKey(p, spi, k)
    PROVE  AllKeyed'
<1> DEFINE all == SenderOrder[p] \o recvOrder[p]
<1>1. recvOrder[p] \in Seq(Transformers)
  BY SeqMonotonic DEF TypeInv, TypeOK, Transformers
<1>2. Range(all) = Range(SenderOrder[p]) \cup Range(recvOrder[p])
  BY <1>1, OwnedSets, RangeConcatenation
<1>3. Attached(p) \subseteq Range(all)
  BY <1>2, OwnedSets DEF Attached
<1> HIDE DEF all
<1>4. /\ installing' = [installing EXCEPT ![p] = all]
      /\ \A q \in Peers : q # p => stored'[q] = stored[q]
      /\ UNCHANGED <<recvOrder, cipher, working, failures>>
  BY DEF InstallKey, cipherVars, all, TypeInv, TypeOK
<1>5. installing'[p] = all /\ \A q \in Peers : q # p => installing'[q] = installing[q]
  BY <1>4 DEF TypeInv, TypeOK
<1>6. ASSUME NEW q \in Peers, NEW x \in Attached(q)'
      PROVE  x \in Range(installing'[q]) \/ UpToDate(q, x)'
  <2>1. x \in Attached(q)
    BY <1>4 DEF Attached
  <2>2. CASE q = p
    BY <1>3, <1>5, <2>1, <2>2
  <2>3. CASE q # p
    BY <1>4, <1>5, <2>1, <2>3 DEF AllKeyed, UpToDate, Holds
  <2> QED BY <2>2, <2>3
<1> QED BY <1>6 DEF AllKeyed

LEMMA KeyedByInstallNext ==
    ASSUME TypeInv, AllKeyed, NEW p \in Peers, InstallNext(p)
    PROVE  AllKeyed'
<1> DEFINE y == Head(installing[p])
           rest == Tail(installing[p])
<1>1. /\ y \in Transformers /\ Owner[y] = p
      /\ Range(installing[p]) = {y} \cup Range(rest)
      /\ KeySet(y, stored[p])
  BY InstallNextKeys
<1> HIDE DEF y, rest
<1>2. installing' = [installing EXCEPT ![p] = rest] /\ UNCHANGED <<stored, recvOrder>>
  BY DEF InstallNext, rest
<1>3. installing'[p] = rest /\ \A q \in Peers : q # p => installing'[q] = installing[q]
  BY <1>2 DEF TypeInv, TypeOK
<1>4. ASSUME NEW q \in Peers, NEW x \in Attached(q)'
      PROVE  x \in Range(installing'[q]) \/ UpToDate(q, x)'
  <2>1. x \in Attached(q) /\ x \in Transformers /\ Owner[x] = q
    BY <1>2, AttachedOwned DEF Attached
  <2>2. CASE x = y
    BY <1>1, <1>2, <2>1, <2>2 DEF UpToDate, Holds, KeySet
  <2>3. CASE x # y
    <3>1. x \in Range(installing'[q]) \/ UpToDate(q, x)
      BY <1>1, <1>3, <2>1, <2>3 DEF AllKeyed
    <3>2. cipher'[x] = cipher[x] /\ (x \in working' <=> x \in working)
          /\ (failures' = 0 => failures = 0)
      BY <1>1, <2>1, <2>3 DEF KeySet
    <3> QED BY <1>2, <3>1, <3>2 DEF UpToDate, Holds
  <2> QED BY <2>2, <2>3
<1> QED BY <1>4 DEF AllKeyed

(* What attaching a receiver does to its transformer.                        *)
LEMMA AttachKeys ==
    ASSUME TypeInv, NEW r \in Receivers, AttachRecvTransformer(r)
    PROVE  \/ stored[Owner[r]] \in Bundles /\ KeySet(r, stored[Owner[r]])
           \/ /\ stored[Owner[r]] = NoBundle /\ r \notin working
              /\ UNCHANGED <<cipher, keyed, working, armed, failures>>
<1>1. Owner[r] \in Peers /\ r \in Transformers
  BY OwnerAssumption DEF Transformers
<1>2. CASE stored[Owner[r]] # NoBundle /\ SetE2eKey(r, stored[Owner[r]])
  <2>1. stored[Owner[r]] \in Bundles
    BY <1>1, <1>2 DEF TypeInv, TypeOK
  <2> QED BY <1>1, <1>2, <2>1, SetE2eKeyFacts DEF TypeInv
<1>3. CASE stored[Owner[r]] = NoBundle /\ UNCHANGED <<cipherVars, failures>>
  BY <1>1, <1>3 DEF TypeInv, TypeOK, ArmedOnlyIfStored, cipherVars
<1> QED BY <1>2, <1>3 DEF AttachRecvTransformer

LEMMA KeyedByAttach ==
    ASSUME TypeInv, AllKeyed, NEW r \in Receivers, AttachRecvTransformer(r)
    PROVE  AllKeyed'
<1> DEFINE p == Owner[r]
<1>1. p \in Peers /\ r \in Transformers
  BY OwnerAssumption DEF Transformers
<1>2. Range(Append(recvOrder[p], r)) = Range(recvOrder[p]) \cup {r}
  BY <1>1, RangeOfAppend DEF TypeInv, TypeOK
<1>3. /\ recvOrder' = [recvOrder EXCEPT ![p] = Append(@, r)]
      /\ UNCHANGED <<stored, installing>>
  BY DEF AttachRecvTransformer
<1>4. /\ Range(recvOrder'[p]) = Range(recvOrder[p]) \cup {r}
      /\ \A q \in Peers : q # p => recvOrder'[q] = recvOrder[q]
  BY <1>1, <1>2, <1>3 DEF TypeInv, TypeOK
<1>5. \/ stored[p] \in Bundles /\ KeySet(r, stored[p])
      \/ /\ stored[p] = NoBundle /\ r \notin working
         /\ UNCHANGED <<cipher, keyed, working, armed, failures>>
  BY AttachKeys
<1>6. ASSUME NEW q \in Peers, NEW x \in Attached(q)'
      PROVE  x \in Range(installing'[q]) \/ UpToDate(q, x)'
  <2>1. x \in Attached(q) \/ (q = p /\ x = r)
    BY <1>4 DEF Attached
  <2>2. CASE q = p /\ x = r
    BY <1>3, <1>5, <2>2 DEF UpToDate, Holds, KeySet
  <2>3. CASE x \in Attached(q) /\ x # r
    <3>1. x \in Transformers
      BY <2>3, AttachedOwned
    <3>2. cipher'[x] = cipher[x] /\ (x \in working' <=> x \in working)
          /\ (failures' = 0 => failures = 0)
      BY <1>5, <2>3, <3>1 DEF KeySet
    <3> QED BY <1>3, <2>3, <3>2 DEF AllKeyed, UpToDate, Holds
  <2>4. CASE x \in Attached(q) /\ x = r
    BY <2>2, <2>4, AttachedOwned
  <2> QED BY <2>1, <2>2, <2>3, <2>4
<1> HIDE DEF p
<1> QED BY <1>6 DEF AllKeyed

LEMMA KeyedBySend ==
    ASSUME TypeInv, AllKeyed, NEW x \in Senders, NEW f \in Frames, Sent(x, f)
    PROVE  AllKeyed'
<1>1. x \in Transformers
  BY DEF Transformers
<1>2. \A y \in Transformers : cipher'[y].keyId = cipher[y].keyId /\ cipher'[y].key = cipher[y].key
  BY <1>1, CounterStep DEF Sent, TypeInv
<1>3. ASSUME NEW q \in Peers, NEW y \in Attached(q)'
      PROVE  y \in Range(installing'[q]) \/ UpToDate(q, y)'
  <2>1. y \in Attached(q) /\ y \in Transformers
    BY AttachedOwned DEF Attached, Sent
  <2> QED BY <1>2, <2>1 DEF AllKeyed, UpToDate, Holds, Sent
<1> QED BY <1>3 DEF AllKeyed

-----------------------------------------------------------------------------
(* What senders and receivers let through.                                   *)

SendInv ==
    failures = 0 =>
        /\ armed \subseteq working
        /\ \A f \in wire : f.stance = "armed" => f.payload # Plain

ThroughInv == SendInv /\ ArmedDecodesOpened

LEMMA ThroughByKeySet ==
    ASSUME TypeInv, ThroughInv, NEW x \in Transformers, NEW b, KeySet(x, b),
           wire' = wire, decoded' = decoded
    PROVE  ThroughInv'
<1>1. SendInv'
  <2> SUFFICES ASSUME failures' = 0
               PROVE  armed' \subseteq working'
    BY DEF ThroughInv, SendInv, KeySet
  <2> QED BY DEF ThroughInv, SendInv, KeySet, TypeInv, TypeOK
<1> QED BY <1>1 DEF ThroughInv, ArmedDecodesOpened

LEMMA ThroughBySend ==
    ASSUME TypeInv, ThroughInv, NEW x \in Senders, NEW f \in Frames, Sent(x, f)
    PROVE  ThroughInv'
<1>1. SendInv'
  <2> SUFFICES ASSUME failures' = 0 PROVE SendInv'
    BY DEF SendInv
  <2>1. /\ failures = 0 /\ armed \subseteq working /\ wire' = wire \cup {f}
        /\ armed' = armed /\ working' = working
        /\ \A g \in wire : g.stance = "armed" => g.payload # Plain
    BY DEF Sent, ThroughInv, SendInv
  <2>2. f.stance = "armed" => f.payload # Plain
    BY <2>1 DEF Sent, SealedBy, Stance
  <2> QED BY <2>1, <2>2 DEF SendInv
<1> QED BY <1>1 DEF ThroughInv, ArmedDecodesOpened, Sent

LEMMA ThroughByReceive ==
    ASSUME TypeInv, ThroughInv, NEW r \in Receivers, NEW f \in wire, TransformReceive(r, f)
    PROVE  ThroughInv'
<1> DEFINE out == {[sent |-> f.payload, payload |-> q, stance |-> Stance(r)] : q \in PassedOn(r, f)}
<1>1. \A d \in out : d.stance = "armed" => d.payload = Plain /\ d.sent # Plain
  BY DEF PassedOn, LooksEncrypted, Stance
<1> HIDE DEF out
<1>2. /\ decoded' = [decoded EXCEPT ![r] = out]
      /\ UNCHANGED <<cipher, keyed, working, armed, wire, failures>>
  BY DEF TransformReceive, cipherVars, out
<1>3. \A s \in Receivers : decoded'[s] = IF s = r THEN out ELSE decoded[s]
  BY <1>2 DEF TypeInv, TypeOK
<1>4. ArmedDecodesOpened'
  BY <1>1, <1>3 DEF ThroughInv, ArmedDecodesOpened
<1> QED BY <1>2, <1>4 DEF ThroughInv, SendInv

-----------------------------------------------------------------------------
(* The inductive invariant.                                                  *)
IInv == TypeInv /\ WireInv /\ AllKeyed /\ ThroughInv

LEMMA InvInit == Init => IInv
<1> SUFFICES ASSUME Init PROVE IInv
  OBVIOUS
<1>1. WireInv
  BY DEF Init, WireInv, WireMatches, IvUniquePerInstall
<1>2. AllKeyed
  BY DEF Init, AllKeyed, UpToDate
<1>3. ThroughInv
  BY DEF Init, ThroughInv, SendInv, ArmedDecodesOpened
<1> QED BY <1>1, <1>2, <1>3, TypeInit DEF IInv

LEMMA InvStep == IInv /\ [Next]_vars => IInv'
<1> SUFFICES ASSUME IInv, [Next]_vars PROVE (WireInv /\ AllKeyed /\ ThroughInv)'
  BY TypeStep DEF IInv
<1> USE DEF IInv
<1>1. ASSUME NEW p \in Peers, NEW spi \in Spis, NEW k \in Keys, InstallKey(p, spi, k)
      PROVE  (WireInv /\ AllKeyed /\ ThroughInv)'
  <2>1. UNCHANGED <<cipher, keyed, working, armed, wire, decoded, failures>>
    BY <1>1 DEF InstallKey, cipherVars
  <2>2. WireInv' /\ ThroughInv'
    BY <2>1 DEF WireInv, WireMatches, IvUniquePerInstall, SealedUnder, ThroughInv, SendInv,
                ArmedDecodesOpened
  <2> QED BY <1>1, <2>2, KeyedByInstallKey
<1>2. ASSUME NEW p \in Peers, InstallNext(p)
      PROVE  (WireInv /\ AllKeyed /\ ThroughInv)'
  <2>1. PICK x \in Transformers : KeySet(x, stored[p])
    BY <1>2, InstallNextKeys
  <2>2. wire' = wire /\ decoded' = decoded
    BY <1>2 DEF InstallNext
  <2> QED BY <1>2, <2>1, <2>2, WireKeptByKeySet, ThroughByKeySet, KeyedByInstallNext
<1>3. ASSUME NEW r \in Receivers, AttachRecvTransformer(r)
      PROVE  (WireInv /\ AllKeyed /\ ThroughInv)'
  <2>1. r \in Transformers /\ wire' = wire /\ decoded' = decoded
    BY <1>3 DEF AttachRecvTransformer, Transformers
  <2>2. CASE KeySet(r, stored[Owner[r]])
    BY <1>3, <2>1, <2>2, WireKeptByKeySet, ThroughByKeySet, KeyedByAttach
  <2>3. CASE UNCHANGED <<cipher, keyed, working, armed, failures>>
    <3>1. WireInv' /\ ThroughInv'
      BY <2>1, <2>3 DEF WireInv, WireMatches, IvUniquePerInstall, SealedUnder, ThroughInv,
                        SendInv, ArmedDecodesOpened
    <3> QED BY <1>3, <3>1, KeyedByAttach
  <2> QED BY <1>3, <2>2, <2>3, AttachKeys
<1>4. ASSUME NEW x \in Senders, TransformSend(x)
      PROVE  (WireInv /\ AllKeyed /\ ThroughInv)'
  BY <1>4, TransformSendFacts, WireKeptBySend, KeyedBySend, ThroughBySend
<1>5. ASSUME NEW r \in Receivers, NEW f \in wire, TransformReceive(r, f)
      PROVE  (WireInv /\ AllKeyed /\ ThroughInv)'
  <2>1. UNCHANGED <<stored, installing, recvOrder, cipher, keyed, working, wire, failures>>
    BY <1>5 DEF TransformReceive, keyVars, cipherVars
  <2>2. WireInv' /\ AllKeyed'
    BY <2>1 DEF WireInv, WireMatches, IvUniquePerInstall, SealedUnder, AllKeyed, Attached,
                UpToDate, Holds
  <2> QED BY <1>5, <2>2, ThroughByReceive
<1>6. CASE UNCHANGED <<keyVars, cipherVars, wire, decoded, failures>>
  <2>1. UNCHANGED <<stored, installing, recvOrder, cipher, keyed, working, armed, wire,
                    decoded, failures>>
    BY <1>6 DEF keyVars, cipherVars
  <2> QED BY <2>1 DEF WireInv, WireMatches, IvUniquePerInstall, SealedUnder, AllKeyed, Attached,
                      UpToDate, Holds, ThroughInv, SendInv, ArmedDecodesOpened
<1>7. ASSUME NEW x \in Transformers, NEW ssrc \in Registrations(x),
             RegisterCallback(x, ssrc) \/ UnregisterCallback(x, ssrc)
      PROVE  UNCHANGED <<keyVars, cipherVars, wire, decoded, failures>>
  BY <1>7 DEF RegisterCallback, UnregisterCallback
<1> QED BY <1>1, <1>2, <1>3, <1>4, <1>5, <1>6, <1>7 DEF Next, vars

LEMMA Invariant == Spec => []IInv
BY InvInit, InvStep, PTL DEF Spec

(* Within one install of a key no two frames share key and IV, whatever      *)
(* number of senders share the key: the claim of GenerateIv's comment        *)
(* (e2ee_transformer.cc:105-119), install by install.                        *)
THEOREM IvsUniquePerInstall == Spec => []IvUniquePerInstall
<1>1. IInv => IvUniquePerInstall
  BY DEF IInv, WireInv
<1> QED BY <1>1, Invariant, PTL

(* Between installs all transformers of a peer agree with the stored key,    *)
(* however OnTrack interleaves with webrtc_install_e2ee_key                  *)
(* (webrtc_core.cc:758-773, 1282-1307).                                      *)
THEOREM TransformersAgree == Spec => []KeyedAsStored
<1>1. IInv => KeyedAsStored
  <2> SUFFICES ASSUME IInv, NEW p \in Peers, MutexFree(p), NEW x \in Attached(p) \cap working
               PROVE  Holds(x, stored[p])
    BY DEF KeyedAsStored
  <2>1. Range(installing[p]) = {}
    BY DEF MutexFree, Range
  <2> QED BY <2>1 DEF IInv, AllKeyed, UpToDate
<1> QED BY <1>1, Invariant, PTL

(* And none of them is left out, unless BCrypt refuses a key.                *)
THEOREM NobodyUnkeyed == Spec => []NobodyLeftUnkeyed
<1>1. IInv => NobodyLeftUnkeyed
  <2> SUFFICES ASSUME IInv, NEW p \in Peers, MutexFree(p), stored[p] # NoBundle,
                      failures = 0, NEW x \in Attached(p)
               PROVE  x \in working
    BY DEF NobodyLeftUnkeyed
  <2>1. Range(installing[p]) = {}
    BY DEF MutexFree, Range
  <2> QED BY <2>1 DEF IInv, AllKeyed, UpToDate
<1> QED BY <1>1, Invariant, PTL

(* An armed sender seals what it sends, unless BCrypt fails                  *)
(* (e2ee_transformer.cc:293-393).                                            *)
THEOREM ArmedSendersSeal == Spec => []ArmedSendsSealed
<1>1. IInv => ArmedSendsSealed
  BY DEF IInv, ThroughInv, SendInv, ArmedSendsSealed
<1> QED BY <1>1, Invariant, PTL

(* An armed receiver hands its decoder what it decrypted and nothing else    *)
(* (e2ee_transformer.cc:395-508).                                            *)
THEOREM ArmedReceiversOpen == Spec => []ArmedDecodesOpened
<1>1. IInv => ArmedDecodesOpened
  BY DEF IInv, ThroughInv
<1> QED BY <1>1, Invariant, PTL

(* Peers that store the same key and epoch understand each other: every      *)
(* frame of the sender's current install is opened by the other's receivers. *)
THEOREM PeersInSyncDecode == Spec => []InSyncDecodes
<1>1. IInv => InSyncDecodes
  <2> SUFFICES ASSUME IInv, NEW r \in Receivers \cap working, NEW f \in wire,
                      f.payload # Plain, f.ssrc \in working,
                      f.payload.install = cipher[f.ssrc].installs,
                      r \in Attached(Owner[r]), SameKind(r, f.ssrc),
                      stored[Owner[r]] = stored[Owner[f.ssrc]],
                      MutexFree(Owner[r]), MutexFree(Owner[f.ssrc])
               PROVE  PassedOn(r, f) = {Plain}
    BY DEF InSyncDecodes
  <2>1. f.ssrc \in Senders
    BY SealedTypes DEF IInv, TypeInv
  <2>2. Owner[r] \in Peers /\ Owner[f.ssrc] \in Peers
    BY <2>1, OwnerAssumption DEF Transformers
  <2>3. f.ssrc \in Attached(Owner[f.ssrc])
    BY <2>1 DEF Attached
  <2>4. Range(installing[Owner[r]]) = {} /\ Range(installing[Owner[f.ssrc]]) = {}
    BY DEF MutexFree, Range
  <2>5. Holds(r, stored[Owner[r]]) /\ Holds(f.ssrc, stored[Owner[r]])
    BY <2>2, <2>3, <2>4 DEF IInv, AllKeyed, UpToDate
  <2>6. /\ f.payload.marker = MarkerLen(f.ssrc)
        /\ f.payload.keyId = cipher[f.ssrc].keyId /\ f.payload.key = cipher[f.ssrc].key
    BY DEF IInv, WireInv, WireMatches, Matches
  <2>7. LooksEncrypted(r, f) /\ Decrypts(r, f) /\ r \in keyed
    BY <2>5, <2>6 DEF LooksEncrypted, Decrypts, Holds, SameKind, MarkerLen, IInv, TypeInv, TypeOK
  <2> QED BY <2>7 DEF PassedOn
<1> QED BY <1>1, Invariant, PTL
=============================================================================
