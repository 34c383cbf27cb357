-------------------------- MODULE FrameTransformer --------------------------
(***************************************************************************)
(* The frame encryption of the client: E2eeFrameTransformer and its cipher *)
(* (client/src/e2ee_transformer.cc), one instance for each RTP sender and  *)
(* receiver, and the part of WebrtcPeer (client/src/webrtc_core.cc) that   *)
(* keys them.  Media threads call Transform while the signalling and Node  *)
(* threads install keys and attach receivers.                              *)
(*                                                                         *)
(*   - mu_ is held through Transform, SetE2eKey and each registration: one *)
(*     action each.  e2ee_mutex is held through webrtc_install_e2ee_key,   *)
(*     which takes mu_ of one transformer after another: one action each.  *)
(*   - A frame that was sent stays on the wire: any receiver of its kind   *)
(*     may be given it at any time, or never.  The SFU forwards frames     *)
(*     without changing them, it may give them to any receiver.            *)
(*   - AES-GCM opens what was sealed under the same key and nothing else.  *)
(*     `failures` counts the BCrypt calls that return an error.            *)
(*   - Sets stand for the Boolean members: `keyed` for has_key_, `working` *)
(*     for a key_handle_ that is not null, `armed` for armed_.             *)
(*   - Frames without a registered callback are dropped, which changes     *)
(*     nothing; the counters and sets behind the diagnostics are left out. *)
(***************************************************************************)
EXTENDS Naturals, Sequences, FiniteSets, SequencesExt

CONSTANTS
    Peers,
    Senders,        \* RTP senders, each named by its SSRC
    Receivers,      \* RTP receivers
    Owner,          \* the peer of each sender and receiver
    SenderOrder,    \* e2ee_send_transformers of each peer
    Video,          \* the senders and receivers of video, the others are audio
    Keys,           \* E2E master keys the Key Distributor gives out
    Spis,           \* values of kekSpi
    AnySsrc,        \* registration of send_callback_, which names no SSRC
    NoBundle,
    Plain,          \* the payload of a frame that is not encrypted
    MaxInstalls,    \* bound: calls of webrtc_install_e2ee_key
    MaxFrames,      \* bound: frames sent
    MaxFailures     \* bound: BCrypt errors

Transformers == Senders \cup Receivers

ASSUME OwnerAssumption == Owner \in [Transformers -> Peers]
ASSUME SenderOrderAssumption ==
    /\ SenderOrder \in [Peers -> Seq(Senders)]
    /\ \A s \in Senders, p \in Peers : Owner[s] = p <=> s \in Range(SenderOrder[p])
ASSUME KindAssumption == Senders \cap Receivers = {} /\ AnySsrc \notin Senders
ASSUME SpiAssumption == Spis \subseteq Nat
ASSUME NoBundleAssumption == NoBundle \notin [keyId : Nat, key : Keys]
ASSUME PlainAssumption ==
    Plain \notin [keyId : Nat, key : Keys, iv : (Senders \cup {AnySsrc}) \X Nat,
                  install : Nat, marker : Nat]
ASSUME BoundAssumption == {MaxInstalls, MaxFrames, MaxFailures} \subseteq Nat

VARIABLES
    stored,     \* e2ee_has_key, e2ee_key_id and e2ee_key of each peer
    installing, \* the transformers the running install has not reached yet
    recvOrder,  \* e2ee_recv_transformers of each peer
    cipher,     \* key_id_, key_ and frame_counter_; history: installs
    keyed, working, armed,
    callbacks,  \* the SSRCs each transformer has a callback for
    wire,       \* frames sent
    decoded,    \* history: what each receiver passed on last to its decoder
    installs,   \* installs begun so far
    failures    \* BCrypt errors so far

keyVars == <<stored, installing, recvOrder, installs>>
cipherVars == <<cipher, keyed, working, armed>>
vars == <<keyVars, cipherVars, callbacks, wire, decoded, failures>>

NoCipher == [keyId |-> 0, key |-> NoBundle, counter |-> 0, installs |-> 0]

Stance(x) == IF x \in armed THEN "armed" ELSE "unarmed"
Attached(p) == {s \in Senders : Owner[s] = p} \cup Range(recvOrder[p])

-----------------------------------------------------------------------------
(* The cipher.  An operator whose name ends in _ and a phrase is not the     *)
(* code: it is a slip the properties must catch.                             *)

Fresh(c, b, counter) ==
    [keyId |-> b.keyId, key |-> b.key, counter |-> counter, installs |-> c.installs + 1]

SetKey_IdKept(c, b) == [Fresh(c, b, 0) EXCEPT !.keyId = c.keyId]
(* key_id_ and key_ are replaced, frame_counter_ starts again.               *)
SetKey(c, b) == Fresh(c, b, 0)

GenerateIv_NoSsrc(x, c) == <<AnySsrc, c.counter>>
(* 4 bytes of SSRC, 8 bytes of frame counter, then frame_counter_++.         *)
GenerateIv(x, c) == <<x, c.counter>>

(* Video frames carry one clear byte ahead of the sealed payload.            *)
MarkerLen(x) == IF x \in Video THEN 1 ELSE 0

Sealed_NoMarker(x, c) ==
    [keyId |-> c.keyId, key |-> c.key, iv |-> GenerateIv(x, c),
     install |-> c.installs, marker |-> 0]
Sealed(x, c) ==
    [keyId |-> c.keyId, key |-> c.key, iv |-> GenerateIv(x, c),
     install |-> c.installs, marker |-> MarkerLen(x)]

(* The receiver looks for its key id behind the marker of its own kind.      *)
LooksEncrypted(r, f) ==
    /\ f.payload # Plain
    /\ f.payload.marker = MarkerLen(r)
    /\ f.payload.keyId = cipher[r].keyId

Decrypts(r, f) == r \in working /\ f.payload.key = cipher[r].key

(* What TransformReceive hands to the callback: a set of one payload, or of   *)
(* none when the frame is dropped.                                           *)
PassedOn_FailedForwarded(r, f) ==
    IF r \in keyed /\ LooksEncrypted(r, f) /\ Decrypts(r, f)
    THEN {Plain} ELSE {f.payload}
PassedOn(r, f) ==
    CASE r \in keyed /\ LooksEncrypted(r, f) -> IF Decrypts(r, f) THEN {Plain} ELSE {}
      [] OTHER -> IF r \in armed THEN {} ELSE {f.payload}

SetE2eKey_NotArmed(x, b) ==
    /\ cipher' = [cipher EXCEPT ![x] = SetKey(@, b)]
    /\ keyed' = keyed \cup {x}
    /\ working' = working \cup {x}
    /\ UNCHANGED <<armed, failures>>
SetE2eKey_HandleLost(x, b) ==
    /\ armed' = armed \cup {x}
    /\ cipher' = [cipher EXCEPT ![x] = SetKey(@, b)]
    /\ keyed' = keyed \cup {x}
    /\ working' = working \ {x}
    /\ UNCHANGED failures

(* SetE2eKey: the transformer is armed even when BCrypt refuses the key, and *)
(* the old handle is gone by then.                                           *)
SetE2eKey(x, b) ==
    /\ armed' = armed \cup {x}
    /\ \/ /\ cipher' = [cipher EXCEPT ![x] = SetKey(@, b)]
          /\ keyed' = keyed \cup {x}
          /\ working' = working \cup {x}
          /\ UNCHANGED failures
       \/ /\ failures < MaxFailures
          /\ failures' = failures + 1
          /\ working' = working \ {x}
          /\ UNCHANGED <<cipher, keyed>>

-----------------------------------------------------------------------------
Init ==
    /\ stored = [p \in Peers |-> NoBundle]
    /\ installing = [p \in Peers |-> <<>>]
    /\ recvOrder = [p \in Peers |-> <<>>]
    /\ cipher = [x \in Transformers |-> NoCipher]
    /\ keyed = {} /\ working = {} /\ armed = {}
    /\ callbacks = [x \in Transformers |-> {}]
    /\ wire = {}
    /\ decoded = [r \in Receivers |-> {}]
    /\ installs = 0 /\ failures = 0

MutexFree(p) == installing[p] = <<>>

KeyIdOf(spi) == spi % 256

(* webrtc_install_e2ee_key takes e2ee_mutex and stores the key.              *)
InstallKey(p, spi, key) ==
    /\ MutexFree(p)
    /\ installs < MaxInstalls
    /\ installs' = installs + 1
    /\ stored' = [stored EXCEPT ![p] = [keyId |-> KeyIdOf(spi), key |-> key]]
    /\ installing' = [installing EXCEPT ![p] = SenderOrder[p] \o recvOrder[p]]
    /\ UNCHANGED <<recvOrder, cipherVars, callbacks, wire, decoded, failures>>

(* Its loop keys one transformer; after the last one the mutex is free.      *)
InstallNext(p) ==
    /\ ~MutexFree(p)
    /\ SetE2eKey(Head(installing[p]), stored[p])
    /\ installing' = [installing EXCEPT ![p] = Tail(@)]
    /\ UNCHANGED <<stored, recvOrder, installs, callbacks, wire, decoded>>

AttachRecvTransformer_Unkeyed(r) ==
    /\ MutexFree(Owner[r])
    /\ r \notin Range(recvOrder[Owner[r]])
    /\ recvOrder' = [recvOrder EXCEPT ![Owner[r]] = Append(@, r)]
    /\ UNCHANGED <<cipherVars, failures, stored, installing, installs, callbacks, wire, decoded>>

(* AttachRecvTransformer, from webrtc_create or from OnTrack: once for each  *)
(* receiver, keyed from what is stored.                                      *)
AttachRecvTransformer(r) ==
    LET p == Owner[r]
    IN  /\ MutexFree(p)
        /\ r \notin Range(recvOrder[p])
        /\ recvOrder' = [recvOrder EXCEPT ![p] = Append(@, r)]
        /\ \/ /\ stored[p] # NoBundle
              /\ SetE2eKey(r, stored[p])
           \/ /\ stored[p] = NoBundle
              /\ UNCHANGED <<cipherVars, failures>>
        /\ UNCHANGED <<stored, installing, installs, callbacks, wire, decoded>>

(* libwebrtc registers a callback: an audio sender's without an SSRC, every  *)
(* other one with the SSRC of its frames.                                    *)
RegisterCallback(x, ssrc) ==
    /\ x \in Attached(Owner[x])
    /\ callbacks' = [callbacks EXCEPT ![x] = @ \cup {ssrc}]
    /\ UNCHANGED <<keyVars, cipherVars, wire, decoded, failures>>

UnregisterCallback(x, ssrc) ==
    /\ ssrc \in callbacks[x]
    /\ callbacks' = [callbacks EXCEPT ![x] = @ \ {ssrc}]
    /\ UNCHANGED <<keyVars, cipherVars, wire, decoded, failures>>

HasCallback(x, ssrc) == callbacks[x] \cap {ssrc, AnySsrc} # {}

Emit(x, payload) ==
    wire' = wire \cup {[ssrc |-> x, body |-> Cardinality(wire) + 1,
                        stance |-> Stance(x), payload |-> payload]}

(* TransformSend: without a key, or when Encrypt fails, the frame goes out   *)
(* as it came.                                                               *)
TransformSend(x) ==
    /\ HasCallback(x, x)
    /\ Cardinality(wire) < MaxFrames
    /\ \/ /\ x \notin keyed \cap working
          /\ Emit(x, Plain)
          /\ UNCHANGED <<cipher, failures>>
       \/ /\ x \in keyed \cap working
          /\ Emit(x, Sealed(x, cipher[x]))
          /\ cipher' = [cipher EXCEPT ![x].counter = @ + 1]
          /\ UNCHANGED failures
       \/ /\ x \in keyed \cap working
          /\ failures < MaxFailures
          /\ failures' = failures + 1
          /\ Emit(x, Plain)
          /\ cipher' = [cipher EXCEPT ![x].counter = @ + 1]
    /\ UNCHANGED <<keyVars, keyed, working, armed, callbacks, decoded>>

TransformReceive(r, f) ==
    /\ HasCallback(r, f.ssrc)
    /\ PassedOn(r, f) # {}
    /\ decoded' = [decoded EXCEPT ![r] =
           {[sent |-> f.payload, payload |-> q, stance |-> Stance(r)] : q \in PassedOn(r, f)}]
    /\ UNCHANGED <<keyVars, cipherVars, callbacks, wire, failures>>

SameKind(r, s) == (r \in Video) = (s \in Video)
Registrations(x) ==
    CASE x \in Receivers -> {s \in Senders : SameKind(x, s) /\ Owner[s] # Owner[x]}
      [] x \in Senders \cap Video -> {x}
      [] OTHER -> {AnySsrc}

Next ==
    \/ \E p \in Peers : \/ \E spi \in Spis, k \in Keys : InstallKey(p, spi, k)
                        \/ InstallNext(p)
    \/ \E r \in Receivers : AttachRecvTransformer(r)
    \/ \E x \in Transformers : \E ssrc \in Registrations(x) :
           RegisterCallback(x, ssrc) \/ UnregisterCallback(x, ssrc)
    \/ \E x \in Senders : TransformSend(x)
    \/ \E r \in Receivers : \E f \in wire : TransformReceive(r, f)

Spec == Init /\ [][Next]_vars

-----------------------------------------------------------------------------
Bundles == [keyId : 0 .. 255, key : Keys]
Ciphers == [keyId : 0 .. 255, key : Keys \cup {NoBundle}, counter : Nat, installs : Nat]
Stances == {"armed", "unarmed"}
Payloads == {Plain} \cup [keyId : 0 .. 255, key : Keys, iv : (Senders \cup {AnySsrc}) \X Nat,
                          install : Nat, marker : 0 .. 1]
Frames == [ssrc : Senders, body : Nat, stance : Stances, payload : Payloads]

(* The variables have the shapes the code gives them; a working handle goes  *)
(* with has_key_, and a key with armed_ (e2ee_transformer.cc:233-238).       *)
TypeOK ==
    /\ stored \in [Peers -> Bundles \cup {NoBundle}]
    /\ installing \in [Peers -> Seq(Transformers)]
    /\ recvOrder \in [Peers -> Seq(Receivers)]
    /\ cipher \in [Transformers -> Ciphers]
    /\ working \subseteq keyed /\ keyed \subseteq armed /\ armed \subseteq Transformers
    /\ \A x \in keyed : cipher[x].key \in Keys
    /\ callbacks \in [Transformers -> SUBSET (Senders \cup {AnySsrc})]
    /\ wire \subseteq Frames
    /\ decoded \in [Receivers -> SUBSET [sent : Payloads, payload : Payloads, stance : Stances]]
    /\ installs \in Nat /\ failures \in Nat

Holds(x, b) == cipher[x].keyId = b.keyId /\ cipher[x].key = b.key

(* A receiver attached while a key is being installed, before it or after it *)
(* ends up with the same key as everybody else: between installs, whatever   *)
(* transformer of a peer can encrypt or decrypt holds the peer's stored key. *)
KeyedAsStored ==
    \A p \in Peers : MutexFree(p) =>
        \A x \in Attached(p) \cap working : Holds(x, stored[p])

(* Between installs, and unless BCrypt failed, no attached transformer is    *)
(* left without the key its peer stored.                                     *)
NobodyLeftUnkeyed ==
    \A p \in Peers : (MutexFree(p) /\ stored[p] # NoBundle /\ failures = 0) =>
        Attached(p) \subseteq working

(* "Including the SSRC guarantees IV uniqueness across streams that share    *)
(* the same key" (e2ee_transformer.cc:106-109): within one install of a key  *)
(* no two frames are sealed under the same key with the same IV.             *)
SealedUnder(f, g) ==
    /\ f.payload # Plain /\ g.payload # Plain
    /\ f.payload.key = g.payload.key
    /\ f.payload.iv = g.payload.iv
IvUniquePerInstall ==
    \A f, g \in wire :
        SealedUnder(f, g) => f = g \/ f.payload.install # g.payload.install

(* An armed sender never sends a frame as it came, unless BCrypt failed:     *)
(* what it does then is the subject of InnerLayerStaysSealed.                *)
ArmedSendsSealed ==
    failures = 0 => \A f \in wire : f.stance = "armed" => f.payload # Plain

(* "the receive path must never forward a frame to the decoder unless it     *)
(* decrypts successfully" (e2ee_transformer.h:110-113).                      *)
ArmedDecodesOpened ==
    \A r \in Receivers : \A d \in decoded[r] :
        d.stance = "armed" => d.payload = Plain /\ d.sent # Plain

(* A receiver whose peer stores the key and epoch of the sending peer opens  *)
(* every frame of its kind that the sender's current install sealed and that *)
(* it is given from then on: media heals after a rekey.  Frames it was given *)
(* before its own install are dropped and not asked for again.               *)
InSyncDecodes ==
    \A r \in Receivers \cap working : \A f \in wire :
        (/\ f.payload # Plain
         /\ f.ssrc \in working /\ f.payload.install = cipher[f.ssrc].installs
         /\ r \in Attached(Owner[r])
         /\ SameKind(r, f.ssrc)
         /\ stored[Owner[r]] = stored[Owner[f.ssrc]]
         /\ MutexFree(Owner[r]) /\ MutexFree(Owner[f.ssrc]))
        => PassedOn(r, f) = {Plain}

(* "avoiding the catastrophic GCM IV-reuse failure mode"                     *)
(* (e2ee_transformer.cc:108-109): no key seals two frames with one IV.       *)
IvNeverReused == \A f, g \in wire : SealedUnder(f, g) => f = g

(* "SFU NEVER sees: the E2E key or the decrypted media (inner layer stays    *)
(* sealed)" (README.md:31, docs/architecture.md:46): once a sender is armed  *)
(* every frame it puts on the wire is sealed.  When BCrypt refuses the key   *)
(* or fails to encrypt, the frame goes to the packetizer as it came          *)
(* (e2ee_transformer.cc:352-356, 392).                                       *)
InnerLayerStaysSealed == \A f \in wire : f.stance = "armed" => f.payload # Plain
=============================================================================
