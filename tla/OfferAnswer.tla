---------------------------- MODULE OfferAnswer ----------------------------
(***************************************************************************)
(* What the native peer promises client.js about offers and answers, and   *)
(* what client.js relies on: ClientSession takes only these steps, and     *)
(* NativePeer, with its threads and queues, implements them.               *)
(***************************************************************************)
EXTENDS Naturals, Sequences, SequencesExt

CONSTANT MaxSlots    \* the most receive slots per kind that are asked for

VARIABLES
    open,            \* there is a peer
    slots,           \* receive slots of a kind it has
    creating,        \* createOffer calls without a result
    events,          \* the offers created and not yet polled, by their slots
    local,           \* the pending local offer, 0: none
    negotiated       \* what the last accepted answer covers

vars == <<open, slots, creating, events, local, negotiated>>

NoPeer == /\ open = FALSE /\ slots = 1 /\ creating = 0
          /\ events = <<>> /\ local = 0 /\ negotiated = 0

Fresh == /\ slots' = 1 /\ creating' = 0
         /\ events' = <<>> /\ local' = 0 /\ negotiated' = 0

Open == ~open /\ open' = TRUE /\ Fresh
Close == open /\ open' = FALSE /\ Fresh

(* More slots, an offer of what there is when it is created, or both.      *)
Request ==
    /\ open
    /\ slots' \in slots..MaxSlots
    /\ creating' \in {creating, creating + 1}
    /\ UNCHANGED <<open, events, local, negotiated>>

(* An offer, or an error instead.                                          *)
OfferCreated ==
    /\ open /\ creating > 0
    /\ creating' = creating - 1
    /\ events' \in {events, Append(events, slots)}
    /\ UNCHANGED <<open, slots, local, negotiated>>

(* All offers are taken at once and in order, the last becomes the local   *)
(* description.                                                            *)
TakeOffers ==
    /\ open /\ events # <<>>
    /\ events' = <<>> /\ local' = Last(events)
    /\ UNCHANGED <<open, slots, creating, negotiated>>

(* An answer is accepted if it answers the pending offer.                  *)
Answered ==
    /\ open /\ local > 0
    /\ local' = 0 /\ negotiated' = local
    /\ UNCHANGED <<open, slots, creating, events>>

Next == Open \/ Close \/ Request \/ OfferCreated \/ TakeOffers \/ Answered

Spec == NoPeer /\ [][Next]_vars
=============================================================================
