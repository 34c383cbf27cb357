----------------------------- MODULE GroupKeying -----------------------------
(***************************************************************************)
(* The life of a group as the CODE has it (conference.js:24-61, 109-162,   *)
(* keys.js:49-61), without sockets, messages or key wrapping: a group      *)
(* opens at epoch 1 with a media key no earlier group had; members join    *)
(* without changing the epoch; every departure that leaves somebody behind *)
(* starts the next epoch; the media key stays for as long as the group is  *)
(* open; the group closes when nobody is left.                             *)
(*                                                                         *)
(* The repository's documents contradict each other here.  docs/plan.md    *)
(* (197-209) and README.md:330 give the account above.  README.md:287,     *)
(* docs/architecture.md (94, 101, 360) and docs/generate_deck.py:294 say   *)
(* that a join rotates the KEK too, architecture.md:94-96 that a rotation  *)
(* renews the key media uses.  That the service implements this module is  *)
(* no support for the second account, it excludes it: KeyDistributor       *)
(* states that account by itself, as MembershipChangeRekeys, and it does   *)
(* not hold.                                                               *)
(***************************************************************************)
EXTENDS Naturals

CONSTANTS Groups, Members

VARIABLES
    group,  \* each group's members, epoch and media key
    step    \* steps taken; a media key is the number of the step that drew it

gkvars == <<group, step>>

Closed == [epoch |-> 0]
Opened(members) == [epoch |-> 1, members |-> members, mediaKey |-> step + 1]
IsOpen(g) == group[g].epoch # 0

Init ==
    /\ group = [g \in Groups |-> Closed]
    /\ step = 0

Open(g) ==
    /\ ~IsOpen(g)
    /\ group' = [group EXCEPT ![g] = Opened({})]

Add(g, m) ==
    \/ IsOpen(g) /\ group' = [group EXCEPT ![g].members = @ \cup {m}]
    \/ ~IsOpen(g) /\ group' = [group EXCEPT ![g] = Opened({m})]

Remove(g, m) ==
    LET rest == group[g].members \ {m}
    IN  /\ IsOpen(g)
        /\ \/ rest = {} /\ group' = [group EXCEPT ![g] = Closed]
           \/ /\ rest # {}
              /\ group' = [group EXCEPT ![g] = [epoch |-> @.epoch + 1, members |-> rest,
                                                mediaKey |-> @.mediaKey]]

Rotate(g) ==
    /\ IsOpen(g)
    /\ group' = [group EXCEPT ![g].epoch = @ + 1]

Next ==
    /\ step' = step + 1
    /\ \/ \E g \in Groups : Open(g) \/ Rotate(g)
       \/ \E g \in Groups, m \in Members : Add(g, m) \/ Remove(g, m)
       \/ UNCHANGED group

Spec == Init /\ [][Next]_gkvars
=============================================================================
