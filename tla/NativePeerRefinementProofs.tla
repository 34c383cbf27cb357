--------------------- MODULE NativePeerRefinementProofs ---------------------
(***************************************************************************)
(* Proof that NativePeer keeps what OfferAnswer promises client.js.        *)
(*                                                                         *)
(* What client.js sees of the descriptions is what they will be when the   *)
(* operations it has asked for have run, a recursive function of these.    *)
(* The lemmas on Outcomes say how it changes when an operation is asked    *)
(* for at one end of the chain and run at the other; they are inductions   *)
(* along a sequence, by its least element that would be wrong.             *)
(***************************************************************************)
EXTENDS NativePeerProofs, SequenceTheorems, WellFoundedInduction

-----------------------------------------------------------------------------
(* Least elements.                                                         *)

Less == {p \in Nat \X Nat : p[1] < p[2]}

LEMMA LessWellFounded == IsWellFoundedOn(Less, Nat)
BY NatLessThanWellFounded DEF OpToRel, Less

LEMMA LeastElement ==
    ASSUME NEW T, T \subseteq Nat, T # {}
    PROVE  \E x \in T : \A y \in T : x <= y
<1>1. PICK x \in T : \A y \in T : ~(<<y, x>> \in Less)
  BY LessWellFounded, WFMin
<1>2. \A y \in T : ~(y < x)
  BY <1>1 DEF Less
<1> QED BY <1>2

-----------------------------------------------------------------------------
(* What comes of operations.                                               *)

(* D[i] is what comes of the first i operations.                           *)
Follows(D, d, s, n) ==
    /\ D[0] = d
    /\ \A i \in 1..n : D[i] = Apply(D[i - 1], s[i])

LEMMA ApplyOutcome ==
    ASSUME NEW d \in Descriptions, NEW o \in Operations
    PROVE  /\ Apply(d, o) \in Descriptions
           /\ o.op = "create" => Apply(d, o) = d
           /\ o.op = "local" => Apply(d, o) = [d EXCEPT !.local = o.slots]
           /\ o.op = "remote" /\ d.local = o.slots
                  => Apply(d, o) = [local |-> 0, negotiated |-> o.slots]
           /\ o.op = "remote" /\ d.local # o.slots => Apply(d, o) = d
<1>1. o.op \in {"create", "local", "remote"} /\ o.slots \in 0..MaxSlots
  BY DEF Operations
<1>2. [d EXCEPT !.local = o.slots] \in Descriptions
  BY <1>1 DEF Descriptions
<1>3. [local |-> 0, negotiated |-> o.slots] \in Descriptions
  BY <1>1, SlotsAssumption DEF Descriptions
<1> QED BY <1>1, <1>2, <1>3 DEF Apply

LEMMA OutcomesExist ==
    ASSUME NEW d \in Descriptions, NEW s \in Seq(Operations)
    PROVE  \A n \in 0..Len(s) : \E D \in [0..n -> Descriptions] : Follows(D, d, s, n)
<1> DEFINE Wrong == {n \in 0..Len(s) : ~ \E D \in [0..n -> Descriptions] : Follows(D, d, s, n)}
<1>0. Len(s) \in Nat /\ \A i \in 1..Len(s) : s[i] \in Operations
  OBVIOUS
<1>1. ASSUME NEW n \in Wrong, \A k \in Wrong : n <= k
      PROVE  FALSE
  <2>0. n \in 0..Len(s) /\ ~ \E D \in [0..n -> Descriptions] : Follows(D, d, s, n)
    OBVIOUS
  <2>1. CASE n = 0
    <3> DEFINE D == [i \in 0..n |-> d]
    <3>1. D \in [0..n -> Descriptions] /\ D[0] = d /\ \A i \in 1..n : FALSE
      BY <2>1
    <3> QED BY <2>0, <3>1 DEF Follows
  <2>2. CASE n > 0
    <3>1. n - 1 \in 0..Len(s) /\ n - 1 \notin Wrong
      BY <1>0, <1>1, <2>0, <2>2
    <3>2. PICK D \in [0..(n - 1) -> Descriptions] : Follows(D, d, s, n - 1)
      BY <3>1
    <3> DEFINE E == [i \in 0..n |-> IF i = n THEN Apply(D[n - 1], s[n]) ELSE D[i]]
    <3>3. n - 1 \in 0..(n - 1) /\ n \in 1..Len(s)
      BY <1>0, <2>0, <2>2
    <3>4. D[n - 1] \in Descriptions /\ s[n] \in Operations
      BY <1>0, <3>2, <3>3
    <3>5. Apply(D[n - 1], s[n]) \in Descriptions
      BY <3>4, ApplyOutcome
    <3>6. E \in [0..n -> Descriptions]
      BY <1>0, <2>0, <3>2, <3>5
    <3>7. E[0] = d
      BY <2>2, <3>2, <3>3 DEF Follows
    <3>8. ASSUME NEW i \in 1..n PROVE E[i] = Apply(E[i - 1], s[i])
      <4>1. CASE i = n
        BY <2>0, <3>3, <4>1
      <4>2. CASE i # n
        <5>1. i \in 1..(n - 1) /\ i \in 0..n /\ i - 1 \in 0..n /\ i - 1 # n
          BY <2>0, <4>2
        <5> QED BY <3>2, <4>2, <5>1 DEF Follows
      <4> QED BY <4>1, <4>2
    <3> HIDE DEF E
    <3> QED BY <2>0, <3>6, <3>7, <3>8 DEF Follows
  <2> QED BY <1>0, <2>0, <2>1, <2>2
<1>2. Wrong \subseteq Nat
  BY <1>0
<1>3. Wrong = {}
  BY <1>1, <1>2, LeastElement
<1> QED BY <1>3

LEMMA OutcomesAgree ==
    ASSUME NEW d, NEW s, NEW n \in Nat, NEW D, NEW E,
           Follows(D, d, s, n), Follows(E, d, s, n)
    PROVE  \A i \in 0..n : D[i] = E[i]
<1> DEFINE Wrong == {i \in 0..n : D[i] # E[i]}
<1>1. ASSUME NEW i \in Wrong, \A k \in Wrong : i <= k
      PROVE  FALSE
  <2>1. i # 0
    BY DEF Follows
  <2>2. i - 1 \in 0..n /\ i - 1 \notin Wrong /\ i \in 1..n
    BY <1>1, <2>1
  <2>3. D[i - 1] = E[i - 1]
    BY <2>2
  <2> QED BY <2>2, <2>3 DEF Follows
<1>2. Wrong = {}
  <2>1. Wrong \subseteq Nat
    OBVIOUS
  <2> HIDE DEF Wrong
  <2> QED BY <1>1, <2>1, LeastElement
<1> QED BY <1>2

(* The recursive function is what its definition says.                     *)
LEMMA OutcomesFollow ==
    ASSUME NEW d \in Descriptions, NEW s \in Seq(Operations)
    PROVE  /\ Outcomes(d, s) \in [0..Len(s) -> Descriptions]
           /\ Follows(Outcomes(d, s), d, s, Len(s))
<1> DEFINE Is(g) == g = [i \in 0..Len(s) |-> IF i = 0 THEN d ELSE Apply(g[i - 1], s[i])]
<1>0. Len(s) \in Nat
  OBVIOUS
<1>1. PICK D \in [0..Len(s) -> Descriptions] : Follows(D, d, s, Len(s))
  <2>1. Len(s) \in 0..Len(s)
    BY <1>0
  <2> QED BY <2>1, OutcomesExist
<1>2. Is(D)
  <2>1. \A i \in 0..Len(s) : D[i] = IF i = 0 THEN d ELSE Apply(D[i - 1], s[i])
    BY <1>0, <1>1 DEF Follows
  <2> QED BY <1>1, <2>1
<1>3. Outcomes(d, s) = CHOOSE g : Is(g)
  BY DEF Outcomes
<1> DEFINE O == Outcomes(d, s)
<1>4. Is(O)
  <2> HIDE DEF Is
  <2> QED BY <1>2, <1>3
<1> HIDE DEF O
<1>5. Follows(O, d, s, Len(s))
  <2>1. \A i \in 0..Len(s) : O[i] = IF i = 0 THEN d ELSE Apply(O[i - 1], s[i])
    BY <1>4
  <2> HIDE DEF Is
  <2> QED BY <1>0, <2>1 DEF Follows
<1>6. \A i \in 0..Len(s) : O[i] = D[i]
  <2> HIDE DEF Is
  <2> QED BY <1>0, <1>1, <1>5, OutcomesAgree
<1>7. O \in [0..Len(s) -> Descriptions]
  <2>1. O = [i \in 0..Len(s) |-> O[i]]
    BY <1>4
  <2> HIDE DEF Is
  <2> QED BY <1>1, <1>6, <2>1
<1> QED BY <1>5, <1>7 DEF O

(* What comes of all of them, and how it is found.                         *)
Outcome(d, s) == Outcomes(d, s)[Len(s)]

LEMMA OutcomeIs ==
    ASSUME NEW d \in Descriptions, NEW s \in Seq(Operations),
           NEW D, Follows(D, d, s, Len(s))
    PROVE  Outcome(d, s) = D[Len(s)] /\ Outcome(d, s) \in Descriptions
<1>1. Len(s) \in Nat /\ Len(s) \in 0..Len(s)
  OBVIOUS
<1>2. /\ Outcomes(d, s) \in [0..Len(s) -> Descriptions]
      /\ Follows(Outcomes(d, s), d, s, Len(s))
  BY OutcomesFollow
<1>3. \A i \in 0..Len(s) : Outcomes(d, s)[i] = D[i]
  BY <1>1, <1>2, OutcomesAgree
<1> QED BY <1>1, <1>2, <1>3 DEF Outcome

LEMMA OutcomeType ==
    ASSUME NEW d \in Descriptions, NEW s \in Seq(Operations)
    PROVE  Outcome(d, s) \in Descriptions
BY OutcomesFollow, OutcomeIs

(* Nothing asked for changes nothing.                                      *)
LEMMA OutcomeOfNone ==
    ASSUME NEW d \in Descriptions
    PROVE  Outcome(d, <<>>) = d
<1>1. <<>> \in Seq(Operations) /\ Len(<<>>) = 0
  OBVIOUS
<1>2. Follows(Outcomes(d, <<>>), d, <<>>, 0)
  BY <1>1, OutcomesFollow
<1> QED BY <1>1, <1>2 DEF Outcome, Follows

(* Another operation is asked for: it applies to what there would be.      *)
LEMMA OutcomeOfMore ==
    ASSUME NEW d \in Descriptions, NEW s \in Seq(Operations), NEW o \in Operations
    PROVE  Outcome(d, Append(s, o)) = Apply(Outcome(d, s), o)
<1> DEFINE t == Append(s, o)  E == Outcomes(d, t)
<1>1. /\ t \in Seq(Operations) /\ Len(t) = Len(s) + 1 /\ t[Len(s) + 1] = o
      /\ \A i \in 1..Len(s) : t[i] = s[i]
      /\ Len(s) \in Nat
  BY AppendProperties
<1> HIDE DEF t
<1>2. Follows(E, d, t, Len(t))
  BY <1>1, OutcomesFollow
<1> HIDE DEF E
<1>3. Follows(E, d, s, Len(s))
  <2>1. \A i \in 1..Len(s) : i \in 1..Len(t)
    BY <1>1
  <2> QED BY <1>1, <1>2, <2>1 DEF Follows
<1>4. Outcome(d, s) = E[Len(s)]
  BY <1>3, OutcomeIs
<1>5. E[Len(s) + 1] = Apply(E[Len(s)], o)
  <2>1. Len(s) + 1 \in 1..Len(t) /\ Len(s) + 1 - 1 = Len(s)
    BY <1>1
  <2> QED BY <1>1, <1>2, <2>1 DEF Follows
<1>6. Outcome(d, t) = E[Len(s) + 1]
  BY <1>1, <1>2, OutcomeIs
<1> QED BY <1>4, <1>5, <1>6 DEF t

(* The first operation has run: the rest applies to what has come of it.   *)
LEMMA OutcomeOfRest ==
    ASSUME NEW d \in Descriptions, NEW s \in Seq(Operations), s # <<>>
    PROVE  /\ Head(s) \in Operations /\ Tail(s) \in Seq(Operations)
           /\ Outcome(Apply(d, Head(s)), Tail(s)) = Outcome(d, s)
<1> DEFINE t == Tail(s)  c == Apply(d, Head(s))  E == Outcomes(d, s)
           D == [i \in 0..Len(t) |-> E[i + 1]]
<1>1. /\ Head(s) \in Operations /\ Head(s) = s[1]
      /\ t \in Seq(Operations) /\ Len(t) = Len(s) - 1 /\ Len(t) \in Nat
      /\ \A i \in 1..Len(t) : t[i] = s[i + 1]
  BY HeadTailProperties
<1>2. c \in Descriptions
  BY <1>1, ApplyOutcome
<1>3. Follows(E, d, s, Len(s))
  BY OutcomesFollow
<1> HIDE DEF E, t
<1>4. E[1] = c
  <2>1. 1 \in 1..Len(s) /\ 1 - 1 = 0
    BY <1>1
  <2> QED BY <1>1, <1>3, <2>1 DEF Follows
<1>5. D[0] = c
  <2>1. 0 \in 0..Len(t) /\ 0 + 1 = 1
    BY <1>1
  <2> QED BY <1>4, <2>1
<1>6. ASSUME NEW i \in 1..Len(t) PROVE D[i] = Apply(D[i - 1], t[i])
  <2>1. /\ i \in 0..Len(t) /\ i - 1 \in 0..Len(t) /\ i + 1 \in 1..Len(s)
        /\ i - 1 + 1 = i /\ i + 1 - 1 = i
    BY <1>1
  <2>2. E[i + 1] = Apply(E[i + 1 - 1], s[i + 1])
    BY <1>3, <2>1 DEF Follows
  <2> QED BY <1>1, <2>1, <2>2
<1>7. D[Len(t)] = E[Len(s)]
  <2>1. Len(t) \in 0..Len(t) /\ Len(t) + 1 = Len(s)
    BY <1>1
  <2> QED BY <2>1
<1> HIDE DEF D, c
<1>8. Outcome(c, t) = D[Len(t)]
  BY <1>1, <1>2, <1>5, <1>6, OutcomeIs DEF Follows
<1> QED BY <1>1, <1>7, <1>8 DEF Outcome, E, t, c

(* Offers that are polled become the local description one after the other,*)
(* so that the last remains.                                               *)
LEMMA SetLocalsType ==
    ASSUME NEW e \in Seq(Slots)
    PROVE  /\ SetLocals(e) \in Seq(Operations) /\ Len(SetLocals(e)) = Len(e)
           /\ \A i \in 1..Len(e) : SetLocals(e)[i] = [op |-> "local", slots |-> e[i]]
<1>1. \A i \in 1..Len(e) : [op |-> "local", slots |-> e[i]] \in Operations
  BY SlotsAssumption DEF Operations, Slots
<1>2. DOMAIN e = 1..Len(e) /\ Len(e) \in Nat
  OBVIOUS
<1> QED BY <1>1, <1>2 DEF SetLocals

LEMMA OutcomeOfLocals ==
    ASSUME NEW d \in Descriptions, NEW s \in Seq(Operations),
           NEW e \in Seq(Slots), e # <<>>
    PROVE  Outcome(d, s \o SetLocals(e)) = [Outcome(d, s) EXCEPT !.local = Last(e)]
<1> DEFINE t == s \o SetLocals(e)  E == Outcomes(d, s)
           set(n) == [E[Len(s)] EXCEPT !.local = n]
           D == [i \in 0..Len(t) |-> IF i <= Len(s) THEN E[i] ELSE set(e[i - Len(s)])]
<1>0. /\ Len(s) \in Nat /\ Len(e) \in Nat /\ Len(e) > 0
      /\ \A i \in 1..Len(e) : e[i] \in Slots
  OBVIOUS
<1>1. /\ t \in Seq(Operations) /\ Len(t) = Len(s) + Len(e)
      /\ \A i \in 1..Len(t) : t[i] = IF i <= Len(s) THEN s[i]
                                   ELSE [op |-> "local", slots |-> e[i - Len(s)]]
  <2>1. /\ SetLocals(e) \in Seq(Operations) /\ Len(SetLocals(e)) = Len(e)
        /\ \A i \in 1..Len(e) : SetLocals(e)[i] = [op |-> "local", slots |-> e[i]]
    BY SetLocalsType
  <2> DEFINE l == SetLocals(e)
  <2> HIDE DEF l
  <2>a. l \in Seq(Operations) /\ Len(l) = Len(e)
    BY <2>1 DEF l
  <2>b. /\ s \o l \in Seq(Operations) /\ Len(s \o l) = Len(s) + Len(l)
        /\ \A i \in 1..(Len(s) + Len(l)) :
              (s \o l)[i] = IF i <= Len(s) THEN s[i] ELSE l[i - Len(s)]
    BY <2>a, ConcatProperties
  <2>c. t = s \o l
    BY DEF l
  <2> HIDE DEF t
  <2>2. /\ t \in Seq(Operations) /\ Len(t) = Len(s) + Len(e)
        /\ \A i \in 1..(Len(s) + Len(e)) :
              t[i] = IF i <= Len(s) THEN s[i] ELSE SetLocals(e)[i - Len(s)]
    BY <2>a, <2>b, <2>c DEF l
  <2>3. \A i \in 1..Len(t) : i <= Len(s) \/ i - Len(s) \in 1..Len(e)
    BY <1>0, <2>2
  <2> QED BY <2>1, <2>2, <2>3
<1>2. Follows(E, d, s, Len(s)) /\ E \in [0..Len(s) -> Descriptions]
  BY OutcomesFollow
<1> HIDE DEF E, t
<1>3. E[Len(s)] \in Descriptions
  BY <1>0, <1>2
<1>4. D[0] = d
  BY <1>0, <1>1, <1>2 DEF Follows
<1>5. ASSUME NEW i \in 1..Len(t) PROVE D[i] = Apply(D[i - 1], t[i])
  <2>1. i \in 0..Len(t) /\ i - 1 \in 0..Len(t)
    BY <1>0, <1>1
  <2>2. CASE i <= Len(s)
    <3>1. i \in 1..Len(s) /\ i - 1 <= Len(s)
      BY <1>0, <1>1, <2>2
    <3> QED BY <1>1, <1>2, <2>1, <2>2, <3>1 DEF Follows
  <2>3. CASE ~(i <= Len(s))
    <3> DEFINE o == [op |-> "local", slots |-> e[i - Len(s)]]
    <3>1. /\ i - Len(s) \in 1..Len(e)
          /\ i - 1 <= Len(s) => i - 1 = Len(s)
          /\ ~(i - 1 <= Len(s)) => i - 1 - Len(s) \in 1..Len(e)
      BY <1>0, <1>1, <2>3
    <3>a. t[i] = o
      BY <1>1, <2>3
    <3>b. e[i - Len(s)] \in 0..MaxSlots
      BY <1>0, <3>1, SlotsAssumption DEF Slots
    <3>2. o \in Operations /\ o.op = "local" /\ o.slots = e[i - Len(s)] /\ t[i] = o
      BY <3>a, <3>b DEF Operations
    <3>3. D[i] = set(e[i - Len(s)])
      BY <2>1, <2>3
    <3>4. CASE i - 1 <= Len(s)
      <4>1. D[i - 1] = E[Len(s)]
        BY <2>1, <3>1, <3>4
      <4> HIDE DEF o, D
      <4>2. Apply(E[Len(s)], o) = set(o.slots)
        BY <1>3, <3>2, ApplyOutcome
      <4> HIDE DEF set
      <4> QED BY <3>2, <3>3, <4>1, <4>2
    <3>5. CASE ~(i - 1 <= Len(s))
      <4> DEFINE n == e[i - 1 - Len(s)]
      <4>1. D[i - 1] = set(n)
        BY <2>1, <3>5
      <4>2. n \in 0..MaxSlots
        BY <1>0, <3>1, <3>5, SlotsAssumption DEF Slots
      <4> HIDE DEF o, D, n
      <4>3. set(n) \in Descriptions
        BY <1>3, <4>2 DEF Descriptions
      <4>4. [set(n) EXCEPT !.local = o.slots] = set(o.slots)
        BY <1>3 DEF Descriptions
      <4> HIDE DEF set
      <4>5. Apply(set(n), o) = [set(n) EXCEPT !.local = o.slots]
        BY <3>2, <4>3, ApplyOutcome
      <4> QED BY <3>2, <3>3, <4>1, <4>4, <4>5
    <3> QED BY <3>4, <3>5
  <2> QED BY <2>2, <2>3
<1>6. D[Len(t)] = set(e[Len(e)])
  <2>1. Len(t) \in 0..Len(t) /\ ~(Len(t) <= Len(s)) /\ Len(t) - Len(s) = Len(e)
    BY <1>0, <1>1
  <2> QED BY <2>1
<1> HIDE DEF D
<1>7. Outcome(d, t) = D[Len(t)]
  BY <1>1, <1>4, <1>5, OutcomeIs DEF Follows
<1> QED BY <1>6, <1>7 DEF t, E, Outcome, Last

-----------------------------------------------------------------------------
(* How many calls of createOffer have no result yet.                       *)

LEMMA CreatesFinite ==
    ASSUME NEW s \in Seq(Operations)
    PROVE  IsFiniteSet(Creates(s)) /\ Cardinality(Creates(s)) \in Nat
<1>1. Creates(s) \subseteq 1..Len(s) /\ Len(s) \in Int /\ 1 \in Int
  BY DEF Creates
<1>2. IsFiniteSet(Creates(s))
  BY <1>1, FS_Interval, FS_Subset
<1> QED BY <1>2, FS_CardinalityType

LEMMA CreatesOfMore ==
    ASSUME NEW s \in Seq(Operations), NEW o \in Operations
    PROVE  Cardinality(Creates(Append(s, o)))
               = Cardinality(Creates(s)) + IF o.op = "create" THEN 1 ELSE 0
<1> DEFINE t == Append(s, o)
<1>1. /\ t \in Seq(Operations) /\ Len(t) = Len(s) + 1 /\ t[Len(s) + 1] = o
      /\ \A i \in 1..Len(s) : t[i] = s[i]
      /\ Len(s) \in Nat
  BY AppendProperties
<1> HIDE DEF t
<1>2. DOMAIN t = 1..(Len(s) + 1) /\ DOMAIN s = 1..Len(s)
  BY <1>1, LenProperties
<1>3. Len(s) + 1 \notin Creates(s)
  BY <1>1, <1>2 DEF Creates
<1>4. CASE o.op = "create"
  <2>1. Creates(t) = Creates(s) \union {Len(s) + 1}
    BY <1>1, <1>2, <1>4 DEF Creates
  <2> QED BY <1>3, <1>4, <2>1, CreatesFinite, FS_AddElement DEF t
<1>5. CASE o.op # "create"
  <2>1. Creates(t) = Creates(s)
    BY <1>1, <1>2, <1>5 DEF Creates
  <2> QED BY <1>5, <2>1, CreatesFinite DEF t
<1> QED BY <1>4, <1>5

LEMMA CreatesOfRest ==
    ASSUME NEW s \in Seq(Operations), s # <<>>
    PROVE  Cardinality(Creates(s))
               = Cardinality(Creates(Tail(s))) + IF Head(s).op = "create" THEN 1 ELSE 0
<1> DEFINE t == Tail(s)
           later == Creates(s) \ {1}
           f == [i \in Creates(t) |-> i + 1]
<1>1. /\ Head(s) = s[1] /\ t \in Seq(Operations) /\ Len(t) = Len(s) - 1
      /\ Len(t) \in Nat /\ \A i \in 1..Len(t) : t[i] = s[i + 1]
  BY HeadTailProperties
<1> HIDE DEF t
<1>2. DOMAIN t = 1..Len(t) /\ DOMAIN s = 1..(Len(t) + 1)
  BY <1>1, LenProperties
<1>3. f \in Bijection(Creates(t), later)
  <2>1. \A i \in Creates(t) : i + 1 \in later
    BY <1>1, <1>2 DEF Creates
  <2>2. \A j \in later : j - 1 \in Creates(t) /\ j - 1 + 1 = j
    <3>1. ASSUME NEW j \in later PROVE j - 1 \in Creates(t) /\ j - 1 + 1 = j
      <4>1. j - 1 \in 1..Len(t) /\ j - 1 + 1 = j /\ s[j].op = "create"
        BY <1>1, <1>2 DEF Creates
      <4>2. t[j - 1] = s[j]
        BY <1>1, <4>1
      <4> QED BY <1>2, <4>1, <4>2 DEF Creates
    <3> QED BY <3>1
  <2>3. \A i \in Creates(t) : i \in Int
    BY <1>2 DEF Creates
  <2>4. f \in [Creates(t) -> later]
    BY <2>1
  <2>5. \A a, b \in Creates(t) : f[a] = f[b] => a = b
    BY <2>3
  <2>6. \A j \in later : \E i \in Creates(t) : f[i] = j
    <3>1. ASSUME NEW j \in later PROVE \E i \in Creates(t) : f[i] = j
      <4>1. j - 1 \in Creates(t) /\ f[j - 1] = j
        BY <2>2
      <4> QED BY <4>1
    <3> QED BY <3>1
  <2> HIDE DEF f, later
  <2> QED BY <2>4, <2>5, <2>6 DEF Bijection, Injection, Surjection, IsInjective
<1> HIDE DEF f
<1>4. Cardinality(later) = Cardinality(Creates(t))
  <2>1. IsFiniteSet(Creates(t))
    BY <1>1, CreatesFinite
  <2>2. ExistsBijection(Creates(t), later)
    BY <1>3 DEF ExistsBijection
  <2> HIDE DEF later
  <2> QED BY <2>1, <2>2, FS_Bijection
<1>5. IsFiniteSet(Creates(s)) /\ Cardinality(Creates(s)) \in Nat
  BY CreatesFinite
<1>6. CASE Head(s).op = "create"
  <2>1. 1 \in Creates(s)
    BY <1>1, <1>2, <1>6 DEF Creates
  <2>2. Cardinality(later) = Cardinality(Creates(s)) - 1
    BY <1>5, <2>1, FS_RemoveElement
  <2> QED BY <1>4, <1>5, <1>6, <2>2 DEF t
<1>7. CASE Head(s).op # "create"
  <2>1. later = Creates(s)
    BY <1>1, <1>7 DEF Creates
  <2> HIDE DEF later
  <2>2. Cardinality(Creates(s)) = Cardinality(Creates(t))
    BY <1>4, <2>1
  <2>3. Cardinality(Creates(s)) + 0 = Cardinality(Creates(s))
    BY <1>5
  <2> QED BY <1>7, <2>2, <2>3 DEF t
<1> QED BY <1>6, <1>7

-----------------------------------------------------------------------------
(* The peer as client.js sees it.                                          *)

Count == Cardinality(Creates(chain))
Seen == <<transceivers, Count, events, Promised>>

(* Until it is made there is nothing to a peer.                            *)
Pristine ==
    node = "start" =>
        /\ transceivers = 1 /\ chain = <<>> /\ batch = <<>> /\ events = <<>>
        /\ descriptions = [local |-> 0, negotiated |-> 0]

LEMMA UnderwayType ==
    ASSUME TypeOK
    PROVE  /\ Underway \in Seq(Operations) /\ chain \in Seq(Operations)
           /\ batch \in Seq(Slots) /\ events \in Seq(Slots)
           /\ descriptions \in Descriptions /\ transceivers \in 1..MaxSlots
           /\ Promised = Outcome(descriptions, Underway)
           /\ Promised \in Descriptions /\ Count \in Nat
<1>1. /\ chain \in Seq(Operations) /\ batch \in Seq(Slots) /\ events \in Seq(Slots)
      /\ descriptions \in Descriptions /\ transceivers \in 1..MaxSlots
  BY DEF TypeOK, Slots
<1>2. SetLocals(batch) \in Seq(Operations)
  BY <1>1, SetLocalsType
<1>3. Underway \in Seq(Operations)
  <2> DEFINE l == SetLocals(batch)
  <2> HIDE DEF l
  <2>1. l \in Seq(Operations)
    BY <1>2 DEF l
  <2>2. chain \o l \in Seq(Operations)
    BY <1>1, <2>1, ConcatProperties
  <2> QED BY <2>2 DEF Underway, l
<1>4. Promised = Outcome(descriptions, Underway)
  BY DEF Promised, Outcome
<1>5. Promised \in Descriptions
  BY <1>1, <1>3, <1>4, OutcomeType
<1>6. Count \in Nat
  BY <1>1, CreatesFinite DEF Count
<1> QED BY <1>1, <1>3, <1>4, <1>5, <1>6

LEMMA UnderwayUnbatched ==
    ASSUME NEW c \in Seq(Operations)
    PROVE  c \o SetLocals(<<>>) = c
<1> DEFINE l == SetLocals(<<>>)
<1>1. l \in Seq(Operations) /\ Len(l) = 0
  <2>1. <<>> \in Seq(Slots) /\ Len(<<>>) = 0
    OBVIOUS
  <2> QED BY <2>1, SetLocalsType
<1> HIDE DEF l
<1>2. l = <<>>
  BY <1>1, EmptySeq
<1>3. c \o <<>> = c
  BY ConcatEmptySeq
<1> QED BY <1>2, <1>3 DEF l

(* An offer of the batch is taken over into the chain.                     *)
LEMMA UnderwayMoved ==
    ASSUME NEW c \in Seq(Operations), NEW b \in Seq(Slots), b # <<>>
    PROVE  Append(c, [op |-> "local", slots |-> Head(b)]) \o SetLocals(Tail(b))
               = c \o SetLocals(b)
<1> DEFINE o == [op |-> "local", slots |-> Head(b)]
           h == Append(c, o)
           l == SetLocals(b)
           t == Tail(b)
           k == SetLocals(t)
           left == h \o k
           right == c \o l
<1>1. /\ Head(b) = b[1] /\ Head(b) \in Slots
      /\ Tail(b) \in Seq(Slots) /\ Len(Tail(b)) = Len(b) - 1
      /\ \A i \in 1..Len(Tail(b)) : Tail(b)[i] = b[i + 1]
      /\ Len(b) \in Nat /\ Len(b) > 0 /\ Len(c) \in Nat
  BY HeadTailProperties
<1>2. o \in Operations
  BY <1>1, SlotsAssumption DEF Operations, Slots
<1>3. /\ h \in Seq(Operations) /\ Len(h) = Len(c) + 1 /\ h[Len(c) + 1] = o
      /\ \A i \in 1..Len(c) : h[i] = c[i]
  BY <1>2, AppendProperties
<1>4. /\ l \in Seq(Operations) /\ Len(l) = Len(b)
      /\ \A i \in 1..Len(b) : l[i] = [op |-> "local", slots |-> b[i]]
  BY SetLocalsType
<1>5. /\ k \in Seq(Operations) /\ Len(k) = Len(b) - 1
      /\ \A i \in 1..(Len(b) - 1) : k[i] = [op |-> "local", slots |-> b[i + 1]]
  <2>1. t \in Seq(Slots) /\ Len(t) = Len(b) - 1
        /\ \A i \in 1..(Len(b) - 1) : t[i] = b[i + 1]
    BY <1>1
  <2> HIDE DEF t
  <2>2. /\ k \in Seq(Operations) /\ Len(k) = Len(t)
        /\ \A i \in 1..Len(t) : k[i] = [op |-> "local", slots |-> t[i]]
    BY <2>1, SetLocalsType
  <2> HIDE DEF k
  <2> QED BY <2>1, <2>2
<1>6. l[1] = o
  BY <1>1, <1>4
<1> HIDE DEF o, h, l, t, k
<1>7. /\ left \in Seq(Operations) /\ Len(left) = Len(h) + Len(k)
      /\ \A i \in 1..(Len(h) + Len(k)) : left[i] = IF i <= Len(h) THEN h[i] ELSE k[i - Len(h)]
  BY <1>3, <1>5, ConcatProperties
<1>8. /\ right \in Seq(Operations) /\ Len(right) = Len(c) + Len(l)
      /\ \A i \in 1..(Len(c) + Len(l)) : right[i] = IF i <= Len(c) THEN c[i] ELSE l[i - Len(c)]
  <2>1. l \in Seq(Operations)
    BY <1>4
  <2> QED BY <2>1, ConcatProperties
<1> HIDE DEF left, right
<1>9. Len(left) = Len(right) /\ Len(left) = Len(c) + Len(b)
  BY <1>1, <1>3, <1>4, <1>5, <1>7, <1>8
<1>10. ASSUME NEW i \in 1..Len(left) PROVE left[i] = right[i]
  <2>0. i \in 1..(Len(h) + Len(k)) /\ i \in 1..(Len(c) + Len(l))
    BY <1>7, <1>8, <1>9
  <2>1. CASE i <= Len(c)
    <3>1. i <= Len(h) /\ i \in 1..Len(c)
      BY <1>1, <1>3, <2>1
    <3> QED BY <1>3, <1>7, <1>8, <2>0, <2>1, <3>1
  <2>2. CASE i = Len(c) + 1
    <3>1. i <= Len(h) /\ ~(i <= Len(c)) /\ i - Len(c) = 1
      BY <1>1, <1>3, <2>2
    <3> QED BY <1>3, <1>6, <1>7, <1>8, <2>0, <2>2, <3>1
  <2>3. CASE i > Len(c) + 1
    <3>1. /\ ~(i <= Len(h)) /\ ~(i <= Len(c)) /\ i - Len(h) \in 1..(Len(b) - 1)
          /\ i - Len(c) \in 1..Len(b) /\ i - Len(h) + 1 = i - Len(c)
      BY <1>1, <1>3, <1>9, <2>3
    <3>2. left[i] = k[i - Len(h)] /\ right[i] = l[i - Len(c)]
      BY <1>7, <1>8, <2>0, <3>1
    <3> QED BY <1>4, <1>5, <3>1, <3>2
  <2> QED BY <1>1, <1>9, <2>1, <2>2, <2>3
<1>11. left = right
  BY <1>7, <1>8, <1>9, <1>10, SeqEqual
<1> QED BY <1>11 DEF left, right, o, h, l, t, k

(* The first of two chains that follow each other is the one's first.      *)
LEMMA HeadOfConcat ==
    ASSUME NEW c \in Seq(Operations), NEW l \in Seq(Operations), c # <<>>
    PROVE  /\ c \o l # <<>> /\ Head(c \o l) = Head(c)
           /\ Tail(c \o l) = Tail(c) \o l
<1> DEFINE t == Tail(c)
           whole == c \o l
           rest == Tail(whole)
           right == t \o l
<1>1. /\ Head(c) = c[1] /\ t \in Seq(Operations) /\ Len(t) = Len(c) - 1
      /\ \A i \in 1..Len(t) : t[i] = c[i + 1]
      /\ Len(c) \in Nat /\ Len(c) > 0 /\ Len(l) \in Nat
  BY HeadTailProperties
<1>2. /\ whole \in Seq(Operations) /\ Len(whole) = Len(c) + Len(l)
      /\ \A i \in 1..(Len(c) + Len(l)) : whole[i] = IF i <= Len(c) THEN c[i] ELSE l[i - Len(c)]
  BY ConcatProperties
<1>3. t \in Seq(Operations)
  BY <1>1
<1> HIDE DEF t
<1>4. /\ right \in Seq(Operations) /\ Len(right) = Len(t) + Len(l)
      /\ \A i \in 1..(Len(t) + Len(l)) : right[i] = IF i <= Len(t) THEN t[i] ELSE l[i - Len(t)]
  BY <1>3, ConcatProperties
<1> HIDE DEF whole, right
<1>5. whole # <<>>
  <2>1. Len(whole) > 0
    BY <1>1, <1>2
  <2> QED BY <1>2, <2>1, EmptySeq
<1>6. /\ Head(whole) = whole[1] /\ rest \in Seq(Operations) /\ Len(rest) = Len(whole) - 1
      /\ \A i \in 1..Len(rest) : rest[i] = whole[i + 1]
  BY <1>2, <1>5, HeadTailProperties
<1> HIDE DEF rest
<1>7. Head(whole) = Head(c)
  <2>1. 1 \in 1..(Len(c) + Len(l)) /\ 1 <= Len(c)
    BY <1>1
  <2> QED BY <1>1, <1>2, <1>6, <2>1
<1>8. Len(rest) = Len(right)
  BY <1>1, <1>2, <1>4, <1>6
<1>9. ASSUME NEW i \in 1..Len(rest) PROVE rest[i] = right[i]
  <2>1. /\ i + 1 \in 1..(Len(c) + Len(l)) /\ i \in 1..(Len(t) + Len(l))
        /\ i + 1 - Len(c) = i - Len(t)
        /\ i + 1 <= Len(c) <=> i <= Len(t)
    BY <1>1, <1>2, <1>6
  <2>2. /\ rest[i] = IF i <= Len(t) THEN c[i + 1] ELSE l[i - Len(t)]
        /\ right[i] = IF i <= Len(t) THEN t[i] ELSE l[i - Len(t)]
    BY <1>2, <1>4, <1>6, <2>1
  <2>3. i <= Len(t) => t[i] = c[i + 1]
    BY <1>1
  <2> QED BY <2>2, <2>3
<1>10. rest = right
  BY <1>4, <1>6, <1>8, <1>9, SeqEqual
<1> QED BY <1>5, <1>7, <1>10 DEF rest, right, whole, t

-----------------------------------------------------------------------------
(* The steps of OfferAnswer, said of what client.js sees.                  *)

LEMMA Stutters ==
    ASSUME Usable' <=> Usable, Usable => UNCHANGED Seen
    PROVE  UNCHANGED OA!vars
BY DEF OA!vars, Seen, Count

LEMMA IsOpen ==
    ASSUME ~Usable, Usable', transceivers' = 1, Count' = 0, events' = <<>>,
           Promised' = [local |-> 0, negotiated |-> 0]
    PROVE  OA!Open
BY DEF OA!Open, OA!Fresh, Count

LEMMA IsClose ==
    ASSUME Usable, ~Usable'
    PROVE  OA!Close
BY DEF OA!Close, OA!Fresh

LEMMA IsRequest ==
    ASSUME Usable, Usable', transceivers' \in transceivers..MaxSlots,
           Count' \in {Count, Count + 1}, events' = events, Promised' = Promised
    PROVE  OA!Request
BY DEF OA!Request, Count

LEMMA IsOfferCreated ==
    ASSUME Usable, Usable', Count > 0, Count' = Count - 1,
           events' \in {events, Append(events, transceivers)},
           transceivers' = transceivers, Promised' = Promised
    PROVE  OA!OfferCreated
BY DEF OA!OfferCreated, Count

LEMMA IsTakeOffers ==
    ASSUME Usable, Usable', events # <<>>, events' = <<>>,
           Promised' = [Promised EXCEPT !.local = Last(events)],
           Promised \in Descriptions,
           transceivers' = transceivers, Count' = Count
    PROVE  OA!TakeOffers
<1>1. Promised'.local = Last(events) /\ Promised'.negotiated = Promised.negotiated
  BY DEF Descriptions
<1> QED BY <1>1 DEF OA!TakeOffers, OA!Last, Last, Count

LEMMA IsAnswered ==
    ASSUME Usable, Usable', Promised.local > 0,
           Promised' = [local |-> 0, negotiated |-> Promised.local],
           transceivers' = transceivers, Count' = Count, events' = events
    PROVE  OA!Answered
<1>1. Promised'.local = 0 /\ Promised'.negotiated = Promised.local
  OBVIOUS
<1> QED BY <1>1 DEF OA!Answered, Count

-----------------------------------------------------------------------------
(* What each operation is to client.js.                                    *)

LEMMA PromisedPrimed == Promised' = Outcome(descriptions', Underway')
BY DEF Promised, Outcome

(* Nothing has been asked of a peer that is just being made.               *)
LEMMA ConstructIs ==
    ASSUME TypeOK, Pristine, Construct
    PROVE  OA!Open \/ UNCHANGED OA!vars
<1>1. ~Usable
  BY DEF Construct, Usable
<1>2. CASE node' = "failed"
  BY <1>1, <1>2, Stutters DEF Usable
<1>3. CASE node' = "idle"
  <2>1. /\ transceivers' = 1 /\ chain' = <<>> /\ batch' = <<>> /\ events' = <<>>
        /\ descriptions' = [local |-> 0, negotiated |-> 0]
    BY DEF Construct, Pristine, rtc
  <2>2. <<>> \in Seq(Operations) /\ descriptions' \in Descriptions
    BY <2>1, SlotsAssumption DEF Descriptions
  <2>3. Underway' = <<>>
    <3>1. <<>> \o SetLocals(<<>>) = <<>>
      BY <2>2, UnderwayUnbatched
    <3>2. Underway' = chain' \o SetLocals(batch')
      BY DEF Underway, SetLocals
    <3> QED BY <2>1, <3>1, <3>2
  <2>4. Promised' = [local |-> 0, negotiated |-> 0]
    BY <2>1, <2>2, <2>3, PromisedPrimed, OutcomeOfNone
  <2>5. Count' = 0
    <3>1. Creates(<<>>) = {}
      BY DEF Creates
    <3>2. Count' = Cardinality(Creates(<<>>))
      BY <2>1 DEF Count, Creates
    <3> QED BY <3>1, <3>2, FS_EmptySet
  <2> QED BY <1>1, <1>3, <2>1, <2>4, <2>5, IsOpen DEF Usable
<1> QED BY <1>2, <1>3 DEF Construct

(* An offer that is asked for changes no description, whenever it is made. *)
LEMMA CreateOfferIs ==
    ASSUME TypeOK, CreateOffer
    PROVE  OA!Request
<1> DEFINE o == [op |-> "create", slots |-> 0]
<1>1. /\ Usable /\ Usable' /\ batch = <<>> /\ batch' = <<>>
      /\ chain' = Append(chain, o) /\ events' = events
      /\ transceivers' = transceivers /\ descriptions' = descriptions
  BY DEF CreateOffer, WebrtcCreateOffer, Chain, Usable
<1>2. o \in Operations /\ o.op = "create"
  BY SlotsAssumption DEF Operations
<1>3. /\ chain \in Seq(Operations) /\ descriptions \in Descriptions
      /\ transceivers \in 1..MaxSlots
      /\ Promised = Outcome(descriptions, Underway)
      /\ Promised \in Descriptions
  BY UnderwayType
<1> HIDE DEF o
<1>4. Underway = chain /\ Underway' = Append(chain, o)
  <2>1. Append(chain, o) \in Seq(Operations)
    BY <1>2, <1>3, AppendProperties
  <2>2. Underway' = chain' \o SetLocals(batch')
    BY DEF Underway, SetLocals
  <2> QED BY <1>1, <1>3, <2>1, <2>2, UnderwayUnbatched DEF Underway
<1>5. Promised' = Promised
  <2>1. Apply(Promised, o) = Promised
    BY <1>2, <1>3, ApplyOutcome
  <2> QED BY <1>1, <1>2, <1>3, <1>4, <2>1, PromisedPrimed, OutcomeOfMore
<1>6. Count' = Count + 1
  <2>1. Count' = Cardinality(Creates(Append(chain, o)))
    BY <1>1 DEF Count, Creates
  <2> QED BY <1>2, <1>3, <2>1, CreatesOfMore DEF Count
<1>7. transceivers' \in transceivers..MaxSlots
  BY <1>1, <1>3, SlotsAssumption
<1> QED BY <1>1, <1>5, <1>6, <1>7, IsRequest

LEMMA AddRecvTransceiversIs ==
    ASSUME TypeOK, AddRecvTransceivers
    PROVE  OA!Request
<1>1. PICK n \in Slots : n > transceivers /\ transceivers' = transceivers + (n - transceivers)
  BY DEF AddRecvTransceivers, WebrtcAddRecvTransceivers
<1>2. transceivers' \in transceivers..MaxSlots
  BY <1>1, SlotsAssumption DEF TypeOK, Slots
<1>3. Usable /\ Usable' /\ UNCHANGED <<events, chain, batch, descriptions>>
  BY DEF AddRecvTransceivers, Usable
<1>4. Count' = Count /\ Promised' = Promised
  BY <1>3 DEF Count, Creates, Promised, Outcomes, Apply, Underway, SetLocals
<1> QED BY <1>2, <1>3, <1>4, IsRequest

(* The polled batch becomes the local description, offer after offer.      *)
LEMMA PollEventsIs ==
    ASSUME TypeOK, PollEvents
    PROVE  OA!TakeOffers
<1>1. /\ Usable /\ Usable' /\ batch = <<>> /\ batch' = events
      /\ events # <<>> /\ events' = <<>>
      /\ UNCHANGED <<chain, transceivers, descriptions>>
  BY DEF PollEvents, WebrtcPollEvents, Usable, rtc
<1>2. /\ chain \in Seq(Operations) /\ descriptions \in Descriptions
      /\ events \in Seq(Slots) /\ Promised = Outcome(descriptions, Underway)
      /\ Promised \in Descriptions
  BY UnderwayType
<1>3. Underway = chain
  BY <1>1, <1>2, UnderwayUnbatched DEF Underway
<1>4. Underway' = chain \o SetLocals(events)
  BY <1>1 DEF Underway, SetLocals
<1>5. Promised' = Outcome(descriptions, chain \o SetLocals(events))
  BY <1>1, <1>4, PromisedPrimed
<1>6. Promised' = [Promised EXCEPT !.local = Last(events)]
  BY <1>1, <1>2, <1>3, <1>5, OutcomeOfLocals
<1>7. Count' = Count
  BY <1>1 DEF Count, Creates
<1> QED BY <1>1, <1>2, <1>6, <1>7, IsTakeOffers

(* That it does so offer by offer, client.js has taken as done.            *)
LEMMA SetLocalDescriptionIs ==
    ASSUME TypeOK, SetLocalDescription
    PROVE  UNCHANGED OA!vars
<1> DEFINE o == [op |-> "local", slots |-> Head(batch)]
<1>1. /\ Usable /\ Usable' /\ batch # <<>> /\ batch' = Tail(batch)
      /\ chain' = Append(chain, o)
      /\ UNCHANGED <<events, transceivers, descriptions>>
  BY DEF SetLocalDescription, WebrtcSetLocalDescription, Chain, Usable
<1>2. /\ chain \in Seq(Operations) /\ batch \in Seq(Slots)
      /\ Promised = Outcome(descriptions, Underway)
  BY UnderwayType
<1>3. o \in Operations /\ o.op = "local"
  <2>1. Head(batch) \in Slots
    BY <1>1, <1>2, HeadTailProperties
  <2> QED BY <2>1, SlotsAssumption DEF Operations, Slots
<1>4. Underway' = Underway
  <2>1. Underway' = Append(chain, o) \o SetLocals(Tail(batch))
    BY <1>1 DEF Underway, SetLocals
  <2> QED BY <1>1, <1>2, <2>1, UnderwayMoved DEF Underway
<1> HIDE DEF o
<1>5. Promised' = Promised
  BY <1>1, <1>2, <1>4, PromisedPrimed
<1>6. Count' = Count
  <2>1. Count' = Cardinality(Creates(Append(chain, o)))
    BY <1>1 DEF Count, Creates
  <2>2. Cardinality(Creates(Append(chain, o))) = Cardinality(Creates(chain)) + 0
    BY <1>2, <1>3, CreatesOfMore
  <2>3. Cardinality(Creates(chain)) \in Nat
    BY <1>2, CreatesFinite
  <2> QED BY <2>1, <2>2, <2>3 DEF Count
<1> QED BY <1>1, <1>5, <1>6, Stutters DEF Seen

(* An answer is accepted if it is the pending offer's, and else dropped,   *)
(* though what is pending is known only when it comes to run.              *)
LEMMA SetRemoteDescriptionIs ==
    ASSUME TypeOK, NEW n \in Slots, SetRemoteDescription(n)
    PROVE  OA!Answered \/ UNCHANGED OA!vars
<1> DEFINE o == [op |-> "remote", slots |-> n]
<1>1. /\ Usable /\ Usable' /\ batch = <<>> /\ batch' = <<>>
      /\ chain' = Append(chain, o)
      /\ UNCHANGED <<events, transceivers, descriptions>>
  BY DEF SetRemoteDescription, WebrtcSetRemoteDescription, Chain, Usable
<1>2. /\ chain \in Seq(Operations) /\ descriptions \in Descriptions
      /\ Promised = Outcome(descriptions, Underway) /\ Promised \in Descriptions
  BY UnderwayType
<1>3. o \in Operations /\ o.op = "remote" /\ o.slots = n /\ n > 0
  BY SlotsAssumption DEF Operations, Slots
<1> HIDE DEF o
<1>4. Underway = chain /\ Underway' = Append(chain, o)
  <2>1. Append(chain, o) \in Seq(Operations)
    BY <1>2, <1>3, AppendProperties
  <2>2. Underway' = chain' \o SetLocals(batch')
    BY DEF Underway, SetLocals
  <2> QED BY <1>1, <1>2, <2>1, <2>2, UnderwayUnbatched DEF Underway
<1>5. Promised' = Apply(Promised, o)
  BY <1>1, <1>2, <1>3, <1>4, PromisedPrimed, OutcomeOfMore
<1>6. Count' = Count
  <2>1. Count' = Cardinality(Creates(Append(chain, o)))
    BY <1>1 DEF Count, Creates
  <2>2. Cardinality(Creates(Append(chain, o))) = Cardinality(Creates(chain)) + 0
    BY <1>2, <1>3, CreatesOfMore
  <2>3. Cardinality(Creates(chain)) \in Nat
    BY <1>2, CreatesFinite
  <2> QED BY <2>1, <2>2, <2>3 DEF Count
<1>7. CASE Promised.local = n
  <2>1. Promised' = [local |-> 0, negotiated |-> Promised.local]
    BY <1>2, <1>3, <1>5, <1>7, ApplyOutcome
  <2> QED BY <1>1, <1>3, <1>6, <1>7, <2>1, IsAnswered
<1>8. CASE Promised.local # n
  <2>1. Promised' = Promised
    BY <1>2, <1>3, <1>5, <1>8, ApplyOutcome
  <2> QED BY <1>1, <1>6, <2>1, Stutters DEF Seen
<1> QED BY <1>7, <1>8

(* The first operation leaves the chain.                                   *)
LEMMA UnderwayRuns ==
    ASSUME TypeOK, chain # <<>>, chain' = Tail(chain), batch' = batch,
           descriptions' = Apply(descriptions, Head(chain))
    PROVE  /\ Promised' = Promised
           /\ Count = Count' + IF Head(chain).op = "create" THEN 1 ELSE 0
           /\ Head(chain) \in Operations /\ Count' \in Nat
<1> DEFINE l == SetLocals(batch)
<1>1. /\ chain \in Seq(Operations) /\ descriptions \in Descriptions
      /\ Underway \in Seq(Operations) /\ Promised = Outcome(descriptions, Underway)
  BY UnderwayType
<1>2. l \in Seq(Operations)
  BY SetLocalsType, UnderwayType
<1>3. Underway = chain \o l /\ Underway' = Tail(chain) \o l
  BY DEF Underway, SetLocals
<1> HIDE DEF l
<1>4. /\ Underway # <<>> /\ Head(Underway) = Head(chain)
      /\ Tail(Underway) = Tail(chain) \o l
  BY <1>1, <1>2, <1>3, HeadOfConcat
<1>5. Promised' = Promised
  BY <1>1, <1>3, <1>4, PromisedPrimed, OutcomeOfRest
<1>6. /\ Cardinality(Creates(chain)) = Cardinality(Creates(Tail(chain)))
             + IF Head(chain).op = "create" THEN 1 ELSE 0
      /\ Head(chain) \in Operations /\ Tail(chain) \in Seq(Operations)
  BY <1>1, CreatesOfRest, HeadTailProperties
<1>7. Count' = Cardinality(Creates(Tail(chain)))
  BY DEF Count, Creates
<1> QED BY <1>5, <1>6, <1>7, CreatesFinite DEF Count

LEMMA OfferCreatedIs ==
    ASSUME TypeOK, OfferCreated
    PROVE  OA!OfferCreated \/ UNCHANGED OA!vars
<1>1. /\ chain # <<>> /\ Head(chain).op = "create"
      /\ chain' = Tail(chain)
      /\ events' \in {events, Append(events, transceivers)}
      /\ UNCHANGED <<node, batch, transceivers, descriptions>>
  BY DEF OfferCreated, PushEvent, js
<1>2. descriptions' = Apply(descriptions, Head(chain))
  BY <1>1 DEF Apply
<1>3. Promised' = Promised /\ Count = Count' + 1 /\ Count' \in Nat
  BY <1>1, <1>2, UnderwayRuns
<1>4. CASE Usable
  <2>1. Usable'
    BY <1>1, <1>4 DEF Usable
  <2>2. Count > 0 /\ Count' = Count - 1
    <3>1. \A m \in Nat : \A n : n = m + 1 => n > 0 /\ m = n - 1
      OBVIOUS
    <3>2. Count' \in Nat /\ Count = Count' + 1
      BY <1>3
    <3> QED BY <3>1, <3>2
  <2> QED BY <1>1, <1>3, <1>4, <2>1, <2>2, IsOfferCreated
<1>5. CASE ~Usable
  BY <1>1, <1>5, Stutters DEF Usable
<1> QED BY <1>4, <1>5

LEMMA ApplyDescriptionIs ==
    ASSUME TypeOK, ApplyDescription
    PROVE  UNCHANGED OA!vars
<1>1. /\ chain # <<>> /\ Head(chain).op # "create"
      /\ chain' = Tail(chain)
      /\ descriptions' = Apply(descriptions, Head(chain))
      /\ UNCHANGED <<node, batch, events, transceivers>>
  BY DEF ApplyDescription, js
<1>2. Promised' = Promised /\ Count = Count' + 0 /\ Count' \in Nat
  BY <1>1, UnderwayRuns
<1>3. Count' = Count
  <2>1. \A m \in Nat : m + 0 = m
    OBVIOUS
  <2> QED BY <1>2, <2>1
<1>4. Usable' <=> Usable
  BY <1>1 DEF Usable
<1>5. UNCHANGED Seen
  BY <1>1, <1>2, <1>3 DEF Seen
<1> QED BY <1>4, <1>5, Stutters

(* Operations on the receivers, the frames and the windows do not reach    *)
(* what it sees, and once it has let go of the peer it sees no more.       *)
LEMMA ElsewhereIs ==
    ASSUME Elsewhere \/ \E s \in Slots : OnTrack(s)
    PROVE  UNCHANGED OA!vars /\ (Pristine => Pristine')
<1>1. UNCHANGED <<node, batch, events, chain, transceivers, descriptions>>
  BY DEF Elsewhere, FrameArrives, FrameStored, WindowStep, UserCloses, OnTrack,
         vars, peerVars, js, rtc
<1>2. Usable' <=> Usable
  BY <1>1 DEF Usable
<1>3. UNCHANGED Seen
  <2>1. Promised' = Promised
    BY <1>1, PromisedPrimed DEF Promised, Outcome, Underway, SetLocals
  <2>2. Count' = Count
    BY <1>1 DEF Count, Creates
  <2> QED BY <1>1, <2>1, <2>2 DEF Seen
<1>4. Pristine => Pristine'
  BY <1>1 DEF Pristine
<1> QED BY <1>2, <1>3, <1>4, Stutters

LEMMA NodeGoesOnIs ==
    ASSUME NodeGoesOn \/ Finalize
    PROVE  UNCHANGED OA!vars /\ node' # "start"
<1>1. ~Usable /\ ~Usable' /\ node' # "start"
  BY DEF NodeGoesOn, PcClose, FramesEnded, ClearRenderer, RendererJoined,
         RenderersCleared, StopCapture, PreviewJoined, Finalize, Usable,
         peerVars, js
<1> QED BY <1>1, Stutters

LEMMA CloseIs ==
    ASSUME Close
    PROVE  OA!Close
BY IsClose DEF Close, Usable

-----------------------------------------------------------------------------
LEMMA InitImplements == Init => OA!NoPeer /\ Pristine
BY DEF Init, OA!NoPeer, Pristine, Usable

LEMMA PristineStep ==
    ASSUME TypeOK, Pristine, [Next]_vars
    PROVE  Pristine'
<1>1. CASE Construct \/ Calls
  <2>1. node' # "start"
    BY <1>1 DEF Construct, Calls, CreateOffer, AddRecvTransceivers, PollEvents,
                SetLocalDescription, SetRemoteDescription, OfferCreated,
                ApplyDescription, Close, Pristine, js
  <2> QED BY <2>1 DEF Pristine
<1>2. CASE NodeGoesOn \/ Finalize
  BY <1>2, NodeGoesOnIs DEF Pristine
<1>3. CASE Elsewhere \/ \E s \in Slots : OnTrack(s)
  BY <1>3, ElsewhereIs
<1> QED BY <1>1, <1>2, <1>3 DEF Next, Calls, Elsewhere

(* Every step of the peer and its threads is a step of OfferAnswer's peer  *)
(* or none.                                                                *)
LEMMA StepImplements ==
    ASSUME TypeOK, Pristine, [Next]_vars
    PROVE  [OA!Next]_(OA!vars)
<1>1. CASE Construct
  BY <1>1, ConstructIs DEF OA!Next
<1>2. CASE CreateOffer
  BY <1>2, CreateOfferIs DEF OA!Next
<1>3. CASE AddRecvTransceivers
  BY <1>3, AddRecvTransceiversIs DEF OA!Next
<1>4. CASE PollEvents
  BY <1>4, PollEventsIs DEF OA!Next
<1>5. CASE SetLocalDescription
  BY <1>5, SetLocalDescriptionIs
<1>6. ASSUME NEW n \in Slots, SetRemoteDescription(n)
      PROVE  [OA!Next]_(OA!vars)
  BY <1>6, SetRemoteDescriptionIs DEF OA!Next
<1>7. CASE OfferCreated
  BY <1>7, OfferCreatedIs DEF OA!Next
<1>8. CASE ApplyDescription
  BY <1>8, ApplyDescriptionIs
<1>9. CASE Close
  BY <1>9, CloseIs DEF OA!Next
<1>10. CASE NodeGoesOn \/ Finalize
  BY <1>10, NodeGoesOnIs
<1>11. CASE Elsewhere \/ \E s \in Slots : OnTrack(s)
  BY <1>11, ElsewhereIs
<1> QED BY <1>1, <1>2, <1>3, <1>4, <1>5, <1>6, <1>7, <1>8, <1>9, <1>10, <1>11
        DEF Next, Elsewhere

(* Threads, the event queue and libwebrtc's chain of operations neither    *)
(* lose, repeat nor reorder offers, and an answer is taken for the offer   *)
(* it answers, however many offers are under way: to client.js the native  *)
(* peer takes OfferAnswer's steps and no others (webrtc_poll_events,       *)
(* WebrtcPeer::PushEvent, webrtc_create_offer, webrtc_set_local_description*)
(* and webrtc_set_remote_description, as handlePeerEvent calls them).      *)
THEOREM PeerImplementsOfferAnswer == Spec => ImplementsOfferAnswer
<1>1. ASSUME TypeOK /\ Pristine, [Next]_vars
      PROVE  Pristine' /\ [OA!Next]_(OA!vars)
  BY <1>1, PristineStep, StepImplements
<1>2. Init => OA!NoPeer /\ Pristine
  BY InitImplements
<1> QED BY <1>1, <1>2, TypeCorrect, PTL DEF Spec, ImplementsOfferAnswer, OA!Spec
=============================================================================
