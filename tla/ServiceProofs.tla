--------------------------- MODULE ServiceProofs ---------------------------
(***************************************************************************)
(* Proofs about the three parts of the service that run beside each other: *)
(* ApiServer, for any number of requests, clients, permits and threads and *)
(* any quota; PlannerPage, for any estates and slider positions; and       *)
(* Regulatory, for any review period and any number of watchdog runs.      *)
(*                                                                         *)
(* ApiServer's inductive invariant relates the queue the middleware keeps  *)
(* for a client to the times it ever admitted: the queue is their suffix,  *)
(* and whatever is before it is older than Window.                         *)
(***************************************************************************)
EXTENDS ApiServer, PlannerPage, Regulatory, FiniteSetTheorems,
        SequenceTheorems, WellFoundedInduction, TLAPS

(* How many times of client c have been popped from its queue. *)
Popped(c) == Len(admitted[c]) - Len(rate[c])

QueueIsSuffix ==
  \A c \in Clients :
    /\ Len(rate[c]) <= Len(admitted[c])
    /\ \A i \in 1 .. Len(rate[c]) : rate[c][i] = admitted[c][Popped(c) + i]
    /\ \A i \in 1 .. Popped(c) : now - admitted[c][i] > Window

InTimeOrder ==
  \A c \in Clients :
    \A i, j \in 1 .. Len(admitted[c]) :
      i <= j => admitted[c][i] <= admitted[c][j]

IInv == TypeOK /\ PermitsConserved /\ QueueIsSuffix /\ InTimeOrder /\ RateBounded

-----------------------------------------------------------------------------
(* Sequences of times *)

LEMMA ExpiredFacts ==
  ASSUME NEW N \in Nat, now \in Nat, NEW q \in Seq(0 .. N)
  PROVE  /\ Expired(q) \in 0 .. Len(q)
         /\ \A i \in 1 .. Expired(q) : now - q[i] > Window
         /\ Expired(q) < Len(q) => now - q[Expired(q) + 1] <= Window
<1> DEFINE recent == {i \in 1 .. Len(q) : now - q[i] <= Window}
<1> USE LimitAssumption
<1>1. Len(q) \in Nat /\ \A i \in 1 .. Len(q) : q[i] \in Nat
  OBVIOUS
<1>2. \E n \in 0 .. Len(q) : /\ \A i \in 1 .. n : now - q[i] > Window
                             /\ n < Len(q) => now - q[n + 1] <= Window
  <2>1. CASE recent = {}
    <3>1. \A i \in 1 .. Len(q) : now - q[i] > Window
      BY <2>1, <1>1
    <3>2. Len(q) \in 0 .. Len(q) /\ \A i \in 1 .. Len(q) : now - q[i] > Window
      BY <3>1, <1>1
    <3> WITNESS Len(q) \in 0 .. Len(q)
    <3> QED
      BY <3>2, <1>1
  <2>2. CASE recent # {}
    <3>1. recent \subseteq Nat
      BY <1>1
    <3>2. \E m \in recent : \A y \in recent : ~ (<<y, m>> \in OpToRel(<, Nat))
      <4> HIDE DEF recent
      <4> QED
        BY <3>1, <2>2, NatLessThanWellFounded, WFMin
    <3>3. PICK m \in recent : \A y \in recent : ~ (<<y, m>> \in OpToRel(<, Nat))
      BY <3>2
    <3>4. \A y \in recent : ~ (y < m)
      BY <3>1, <3>3 DEF OpToRel
    <3>5. m \in 1 .. Len(q) /\ now - q[m] <= Window
      OBVIOUS
    <3>6. \A i \in 1 .. m - 1 : i \in 1 .. Len(q) /\ i < m
      BY <3>5, <1>1
    <3>7. ASSUME NEW i \in 1 .. m - 1
          PROVE  now - q[i] > Window
      <4>1. i \in 1 .. Len(q) /\ i < m
        BY <3>6
      <4>2. i \notin recent
        <5> HIDE DEF recent
        <5> QED
          BY <3>4, <4>1
      <4>3. q[i] \in Nat
        BY <4>1, <1>1
      <4> QED
        BY <4>1, <4>2, <4>3
    <3>8. m - 1 \in 0 .. Len(q) /\ (m - 1) + 1 = m
      BY <3>5, <1>1
    <3> QED
      BY <3>5, <3>7, <3>8
  <2> QED
    BY <2>1, <2>2
<1> QED
  BY <1>2 DEF Expired

LEMMA RecentFacts ==
  ASSUME NEW N \in Nat, now \in Nat, NEW q \in Seq(0 .. N)
  PROVE  /\ Recent(q) \in Seq(0 .. N)
         /\ Len(Recent(q)) = Len(q) - Expired(q)
         /\ \A i \in 1 .. Len(Recent(q)) : Recent(q)[i] = q[Expired(q) + i]
<1>1. Expired(q) \in 0 .. Len(q) /\ Len(q) \in Nat
  BY ExpiredFacts
<1> QED
  BY <1>1 DEF Recent

-----------------------------------------------------------------------------
(* Permits *)

Holding == {"solving", "sweeping"}

LEMMA HolderFacts ==
  /\ Holders \subseteq Requests
  /\ IsFiniteSet(Holders)
  /\ Cardinality(Holders) \in Nat
<1>1. Holders \subseteq Requests
  BY DEF Holders, In
<1> QED
  BY <1>1, LimitAssumption, FS_Subset, FS_CardinalityType

(* A request moves from one stage to another and the semaphore follows. *)
LEMMA PermitFollows ==
  ASSUME TypeOK, PermitsConserved, NEW r \in Requests, NEW x,
         stage' = [stage EXCEPT ![r] = x],
         stage[r] \in Holding \/ x \notin Holding \/ permits > 0,
         permits' = IF stage[r] \in Holding
                    THEN IF x \in Holding THEN permits ELSE permits + 1
                    ELSE IF x \in Holding THEN permits - 1 ELSE permits
  PROVE  PermitsConserved' /\ permits' \in 0 .. MaxConcurrentSolves
<1>1. /\ stage \in [Requests -> Stages]
      /\ permits \in 0 .. MaxConcurrentSolves
      /\ MaxConcurrentSolves \in Nat
  BY LimitAssumption DEF TypeOK
<1>2. /\ permits + Cardinality(Holders) = MaxConcurrentSolves
      /\ IsFiniteSet(Holders)
      /\ Cardinality(Holders) \in Nat
  BY HolderFacts DEF PermitsConserved
<1>3. \A q \in Requests : stage'[q] = IF q = r THEN x ELSE stage[q]
  BY <1>1
<1>4. /\ Holders = {q \in Requests : stage[q] \in Holding}
      /\ Holders' = {q \in Requests : stage'[q] \in Holding}
  BY DEF Holders, In, Holding
<1>5. CASE stage[r] \in Holding
  <2>1. CASE x \in Holding
    <3>1. Holders' = Holders /\ permits' = permits
      BY <1>3, <1>4, <1>5, <2>1
    <3> QED
      BY <3>1, <1>1, <1>2 DEF PermitsConserved
  <2>2. CASE x \notin Holding
    <3>1. r \in Holders /\ Holders' = Holders \ {r} /\ permits' = permits + 1
      BY <1>3, <1>4, <1>5, <2>2
    <3>2. Cardinality(Holders') = Cardinality(Holders) - 1 /\ IsFiniteSet(Holders')
      BY <3>1, <1>2, FS_RemoveElement
    <3>3. Cardinality(Holders') \in Nat
      BY <3>2, FS_CardinalityType
    <3> QED
      BY <3>1, <3>2, <3>3, <1>1, <1>2 DEF PermitsConserved
  <2> QED
    BY <2>1, <2>2
<1>6. CASE stage[r] \notin Holding
  <2>1. CASE x \notin Holding
    <3>1. Holders' = Holders /\ permits' = permits
      BY <1>3, <1>4, <1>6, <2>1
    <3> QED
      BY <3>1, <1>1, <1>2 DEF PermitsConserved
  <2>2. CASE x \in Holding
    <3>1. r \notin Holders /\ Holders' = Holders \cup {r} /\ permits' = permits - 1
      BY <1>3, <1>4, <1>6, <2>2
    <3>2. Cardinality(Holders') = Cardinality(Holders) + 1 /\ IsFiniteSet(Holders')
      BY <3>1, <1>2, FS_AddElement
    <3>3. Cardinality(Holders') \in Nat
      BY <3>2, FS_CardinalityType
    <3> QED
      BY <3>1, <3>2, <3>3, <1>1, <1>2 DEF PermitsConserved
  <2> QED
    BY <2>1, <2>2
<1> QED
  BY <1>5, <1>6

-----------------------------------------------------------------------------
(* The queues *)

QueueInv == QueueIsSuffix /\ InTimeOrder /\ RateBounded

LEMMA QueueTypes ==
  ASSUME TypeOK, NEW c \in Clients
  PROVE  /\ now \in Nat /\ Window \in Nat /\ RatePerMin \in Nat \ {0}
         /\ rate[c] \in Seq(0 .. now) /\ Len(rate[c]) \in Nat
         /\ admitted[c] \in Seq(0 .. now) /\ Len(admitted[c]) \in Nat
         /\ \A i \in 1 .. Len(admitted[c]) : admitted[c][i] \in 0 .. now
         /\ \A i \in 1 .. Len(rate[c]) : rate[c][i] \in 0 .. now
<1>1. now \in Nat /\ Window \in Nat /\ RatePerMin \in Nat \ {0}
  BY LimitAssumption DEF TypeOK
<1>2. rate[c] \in Seq(0 .. now) /\ admitted[c] \in Seq(0 .. now)
  BY DEF TypeOK
<1> QED
  BY <1>1, <1>2

(* What the loop leaves of the queue of c, and how many times of c it and  *)
(* its predecessors have popped.                                           *)
Left(c) == Recent(rate[c])

Gone(c) == Len(admitted[c]) - Len(Left(c))

(* What is left is still the suffix of the times admitted, and all that is *)
(* gone is old.                                                            *)
LEMMA PopKeepsSuffix ==
  ASSUME TypeOK, QueueInv, NEW c \in Clients
  PROVE  /\ Left(c) \in Seq(0 .. now) /\ Len(Left(c)) <= Len(rate[c])
         /\ Gone(c) \in Nat /\ Len(Left(c)) \in Nat
         /\ \A i \in 1 .. Len(Left(c)) : Left(c)[i] = admitted[c][Gone(c) + i]
         /\ \A i \in 1 .. Gone(c) : now - admitted[c][i] > Window
         /\ Len(Left(c)) > 0 => now - Left(c)[1] <= Window
<1> DEFINE e == Expired(rate[c])
           q == Left(c)
           d == Gone(c)
<1>1. /\ now \in Nat
      /\ rate[c] \in Seq(0 .. now) /\ Len(rate[c]) \in Nat
      /\ Len(admitted[c]) \in Nat
  BY QueueTypes
<1>2. /\ e \in 0 .. Len(rate[c])
      /\ \A i \in 1 .. e : now - rate[c][i] > Window
      /\ e < Len(rate[c]) => now - rate[c][e + 1] <= Window
  BY <1>1, ExpiredFacts
<1>3. /\ q \in Seq(0 .. now)
      /\ Len(q) = Len(rate[c]) - e
      /\ \A i \in 1 .. Len(q) : q[i] = rate[c][e + i]
  BY <1>1, RecentFacts DEF Left
<1>4. /\ Len(rate[c]) <= Len(admitted[c])
      /\ \A i \in 1 .. Len(rate[c]) : rate[c][i] = admitted[c][Popped(c) + i]
      /\ \A i \in 1 .. Popped(c) : now - admitted[c][i] > Window
      /\ Popped(c) = Len(admitted[c]) - Len(rate[c])
  BY DEF QueueInv, QueueIsSuffix, Popped
<1>gone. d = Len(admitted[c]) - Len(q)
  BY DEF Gone
<1> HIDE DEF e, q, d
<1>5. /\ d = Popped(c) + e /\ d \in Nat /\ Popped(c) \in Nat
      /\ e \in Nat /\ Len(q) \in Nat /\ Len(q) + e = Len(rate[c])
  BY <1>1, <1>2, <1>3, <1>4, <1>gone
<1>6. ASSUME NEW i \in 1 .. Len(q)
      PROVE  q[i] = admitted[c][d + i]
  <2>1. i \in Nat /\ 1 <= i /\ i <= Len(q)
    BY <1>5
  <2>2. e + i \in 1 .. Len(rate[c])
    BY <2>1, <1>1, <1>5
  <2>3. Popped(c) + (e + i) = d + i
    <3>1. \A x, y, z \in Nat : x + (y + z) = (x + y) + z
      OBVIOUS
    <3>2. Popped(c) + (e + i) = (Popped(c) + e) + i
      BY <3>1, <2>1, <1>5
    <3> QED
      BY <3>2, <1>5
  <2> QED
    BY <2>2, <2>3, <1>3, <1>4
<1>7. ASSUME NEW i \in 1 .. d
      PROVE  now - admitted[c][i] > Window
  <2>1. CASE i <= Popped(c)
    BY <2>1, <1>4, <1>5
  <2>2. CASE i > Popped(c)
    <3>1. i - Popped(c) \in 1 .. e /\ i - Popped(c) \in 1 .. Len(rate[c])
      BY <2>2, <1>1, <1>2, <1>5
    <3>2. rate[c][i - Popped(c)] = admitted[c][Popped(c) + (i - Popped(c))]
      BY <3>1, <1>4
    <3>3. Popped(c) + (i - Popped(c)) = i
      BY <1>5
    <3> QED
      BY <3>1, <3>2, <3>3, <1>2
  <2> QED
    BY <2>1, <2>2, <1>5
<1>8. Len(q) > 0 => now - q[1] <= Window
  <2> SUFFICES ASSUME Len(q) > 0 PROVE now - q[1] <= Window
    OBVIOUS
  <2>1. e < Len(rate[c]) /\ 1 \in 1 .. Len(q)
    BY <1>1, <1>2, <1>3, <1>5
  <2> QED
    BY <2>1, <1>2, <1>3
<1>9. Len(q) <= Len(rate[c])
  BY <1>5
<1> QED
  BY <1>3, <1>5, <1>6, <1>7, <1>8, <1>9 DEF q, d

LEMMA QueueUndisturbed ==
  QueueInv /\ UNCHANGED <<now, rate, admitted>> => QueueInv'
BY DEF QueueInv, QueueIsSuffix, InTimeOrder, RateBounded, Popped

LEMMA QueueTick == TypeOK /\ QueueInv /\ Tick => QueueInv'
<1> SUFFICES ASSUME TypeOK, QueueInv, Tick PROVE QueueInv'
  OBVIOUS
<1>1. now' = now + 1 /\ UNCHANGED <<rate, admitted>>
  BY DEF Tick
<1>2. ASSUME NEW c \in Clients
      PROVE  /\ Len(rate[c]) <= Len(admitted[c])
             /\ \A i \in 1 .. Len(rate[c]) :
                  rate[c][i] = admitted[c][Popped(c) + i]
             /\ \A i \in 1 .. Popped(c) : now' - admitted[c][i] > Window
  <2>1. /\ Len(rate[c]) <= Len(admitted[c])
        /\ \A i \in 1 .. Len(rate[c]) :
             rate[c][i] = admitted[c][Popped(c) + i]
        /\ \A i \in 1 .. Popped(c) : now - admitted[c][i] > Window
    BY DEF QueueInv, QueueIsSuffix
  <2>2. /\ now \in Nat /\ Window \in Nat
        /\ Len(rate[c]) \in Nat /\ Len(admitted[c]) \in Nat
        /\ \A i \in 1 .. Len(admitted[c]) : admitted[c][i] \in 0 .. now
    BY QueueTypes
  <2>3. \A i \in 1 .. Popped(c) : admitted[c][i] \in 0 .. now
    BY <2>2 DEF Popped
  <2> QED
    BY <1>1, <2>1, <2>2, <2>3
<1>3. \A c \in Clients : Popped(c)' = Popped(c)
  BY <1>1 DEF Popped
<1>4. QueueIsSuffix'
  BY <1>1, <1>2, <1>3 DEF QueueIsSuffix
<1>5. InTimeOrder' /\ RateBounded'
  BY <1>1 DEF QueueInv, InTimeOrder, RateBounded
<1> QED
  BY <1>4, <1>5 DEF QueueInv

LEMMA QueueRefusal ==
  ASSUME TypeOK, QueueInv, NEW r \in Requests, RateLimited(r)
  PROVE  QueueInv'
<1> DEFINE c0 == client[r]
           q == Left(c0)
           d == Gone(c0)
<1>1. c0 \in Clients /\ rate \in [Clients -> Seq(0 .. now)]
  BY DEF TypeOK
<1>2. rate' = [rate EXCEPT ![c0] = q] /\ UNCHANGED <<now, admitted>>
  BY DEF RateLimited, Left
<1>3. /\ d \in Nat /\ Len(q) \in Nat
      /\ \A i \in 1 .. Len(q) : q[i] = admitted[c0][d + i]
      /\ \A i \in 1 .. d : now - admitted[c0][i] > Window
  BY <1>1, PopKeepsSuffix
<1>4. Len(admitted[c0]) \in Nat
  BY <1>1, QueueTypes
<1> HIDE DEF q, d, c0
<1>5. rate'[c0] = q /\ \A c \in Clients : c # c0 => rate'[c] = rate[c]
  BY <1>1, <1>2
<1>6. ASSUME NEW c \in Clients
      PROVE  /\ Len(rate'[c]) <= Len(admitted[c])
             /\ \A i \in 1 .. Len(rate'[c]) :
                  rate'[c][i] = admitted[c][Len(admitted[c]) - Len(rate'[c]) + i]
             /\ \A i \in 1 .. Len(admitted[c]) - Len(rate'[c]) :
                  now - admitted[c][i] > Window
  <2>1. CASE c = c0
    <3>1. d = Len(admitted[c0]) - Len(q)
      BY DEF d, q, Gone
    <3> QED
      BY <2>1, <3>1, <1>3, <1>4, <1>5
  <2>2. CASE c # c0
    BY <2>2, <1>5 DEF QueueInv, QueueIsSuffix, Popped
  <2> QED
    BY <2>1, <2>2
<1>7. QueueIsSuffix'
  BY <1>2, <1>6 DEF QueueIsSuffix, Popped
<1>8. InTimeOrder' /\ RateBounded'
  BY <1>2 DEF QueueInv, InTimeOrder, RateBounded
<1> QED
  BY <1>7, <1>8 DEF QueueInv

(* The request admitted RatePerMin requests before this one has been popped *)
(* already: the queue that is left is shorter than the quota.               *)
LEMMA QueueAdmission ==
  ASSUME TypeOK, QueueInv, NEW r \in Requests, Admit(r)
  PROVE  QueueInv'
<1> DEFINE c0 == client[r]
           q == Left(c0)
           d == Gone(c0)
<1>1. /\ c0 \in Clients
      /\ rate \in [Clients -> Seq(0 .. now)]
      /\ admitted \in [Clients -> Seq(0 .. now)]
  BY DEF TypeOK
<1>2. /\ rate' = [rate EXCEPT ![c0] = Append(q, now)]
      /\ admitted' = [admitted EXCEPT ![c0] = Append(@, now)]
      /\ now' = now
      /\ Len(q) < RatePerMin
  BY DEF Admit, Left
<1>client. c0 \in Clients
  BY <1>1
<1>left. q \in Seq(0 .. now)
  BY <1>client, PopKeepsSuffix
<1>3. /\ d \in Nat /\ Len(q) \in Nat
      /\ \A i \in 1 .. Len(q) : q[i] = admitted[c0][d + i]
      /\ \A i \in 1 .. d : now - admitted[c0][i] > Window
  BY <1>client, PopKeepsSuffix
<1> DEFINE n == Len(admitted[c0])
<1>count. d = n - Len(q)
  BY DEF Gone
<1>4. /\ n \in Nat /\ now \in Nat /\ Window \in Nat /\ RatePerMin \in Nat \ {0}
      /\ admitted[c0] \in Seq(0 .. now)
      /\ \A i \in 1 .. n : admitted[c0][i] \in 0 .. now
  BY <1>1, QueueTypes
<1> HIDE DEF q, d, c0
<1>5. /\ rate'[c0] = Append(q, now)
      /\ admitted'[c0] = Append(admitted[c0], now)
      /\ \A c \in Clients : c # c0 => rate'[c] = rate[c] /\ admitted'[c] = admitted[c]
  BY <1>1, <1>2
<1>6. /\ Len(rate'[c0]) = Len(q) + 1
      /\ \A i \in 1 .. Len(q) : rate'[c0][i] = q[i]
      /\ rate'[c0][Len(q) + 1] = now
  BY <1>3, <1>5, <1>left, <1>4
<1>7. /\ Len(admitted'[c0]) = n + 1
      /\ \A i \in 1 .. n : admitted'[c0][i] = admitted[c0][i]
      /\ admitted'[c0][n + 1] = now
  BY <1>4, <1>5
<1> HIDE DEF n
<1>8. ASSUME NEW c \in Clients
      PROVE  /\ Len(rate'[c]) <= Len(admitted'[c])
             /\ \A i \in 1 .. Len(rate'[c]) :
                  rate'[c][i] = admitted'[c][Len(admitted'[c]) - Len(rate'[c]) + i]
             /\ \A i \in 1 .. Len(admitted'[c]) - Len(rate'[c]) :
                  now - admitted'[c][i] > Window
  <2>1. CASE c = c0
    <3>1. Len(admitted'[c0]) - Len(rate'[c0]) = d /\ d + (Len(q) + 1) = n + 1
      BY <1>3, <1>4, <1>6, <1>7, <1>count
    <3>2. ASSUME NEW i \in 1 .. Len(q) + 1
          PROVE  rate'[c0][i] = admitted'[c0][d + i]
      <4>1. CASE i = Len(q) + 1
        BY <4>1, <3>1, <1>6, <1>7
      <4>2. CASE i \in 1 .. Len(q)
        <5>1. d + i \in 1 .. n
          BY <4>2, <1>3, <1>4, <1>count
        <5> QED
          BY <4>2, <5>1, <1>3, <1>6, <1>7
      <4> QED
        BY <4>1, <4>2, <1>3
    <3>3. \A i \in 1 .. d : i \in 1 .. n
      BY <1>3, <1>4, <1>count
    <3>4. \A i \in 1 .. d : now - admitted'[c0][i] > Window
      BY <3>3, <1>3, <1>7
    <3>5. Len(rate'[c0]) <= Len(admitted'[c0])
      BY <1>3, <1>4, <1>6, <1>7, <1>count
    <3> QED
      BY <2>1, <3>1, <3>2, <3>4, <3>5, <1>6
  <2>2. CASE c # c0
    BY <2>2, <1>5 DEF QueueInv, QueueIsSuffix, Popped
  <2> QED
    BY <2>1, <2>2
<1>9. QueueIsSuffix'
  BY <1>2, <1>8 DEF QueueIsSuffix, Popped
<1>10. ASSUME NEW c \in Clients, NEW i \in 1 .. Len(admitted'[c]),
              NEW j \in 1 .. Len(admitted'[c]), i <= j
       PROVE  admitted'[c][i] <= admitted'[c][j]
  <2>1. CASE c = c0
    <3>1. CASE j \in 1 .. n
      <4>1. i \in 1 .. n
        BY <3>1, <1>4, <1>10
      <4>2. admitted[c0][i] <= admitted[c0][j]
        BY <3>1, <4>1, <1>1, <1>10 DEF QueueInv, InTimeOrder, n
      <4> QED
        BY <3>1, <4>1, <4>2, <2>1, <1>7
    <3>2. CASE j = n + 1
      <4>1. CASE i = n + 1
        BY <4>1, <3>2, <2>1, <1>4, <1>7
      <4>2. CASE i \in 1 .. n
        BY <4>2, <3>2, <2>1, <1>4, <1>7
      <4> QED
        BY <4>1, <4>2, <2>1, <1>4, <1>7
    <3> QED
      BY <3>1, <3>2, <2>1, <1>4, <1>7
  <2>2. CASE c # c0
    BY <2>2, <1>5, <1>10 DEF QueueInv, InTimeOrder
  <2> QED
    BY <2>1, <2>2
<1>11. InTimeOrder'
  BY <1>10 DEF InTimeOrder
<1>12. ASSUME NEW c \in Clients, NEW i \in 1 .. Len(admitted'[c]) - RatePerMin
       PROVE  admitted'[c][i + RatePerMin] - admitted'[c][i] > Window
  <2>1. CASE c = c0
    <3>1. i \in Nat /\ i <= n + 1 - RatePerMin /\ 1 <= i
      BY <2>1, <1>4, <1>7
    <3>2. i \in 1 .. n
      BY <3>1, <1>4
    <3>3. CASE i + RatePerMin = n + 1
      <4>1. i \in 1 .. d
        BY <3>1, <3>3, <1>2, <1>3, <1>4, <1>count
      <4> QED
        BY <4>1, <3>2, <3>3, <2>1, <1>3, <1>7
    <3>4. CASE i + RatePerMin # n + 1
      <4>1. i + RatePerMin \in 1 .. n /\ i \in 1 .. n - RatePerMin
        <5>1. RatePerMin \in Int /\ RatePerMin > 0 /\ n \in Int /\ i \in Int
          BY <3>1, <1>4
        <5>2. i + RatePerMin <= n
          BY <5>1, <3>1, <3>4
        <5> QED
          BY <5>1, <5>2, <3>1
      <4>2. admitted[c0][i + RatePerMin] - admitted[c0][i] > Window
        BY <4>1, <1>1 DEF QueueInv, RateBounded, n
      <4> QED
        BY <4>1, <4>2, <3>2, <2>1, <1>7
    <3> QED
      BY <3>3, <3>4
  <2>2. CASE c # c0
    BY <2>2, <1>5 DEF QueueInv, RateBounded
  <2> QED
    BY <2>1, <2>2
<1>13. RateBounded'
  BY <1>12 DEF RateBounded
<1> QED
  BY <1>9, <1>11, <1>13 DEF QueueInv

-----------------------------------------------------------------------------
(* Types *)

Codes == {0, 200, 413, 422, 429, 500, 503}

QueueTypeOK ==
  /\ now \in 0 .. Horizon
  /\ rate \in [Clients -> Seq(0 .. now)]
  /\ admitted \in [Clients -> Seq(0 .. now)]
  /\ \A c \in Clients : Len(rate[c]) <= RatePerMin

(* A request moves to stage x, with response status s if x is the end.     *)
LEMMA TypeFollows ==
  ASSUME TypeOK, QueueTypeOK', NEW r \in Requests,
         NEW x \in Stages, stage' = [stage EXCEPT ![r] = x],
         NEW s \in Codes, code' = [code EXCEPT ![r] = s], x = "done" <=> s # 0,
         hardened' \in [Requests -> BOOLEAN],
         route' \in [Requests -> Routes],
         tries' \in [Requests -> 0 .. Probes - 1],
         permits' \in 0 .. MaxConcurrentSolves,
         UNCHANGED client
  PROVE  TypeOK'
<1>1. stage' \in [Requests -> Stages] /\ code' \in [Requests -> Codes]
  BY DEF TypeOK, Codes
<1>2. \A q \in Requests : stage'[q] = "done" <=> code'[q] # 0
  <2> TAKE q \in Requests
  <2>1. CASE q = r
    BY <2>1 DEF TypeOK
  <2>2. CASE q # r
    BY <2>2 DEF TypeOK
  <2> QED
    BY <2>1, <2>2
<1> QED
  BY <1>1, <1>2 DEF TypeOK, QueueTypeOK, Codes

LEMMA QueueTypeUndisturbed ==
  TypeOK /\ UNCHANGED <<now, rate, admitted>> => QueueTypeOK'
BY DEF TypeOK, QueueTypeOK

LEMMA NotAnswered ==
  ASSUME TypeOK, NEW r \in Requests, stage[r] # "done", UNCHANGED code
  PROVE  code' = [code EXCEPT ![r] = 0]
BY DEF TypeOK

(* What every action of a request in its route leaves to show.             *)
LEMMA RouteStep ==
  ASSUME IInv, NEW r \in Requests,
         NEW x \in Stages, stage' = [stage EXCEPT ![r] = x],
         stage[r] # "done",
         \/ x # "done" /\ UNCHANGED <<code, hardened>>
         \/ /\ x = "done"
            /\ \E s \in Codes \ {0} : code' = [code EXCEPT ![r] = s]
            /\ \E h \in BOOLEAN : hardened' = [hardened EXCEPT ![r] = h],
         stage[r] \in Holding \/ x \notin Holding \/ permits > 0,
         permits' = IF stage[r] \in Holding
                    THEN IF x \in Holding THEN permits ELSE permits + 1
                    ELSE IF x \in Holding THEN permits - 1 ELSE permits,
         tries' \in [Requests -> 0 .. Probes - 1],
         UNCHANGED <<now, rate, admitted, route, client>>
  PROVE  IInv'
<1>1. PermitsConserved' /\ permits' \in 0 .. MaxConcurrentSolves
  BY PermitFollows DEF IInv
<1>2. QueueInv' /\ QueueTypeOK'
  BY QueueUndisturbed, QueueTypeUndisturbed DEF IInv, QueueInv
<1>3. route' \in [Requests -> Routes] /\ UNCHANGED client
  BY DEF IInv, TypeOK
<1>4. hardened \in [Requests -> BOOLEAN]
  BY DEF IInv, TypeOK
<1>5. TypeOK'
  <2>1. CASE x # "done" /\ UNCHANGED <<code, hardened>>
    <3>1. code' = [code EXCEPT ![r] = 0]
      BY <2>1, NotAnswered DEF IInv
    <3>2. 0 \in Codes /\ (x = "done" <=> 0 # 0)
      BY <2>1 DEF Codes
    <3> QED
      BY <1>1, <1>2, <1>3, <1>4, <2>1, <3>1, <3>2, TypeFollows DEF IInv
  <2>2. CASE /\ x = "done"
             /\ \E s \in Codes \ {0} : code' = [code EXCEPT ![r] = s]
             /\ \E h \in BOOLEAN : hardened' = [hardened EXCEPT ![r] = h]
    <3>1. PICK s \in Codes \ {0} : code' = [code EXCEPT ![r] = s]
      BY <2>2
    <3>2. hardened' \in [Requests -> BOOLEAN]
      BY <1>4, <2>2
    <3>3. s \in Codes /\ (x = "done" <=> s # 0)
      BY <2>2, <3>1
    <3> QED
      BY <1>1, <1>2, <1>3, <3>1, <3>2, <3>3, TypeFollows DEF IInv
  <2> QED
    BY <2>1, <2>2
<1> QED
  BY <1>1, <1>2, <1>5 DEF IInv, QueueInv

-----------------------------------------------------------------------------
(* The actions *)

LEMMA InitIInv == Init => IInv
<1> SUFFICES ASSUME Init PROVE IInv
  OBVIOUS
<1>1. TypeOK
  <2>1. /\ MaxConcurrentSolves \in Nat /\ Horizon \in Nat
        /\ RatePerMin \in Nat \ {0} /\ Probes \in Nat \ {0}
    BY LimitAssumption
  <2>2. \A c \in Clients : rate[c] = <<>> /\ Len(rate[c]) <= RatePerMin
    BY <2>1 DEF Init
  <2> QED
    BY <2>1, <2>2 DEF Init, TypeOK, Routes, Stages
<1>2. PermitsConserved
  <2>1. Holders = {} /\ permits = MaxConcurrentSolves
    BY DEF Init, Holders, In
  <2> QED
    BY <2>1, FS_EmptySet, LimitAssumption DEF PermitsConserved
<1>3. \A c \in Clients : /\ rate[c] = <<>> /\ Len(rate[c]) = 0
                         /\ admitted[c] = <<>> /\ Len(admitted[c]) = 0
  BY DEF Init
<1>4. QueueIsSuffix /\ InTimeOrder
  <2>1. 1 .. 0 = {} /\ \A c \in Clients : Popped(c) = 0
    BY <1>3 DEF Popped
  <2> QED
    BY <1>3, <2>1 DEF QueueIsSuffix, InTimeOrder
<1>5. RateBounded
  <2>1. RatePerMin \in Nat \ {0}
    BY LimitAssumption
  <2> QED
    BY <1>3, <2>1 DEF RateBounded
<1> QED
  BY <1>1, <1>2, <1>4, <1>5 DEF IInv

LEMMA TickIInv == IInv /\ Tick => IInv'
<1> SUFFICES ASSUME IInv, Tick PROVE IInv'
  OBVIOUS
<1>1. TypeOK'
  <2>1. now' \in 0 .. Horizon /\ now \in 0 .. now'
    BY LimitAssumption DEF IInv, TypeOK, Tick
  <2>2. ASSUME NEW c \in Clients
        PROVE  rate[c] \in Seq(0 .. now') /\ admitted[c] \in Seq(0 .. now')
    <3>1. rate[c] \in Seq(0 .. now) /\ admitted[c] \in Seq(0 .. now)
      BY DEF IInv, TypeOK
    <3>2. 0 .. now \subseteq 0 .. now'
      BY <2>1
    <3> QED
      BY <3>1, <3>2, SeqMonotonic
  <2> QED
    BY <2>1, <2>2 DEF IInv, TypeOK, Tick
<1>2. PermitsConserved'
  BY DEF IInv, PermitsConserved, Holders, In, Tick
<1> QED
  BY <1>1, <1>2, QueueTick DEF IInv, QueueInv

LEMMA RateLimitedIInv ==
  ASSUME IInv, NEW r \in Requests, RateLimited(r)
  PROVE  IInv'
<1> DEFINE c0 == client[r]
<1>1. c0 \in Clients /\ rate \in [Clients -> Seq(0 .. now)]
  BY DEF IInv, TypeOK
<1>2. /\ Left(c0) \in Seq(0 .. now) /\ Len(Left(c0)) <= Len(rate[c0])
      /\ Len(Left(c0)) \in Nat
  BY <1>1, PopKeepsSuffix DEF IInv, QueueInv
<1>3. rate' = [rate EXCEPT ![c0] = Left(c0)]
  BY DEF RateLimited, Left
<1> HIDE DEF c0
<1>4. \A c \in Clients : Len(rate[c]) \in Nat /\ Len(rate[c]) <= RatePerMin
  BY QueueTypes DEF IInv, TypeOK
<1>5. \A c \in Clients : Len(rate'[c]) <= RatePerMin
  <2>1. RatePerMin \in Nat
    BY LimitAssumption
  <2> QED
    BY <1>1, <1>2, <1>3, <1>4, <2>1
<1>6. QueueTypeOK'
  <2>1. UNCHANGED <<now, admitted>>
    BY DEF RateLimited
  <2>2. rate' \in [Clients -> Seq(0 .. now)]
    BY <1>1, <1>2, <1>3
  <2> QED
    BY <2>1, <2>2, <1>5 DEF QueueTypeOK, IInv, TypeOK
<1>7. /\ stage' = [stage EXCEPT ![r] = "done"] /\ stage[r] = "new"
      /\ code' = [code EXCEPT ![r] = 429]
      /\ hardened' = [hardened EXCEPT ![r] = FALSE]
      /\ UNCHANGED <<now, permits, route, client, tries, admitted>>
  BY DEF RateLimited, Respond
<1>8. PermitsConserved' /\ permits' \in 0 .. MaxConcurrentSolves
  BY <1>7, PermitFollows DEF IInv, Holding
<1>9. /\ route' \in [Requests -> Routes] /\ tries' \in [Requests -> 0 .. Probes - 1]
      /\ hardened' \in [Requests -> BOOLEAN]
  BY <1>7 DEF IInv, TypeOK
<1>10. TypeOK'
  <2>1. 429 \in Codes /\ "done" \in Stages /\ ("done" = "done" <=> 429 # 0)
    BY DEF Codes, Stages
  <2> QED
    BY <2>1, <1>6, <1>7, <1>8, <1>9, TypeFollows DEF IInv
<1> QED
  BY <1>8, <1>10, QueueRefusal DEF IInv, QueueInv

LEMMA AdmitIInv ==
  ASSUME IInv, NEW r \in Requests, Admit(r)
  PROVE  IInv'
<1> DEFINE c0 == client[r]
<1>1. /\ c0 \in Clients
      /\ rate \in [Clients -> Seq(0 .. now)]
      /\ admitted \in [Clients -> Seq(0 .. now)]
      /\ now \in Nat /\ now \in 0 .. now
  BY LimitAssumption DEF IInv, TypeOK
<1>2. Left(c0) \in Seq(0 .. now) /\ Len(Left(c0)) \in Nat
  BY <1>1, PopKeepsSuffix DEF IInv, QueueInv
<1>3. /\ rate' = [rate EXCEPT ![c0] = Append(Left(c0), now)]
      /\ admitted' = [admitted EXCEPT ![c0] = Append(@, now)]
      /\ Len(Left(c0)) < RatePerMin
  BY DEF Admit, Left
<1> HIDE DEF c0
<1>4. Len(Append(Left(c0), now)) <= RatePerMin
  BY <1>2, <1>3, LimitAssumption
<1>5. \A c \in Clients : Len(rate'[c]) <= RatePerMin
  BY <1>1, <1>3, <1>4 DEF IInv, TypeOK
<1>6. /\ Append(Left(c0), now) \in Seq(0 .. now)
      /\ Append(admitted[c0], now) \in Seq(0 .. now)
  BY <1>1, <1>2
<1>7. QueueTypeOK'
  <2>1. now' = now
    BY DEF Admit
  <2>2. rate' \in [Clients -> Seq(0 .. now)]
    BY <1>1, <1>3, <1>6
  <2>3. admitted' \in [Clients -> Seq(0 .. now)]
    BY <1>1, <1>3, <1>6
  <2> QED
    BY <2>1, <2>2, <2>3, <1>5 DEF QueueTypeOK, IInv, TypeOK
<1>8. /\ stage' = [stage EXCEPT ![r] = "queued"] /\ stage[r] = "new"
      /\ UNCHANGED <<now, permits, client, tries, code, hardened>>
      /\ \E x \in Offered : route' = [route EXCEPT ![r] = x]
  BY DEF Admit
<1>9. PermitsConserved' /\ permits' \in 0 .. MaxConcurrentSolves
  BY <1>8, PermitFollows DEF IInv, Holding
<1>10. /\ route' \in [Requests -> Routes] /\ tries' \in [Requests -> 0 .. Probes - 1]
       /\ hardened' \in [Requests -> BOOLEAN]
  BY <1>8, OfferedAssumption DEF IInv, TypeOK
<1>11. TypeOK'
  <2>1. code' = [code EXCEPT ![r] = 0]
    BY <1>8, NotAnswered DEF IInv
  <2>2. 0 \in Codes /\ "queued" \in Stages /\ ("queued" = "done" <=> 0 # 0)
    BY DEF Codes, Stages
  <2> QED
    BY <2>1, <2>2, <1>7, <1>8, <1>9, <1>10, TypeFollows DEF IInv
<1> QED
  BY <1>9, <1>11, QueueAdmission DEF IInv, QueueInv

(* A request answers in its route, with a permit or without one.           *)
LEMMA AnswerStep ==
  ASSUME IInv, NEW r \in Requests, stage[r] # "done",
         NEW s \in Codes \ {0}, NEW h \in BOOLEAN, Respond(r, s, h),
         permits' = IF stage[r] \in Holding THEN permits + 1 ELSE permits,
         UNCHANGED <<now, rate, route, client, tries, admitted>>
  PROVE  IInv'
<1>1. /\ stage' = [stage EXCEPT ![r] = "done"]
      /\ code' = [code EXCEPT ![r] = s]
      /\ hardened' = [hardened EXCEPT ![r] = h]
  BY DEF Respond
<1>2. "done" \in Stages /\ "done" \notin Holding
  BY DEF Stages, Holding
<1>3. tries' \in [Requests -> 0 .. Probes - 1]
  BY DEF IInv, TypeOK
<1> QED
  BY <1>1, <1>2, <1>3, RouteStep

(* A request moves on without an answer. *)
LEMMA MoveStep ==
  ASSUME IInv, NEW r \in Requests, stage[r] # "done",
         NEW x \in Stages, x # "done", stage' = [stage EXCEPT ![r] = x],
         stage[r] \in Holding \/ x \notin Holding \/ permits > 0,
         permits' = IF stage[r] \in Holding
                    THEN IF x \in Holding THEN permits ELSE permits + 1
                    ELSE IF x \in Holding THEN permits - 1 ELSE permits,
         UNCHANGED <<now, rate, route, client, tries, code, hardened, admitted>>
  PROVE  IInv'
<1>1. tries' \in [Requests -> 0 .. Probes - 1]
  BY DEF IInv, TypeOK
<1> QED
  BY <1>1, RouteStep

(* Middleware, routes, solves. *)
LEMMA RequestIInv ==
  ASSUME IInv, NEW r \in Requests,
         \/ Middleware(r) \/ Invalid(r) \/ Start(r) \/ Waiting(r) \/ Working(r)
  PROVE  IInv'
<1> USE DEF Codes, Holding
<1>1. CASE TooLarge(r)
  <2>1. stage[r] = "new" /\ 413 \in Codes \ {0}
    BY <1>1 DEF TooLarge
  <2> QED
    BY <1>1, <2>1, AnswerStep DEF TooLarge
<1>2. CASE RateLimited(r)
  BY <1>2, RateLimitedIInv
<1>3. CASE Admit(r)
  BY <1>3, AdmitIInv
<1>4. CASE Invalid(r)
  <2>1. stage[r] = "queued" /\ 422 \in Codes \ {0}
    BY <1>4 DEF Invalid
  <2> QED
    BY <1>4, <2>1, AnswerStep DEF Invalid
<1>5. CASE Start(r)
  <2>1. stage[r] = "queued" /\ UNCHANGED <<now, rate, permits, route, client, tries, admitted>>
    BY <1>5 DEF Start
  <2>2. ASSUME NEW s \in {200, 413, 422, 500, 503}, NEW h \in BOOLEAN,
               Respond(r, s, h)
        PROVE  IInv'
    <3>1. s \in Codes \ {0}
      OBVIOUS
    <3> QED
      BY <2>1, <2>2, <3>1, AnswerStep
  <2>3. ASSUME NEW x \in {"probing", "waiting"},
               stage' = [stage EXCEPT ![r] = x], UNCHANGED <<code, hardened>>
        PROVE  IInv'
    <3>1. x \in Stages /\ x # "done" /\ x \notin Holding
      BY DEF Stages
    <3> QED
      BY <2>1, <2>3, <3>1, MoveStep
  <2>4. CASE Respond(r, 200, TRUE)
    BY <2>2, <2>4, Zenon
  <2>5. CASE Respond(r, 500, FALSE)
    BY <2>2, <2>5, Zenon
  <2>6. CASE \E s \in {413, 422, 503} : Respond(r, s, TRUE)
    <3>1. PICK s \in {413, 422, 503} : Respond(r, s, TRUE)
      BY <2>6
    <3>2. s \in {200, 413, 422, 500, 503} /\ TRUE \in BOOLEAN
      OBVIOUS
    <3> QED
      BY <2>2, <3>1, <3>2, Zenon
  <2>7. CASE UNCHANGED <<code, hardened>> /\ stage' = [stage EXCEPT ![r] = "probing"]
    BY <2>3, <2>7
  <2>8. CASE UNCHANGED <<code, hardened>> /\ stage' = [stage EXCEPT ![r] = "waiting"]
    BY <2>3, <2>8
  <2>9. (IF route[r] = "/plan" THEN {413, 422, 503} ELSE {422}) \subseteq {413, 422, 503}
    OBVIOUS
  <2> HIDE DEF Codes, Holding
  <2> QED
    BY <1>5, <2>4, <2>5, <2>6, <2>7, <2>8, <2>9, Zenon DEF Start
<1>6. CASE Acquire(r)
  <2>1. "solving" \in Stages
    BY DEF Stages
  <2> QED
    BY <1>6, <2>1, MoveStep DEF Acquire
<1>7. CASE Busy(r)
  <2>1. stage[r] = "waiting" /\ 503 \in Codes \ {0}
    BY <1>7 DEF Busy
  <2> QED
    BY <1>7, <2>1, AnswerStep DEF Busy
<1>8. CASE SolveReturns(r)
  <2>1. stage[r] \in Holding /\ stage[r] # "done" /\ 200 \in Codes \ {0}
    BY <1>8 DEF SolveReturns
  <2> QED
    BY <1>8, <2>1, AnswerStep DEF SolveReturns
<1>9. CASE StartPareto(r)
  <2>1. "sweeping" \in Stages
    BY DEF Stages
  <2> QED
    BY <1>9, <2>1, MoveStep DEF StartPareto
<1>10. CASE PlanSolved(r)
  <2>1. "building" \in Stages
    BY DEF Stages
  <2> QED
    BY <1>10, <2>1, MoveStep DEF PlanSolved
<1>11. CASE PlanReturns(r)
  <2>1. stage[r] = "building" /\ 200 \in Codes \ {0}
    BY <1>11 DEF PlanReturns
  <2> QED
    BY <1>11, <2>1, AnswerStep DEF PlanReturns
<1>12. CASE SolveRaises(r)
  <2>1. stage[r] = "solving" /\ 500 \in Codes \ {0}
    BY <1>12 DEF SolveRaises
  <2> QED
    BY <1>12, <2>1, AnswerStep DEF SolveRaises
<1>13. CASE ProbeFails(r)
  <2>1. stage[r] = "probing" /\ tries[r] + 1 < Probes
        /\ tries' = [tries EXCEPT ![r] = tries[r] + 1]
        /\ UNCHANGED <<now, rate, permits, stage, route, client, code, hardened, admitted>>
    BY <1>13 DEF ProbeFails
  <2>2. tries' \in [Requests -> 0 .. Probes - 1]
    BY <2>1, LimitAssumption DEF IInv, TypeOK
  <2>3. stage' = [stage EXCEPT ![r] = "probing"] /\ "probing" \in Stages
    BY <2>1 DEF IInv, TypeOK, Stages
  <2> QED
    BY <2>1, <2>2, <2>3, RouteStep
<1>14. CASE ProbeReturns(r)
  <2>1. /\ stage[r] = "probing"
        /\ UNCHANGED <<now, rate, permits, route, client, tries, admitted>>
    BY <1>14 DEF ProbeReturns
  <2>2. PICK status \in {200, 503} : Respond(r, status, TRUE)
    BY <1>14 DEF ProbeReturns
  <2>3. status \in Codes \ {0}
    OBVIOUS
  <2> QED
    BY <2>1, <2>2, <2>3, AnswerStep
<1> QED
  BY <1>1, <1>2, <1>3, <1>4, <1>5, <1>6, <1>7, <1>8, <1>9, <1>10, <1>11, <1>12,
     <1>13, <1>14
  DEF Middleware, Waiting, Working

LEMMA NextIInv == IInv /\ [Next]_vars => IInv'
<1> SUFFICES ASSUME IInv, [Next]_vars PROVE IInv'
  OBVIOUS
<1>1. CASE Tick
  BY <1>1, TickIInv
<1>2. CASE \E r \in Requests : \/ Middleware(r) \/ Invalid(r) \/ Start(r)
                               \/ Waiting(r) \/ Working(r)
  BY <1>2, RequestIInv
<1>3. CASE UNCHANGED vars
  BY <1>3 DEF vars, IInv, TypeOK, PermitsConserved, Holders, In, QueueIsSuffix,
              Popped, InTimeOrder, RateBounded
<1> QED
  BY <1>1, <1>2, <1>3 DEF Next, Terminated

LEMMA InductiveInvariant == Spec => []IInv
<1> QED
  BY InitIInv, NextIInv, PTL DEF Spec

-----------------------------------------------------------------------------
(***************************************************************************)
(* Type correctness, for any number of requests, clients and threads.      *)
(***************************************************************************)
THEOREM TypeCorrect == Spec => []TypeOK
<1>1. IInv => TypeOK
  BY DEF IInv
<1> QED
  BY <1>1, InductiveInvariant, PTL

(***************************************************************************)
(* The semaphore: every path out of a solve, an exception included, gives  *)
(* the permit back exactly once (api.py:200-230, 369-374).                 *)
(***************************************************************************)
THEOREM PermitsAreConserved == Spec => []PermitsConserved
<1>1. IInv => PermitsConserved
  BY DEF IInv
<1> QED
  BY <1>1, InductiveInvariant, PTL

(***************************************************************************)
(* The rate limit: no client ever has more than RatePerMin requests        *)
(* admitted within a window, wherever the window starts (api.py:80-89).    *)
(***************************************************************************)
THEOREM RateIsBounded == Spec => []RateBounded
<1>1. IInv => RateBounded
  BY DEF IInv
<1> QED
  BY <1>1, InductiveInvariant, PTL

LEMMA SuffixCardinality ==
  ASSUME NEW n \in Nat, NEW d \in Nat, d <= n, NEW S, S \subseteq 1 .. n,
         d + 1 .. n \subseteq S
  PROVE  Cardinality(S) \in Nat /\ Cardinality(S) >= n - d
<1>1. IsFiniteSet(1 .. n)
  BY FS_Interval
<1>2. IsFiniteSet(S)
  BY <1>1, FS_Subset
<1>3. Cardinality(d + 1 .. n) <= Cardinality(S)
  BY <1>2, FS_Subset
<1>4. Cardinality(d + 1 .. n) = n - d
  <2>1. d + 1 \in Int /\ n \in Int
    OBVIOUS
  <2>2. (IF d + 1 > n THEN 0 ELSE n - (d + 1) + 1) = n - d
    OBVIOUS
  <2> QED
    BY <2>1, <2>2, FS_Interval
<1> QED
  BY <1>2, <1>3, <1>4, FS_CardinalityType

(* As many requests of c are recent as are left in its queue.              *)
LEMMA LeftAreRecent ==
  ASSUME TypeOK, QueueInv, NEW c \in Clients
  PROVE  /\ Cardinality({i \in DOMAIN admitted[c] : now - admitted[c][i] <= Window})
              >= Len(Left(c))
         /\ Len(Left(c)) \in Nat
         /\ Cardinality({i \in DOMAIN admitted[c] : now - admitted[c][i] <= Window})
              \in Nat
<1> SUFFICES ASSUME NEW S, S = {i \in DOMAIN admitted[c] :
                                  now - admitted[c][i] <= Window},
                    NEW n, n = Len(admitted[c]), NEW d, d = Gone(c),
                    NEW m, m = Len(Left(c)), m > 0
             PROVE  Cardinality(S) >= m
  <2> DEFINE R == {i \in DOMAIN admitted[c] : now - admitted[c][i] <= Window}
  <2>1. DOMAIN admitted[c] = 1 .. Len(admitted[c]) /\ Len(admitted[c]) \in Nat
    BY QueueTypes
  <2>2. R \subseteq 1 .. Len(admitted[c]) /\ IsFiniteSet(1 .. Len(admitted[c]))
    BY <2>1, FS_Interval
  <2> HIDE DEF R
  <2>3. Cardinality(R) \in Nat /\ Len(Left(c)) \in Nat
    BY <2>2, FS_Subset, FS_CardinalityType, PopKeepsSuffix
  <2>4. CASE Len(Left(c)) = 0
    BY <2>3, <2>4 DEF R
  <2>5. CASE Len(Left(c)) > 0
    <3>1. R = {i \in DOMAIN admitted[c] : now - admitted[c][i] <= Window}
      BY DEF R
    <3>2. Cardinality(R) >= Len(Left(c))
      BY <2>5, <3>1, Zenon
    <3> QED
      BY <2>3, <3>1, <3>2, Zenon
  <2> QED
    BY <2>3, <2>4, <2>5
<1>1. /\ n \in Nat /\ Window \in Nat /\ now \in Nat
      /\ DOMAIN admitted[c] = 1 .. n
      /\ \A i \in 1 .. n : admitted[c][i] \in 0 .. now
  BY QueueTypes
<1>2. /\ d \in Nat /\ m \in Nat
      /\ \A i \in 1 .. m : Left(c)[i] = admitted[c][d + i]
      /\ now - Left(c)[1] <= Window
  BY PopKeepsSuffix
<1>3. d = n - m
  BY DEF Gone
<1>4. now - admitted[c][d + 1] <= Window /\ d + 1 \in 1 .. n
  BY <1>1, <1>2, <1>3
<1>5. \A i, j \in 1 .. n : i <= j => admitted[c][i] <= admitted[c][j]
  BY DEF QueueInv, InTimeOrder
<1>6. ASSUME NEW i \in d + 1 .. n
      PROVE  i \in S
  <2>1. i \in 1 .. n /\ d + 1 <= i
    BY <1>1, <1>2
  <2>2. admitted[c][d + 1] <= admitted[c][i]
    BY <1>4, <1>5, <2>1
  <2> QED
    BY <1>1, <1>4, <2>1, <2>2
<1>7. S \subseteq 1 .. n /\ d + 1 .. n \subseteq S /\ d <= n
  BY <1>1, <1>2, <1>3, <1>6
<1>8. Cardinality(S) >= n - d
  BY <1>1, <1>2, <1>7, SuffixCardinality
<1> QED
  BY <1>1, <1>2, <1>3, <1>8

(***************************************************************************)
(* And it is no stricter: whoever is refused had RatePerMin requests       *)
(* admitted within the last window (api.py:85-88).                         *)
(***************************************************************************)
THEOREM RefusalsAreEarned == Spec => RefusedOnlyWhenSpent
<1> DEFINE Recents(r) == {i \in DOMAIN admitted[client[r]] :
                            now - admitted[client[r]][i] <= Window}
           Earned == \A r \in Requests : code'[r] = 429 /\ code[r] # 429 =>
                       Cardinality(Recents(r)) >= RatePerMin
<1>1. IInv /\ [Next]_vars => [Earned]_vars
  <2> SUFFICES ASSUME IInv, Next, NEW r \in Requests,
                      code'[r] = 429, code[r] # 429
               PROVE  Cardinality(Recents(r)) >= RatePerMin
    BY DEF Earned
  <2>1. code \in [Requests -> Codes]
    BY DEF IInv, TypeOK, Codes
  <2>2. RateLimited(r)
    <3>1. PICK q \in Requests : \/ Middleware(q) \/ Invalid(q) \/ Start(q)
                                \/ Waiting(q) \/ Working(q)
      BY DEF Next, Tick, Terminated, vars
    <3>2. RateLimited(q) \/ \A s \in Requests : code'[s] # 429 \/ code'[s] = code[s]
      BY <2>1, <3>1 DEF Middleware, TooLarge, Admit, Invalid, Start, Waiting,
           Working, Acquire, Busy, SolveReturns, StartPareto, PlanSolved,
           PlanReturns, SolveRaises, ProbeFails, ProbeReturns, Respond
    <3>3. RateLimited(q) => code' = [code EXCEPT ![q] = 429]
      BY DEF RateLimited, Respond
    <3> QED
      BY <2>1, <3>2, <3>3
  <2>3. client[r] \in Clients
    BY DEF IInv, TypeOK
  <2>4. Len(Left(client[r])) >= RatePerMin /\ RatePerMin \in Nat
    BY <2>2, LimitAssumption DEF RateLimited, Left
  <2>5. /\ Cardinality(Recents(r)) >= Len(Left(client[r]))
        /\ Cardinality(Recents(r)) \in Nat
        /\ Len(Left(client[r])) \in Nat
    BY <2>3, LeftAreRecent DEF IInv, QueueInv
  <2> HIDE DEF Recents
  <2> QED
    BY <2>4, <2>5
<1>2. [][Earned]_vars => RefusedOnlyWhenSpent
  BY DEF RefusedOnlyWhenSpent, RefusalsEarned, Earned, Recents
<1> HIDE DEF Earned
<1> QED
  BY <1>1, <1>2, InductiveInvariant, PTL DEF Spec

(***************************************************************************)
(* Both halves: the sliding window neither lets a client exceed its quota  *)
(* nor refuses one that has not spent it (api.py:81-89).                   *)
(***************************************************************************)
THEOREM QuotaIsKept == Spec => QuotaIsExact
BY RateIsBounded, RefusalsAreEarned, PTL DEF QuotaIsExact, RefusedOnlyWhenSpent

-----------------------------------------------------------------------------
(* The regulatory calendar *)

Profiles == [edition : Nat, review_due : Nat]

(***************************************************************************)
(* What is on its way to the service is ordered by age: the process runs   *)
(* an edition no newer than any being deployed, at most one is being       *)
(* deployed, that one is no newer than the one that waits, and main holds  *)
(* the newest. What is on its way last is the profile on main; so is what  *)
(* runs, when nothing is on its way and the last deployment did not fail.  *)
(***************************************************************************)
ProfileInv ==
  /\ today \in Nat /\ repo \in Profiles
  /\ process.profile \in Profiles /\ process.profile.edition <= repo.edition
  /\ \A p \in deploying : /\ p \in Profiles /\ p.edition <= repo.edition
                          /\ process.profile.edition <= p.edition
                          /\ \A q \in deploying : p = q
  /\ waiting # Nothing => waiting = repo
  /\ waiting = Nothing => deploying \subseteq {repo}
  /\ waiting = Nothing /\ deploying = {} /\ ~failed => process.profile = repo

LEMMA ProfileInvHolds == ProfileInit => ProfileInv
BY RegulatoryAssumption DEF ProfileInit, ProfileInv, Profile, Profiles

LEMMA ProfileInvPreserved ==
  ProfileInv /\ [ProfileNext]_profileVars =>
    ProfileInv' /\ process'.profile.edition >= process.profile.edition
<1> SUFFICES ASSUME ProfileInv, [ProfileNext]_profileVars
             PROVE  ProfileInv' /\ process'.profile.edition >= process.profile.edition
  OBVIOUS
<1> USE DEF ProfileInv, deployVars, watchVars
<1>1. /\ \A p \in Profiles : p.edition \in Nat /\ p.review_due \in Nat
      /\ repo # Nothing
  BY RegulatoryAssumption DEF Profiles
<1>2. CASE NextDay
  BY <1>1, <1>2 DEF NextDay
<1>3. CASE Merge
  <2>1. repo' \in Profiles /\ repo'.edition = repo.edition + 1 /\ repo' # Nothing
    BY <1>1, <1>3, RegulatoryAssumption DEF Merge, Profile, Profiles
  <2> QED
    BY <1>1, <1>3, <2>1 DEF Merge
<1>4. CASE Redeploy
  BY <1>1, <1>4 DEF Redeploy
<1>5. CASE StartDeploy
  BY <1>1, <1>5 DEF StartDeploy
<1>6. CASE EndDeploy
  <2>1. PICK p \in deploying :
          /\ deploying' = deploying \ {p}
          /\ \/ process' = [profile |-> p, loaded |-> today]
             \/ process' = process /\ failed' = TRUE
    BY <1>6 DEF EndDeploy
  <2>2. UNCHANGED <<today, repo, waiting>> /\ deploying' = {}
    BY <1>6, <2>1 DEF EndDeploy
  <2>3. waiting = Nothing => p = repo
    OBVIOUS
  <2> QED
    BY <1>1, <2>1, <2>2, <2>3
<1>7. CASE Restart
  <2>1. /\ process'.profile = process.profile
        /\ UNCHANGED <<today, repo, waiting, deploying, failed>>
    BY <1>7 DEF Restart
  <2> QED
    BY <1>1, <2>1
<1>8. CASE Watch \/ CloseIssue \/ UNCHANGED profileVars
  <2>1. UNCHANGED <<today, repo, waiting, deploying, failed, process>>
    BY <1>8 DEF Watch, CloseIssue, Evaluate, List, Create, profileVars
  <2> QED
    BY <1>1, <2>1
<1> QED
  BY <1>2, <1>3, <1>4, <1>5, <1>6, <1>7, <1>8 DEF ProfileNext, Deploy

(***************************************************************************)
(* UPDATING_REGULATORY.md:21-29: at rest after a deployment that did not   *)
(* fail, the warning on the plans and the watchdog's issue are given on    *)
(* the same days, for every review period, however merges, deployments     *)
(* that ship or fail, restarts and the passing of days interleaved.        *)
(***************************************************************************)
THEOREM WarningsAgreeWithWatchdog == ProfileSpec => []WarningAgreesWithWatchdog
<1>1. ProfileInv => WarningAgreesWithWatchdog
  BY DEF ProfileInv, WarningAgreesWithWatchdog, StaleFlag, Overdue
<1> QED
  BY <1>1, ProfileInvHolds, ProfileInvPreserved, PTL DEF ProfileSpec

(***************************************************************************)
(* deploy.yml:20-22: no deployment puts an older profile back over a newer *)
(* one, failed and repeated ones and a replaced pending one included. The  *)
(* safety half of HeadIsServed; that the last profile is served in the end *)
(* is liveness, and stays with TLC.                                        *)
(***************************************************************************)
THEOREM DeploymentsNeverGoBack == ProfileSpec => NeverGoesBack
BY ProfileInvHolds, ProfileInvPreserved, PTL DEF ProfileSpec, NeverGoesBack

-----------------------------------------------------------------------------
(* The landing page *)

(***************************************************************************)
(* As long as no request was sent while another was in flight: the request *)
(* in flight, if any, is for the estate whose button is pressed, at the    *)
(* capacity of the slider unless the debounce is armed; and when nothing   *)
(* is in flight and a plan is shown, it is the plan of that estate at what *)
(* the slider stands for.                                                  *)
(***************************************************************************)
SoloInv ==
  ~overlapped =>
    /\ \A q \in inflight :
         /\ inflight = {q} /\ q.source = source
         /\ q.cap # None => q.cap = slider \/ timer
    /\ inflight = {} /\ ~timer /\ head = "plan" =>
         /\ last = table /\ table.source = source
         /\ table.cap = CapacityUsed(source, slider)

PageInv == source \in Sources /\ SoloInv

LEMMA PageInvPreserved == PageInv /\ [PageNext]_pageVars => PageInv'
<1> SUFFICES ASSUME PageInv, [PageNext]_pageVars PROVE PageInv'
  OBVIOUS
<1> USE DEF PageInv, SoloInv
<1>1. ASSUME NEW s \in Sources, NEW reset \in BOOLEAN, Replan(s, reset), source' = s,
             slider' = slider
      PROVE  PageInv'
  <2>1. CASE inflight # {}
    BY <1>1, <2>1 DEF Replan
  <2>2. CASE inflight = {}
    <3> DEFINE q == [id |-> gestures', source |-> s, cap |-> IF reset THEN None ELSE slider]
    <3>1. inflight' = {q} /\ q.source = s /\ (q.cap # None => q.cap = slider)
      BY <1>1, <2>2 DEF Replan
    <3> HIDE DEF q
    <3> QED
      BY <1>1, <3>1
  <2> QED
    BY <2>1, <2>2
<1>2. CASE \E s \in Samples : PickSample(s)
  BY <1>1, <1>2 DEF PickSample, Sources
<1>3. CASE \E v \in SliderValues : Slide(v)
  BY <1>3 DEF Slide
<1>4. CASE Debounced
  BY <1>1, <1>4 DEF Debounced
<1>5. CASE ChooseFile
  BY <1>5 DEF ChooseFile
<1>6. CASE FileRead
  <2>1. CASE head' = "bad file" /\ UNCHANGED <<source, inflight, busy, overlapped>>
    BY <1>6, <2>1 DEF FileRead
  <2>2. CASE source' = Upload /\ Replan(Upload, TRUE)
    BY <1>1, <1>6, <2>2 DEF FileRead, Sources
  <2> QED
    BY <1>6, <2>1, <2>2 DEF FileRead
<1>7. CASE \E q \in inflight : Completes(q)
  <2>1. PICK q \in inflight : Completes(q)
    BY <1>7
  <2>2. /\ inflight' = inflight \ {q}
        /\ UNCHANGED <<source, timer, reading, overlapped>>
    BY <2>1 DEF Completes, RenderPlan, RenderError, Unreachable, Ends
  <2>3. CASE RenderError(q) \/ Unreachable(q)
    <3>1. head' = "warning" /\ slider' = slider
      BY <2>3 DEF RenderError, Unreachable
    <3> QED
      BY <2>2, <3>1
  <2>4. CASE RenderPlan(q)
    <3> DEFINE cap == CapacityUsed(q.source, q.cap)
    <3>1. /\ last' = table' /\ table'.source = q.source /\ table'.cap = cap
          /\ slider' = IF q.cap = None THEN cap ELSE slider
      BY <2>4 DEF RenderPlan
    <3>2. ASSUME ~overlapped, q.cap = None
          PROVE  cap = CapacityUsed(source, cap)
      <4>1. q.source = source /\ cap = OwnCapacity[source]
        BY <3>2 DEF CapacityUsed
      <4>2. cap \in Int /\ DearestAsset[source] \in Int /\ cap >= DearestAsset[source]
        BY <4>1, CapacityAssumption
      <4>3. cap # None
        BY <4>2, CapacityAssumption
      <4> HIDE DEF cap
      <4>4. Max({cap, DearestAsset[source]}) = cap
        BY <4>2 DEF Max
      <4> QED
        BY <4>3, <4>4 DEF CapacityUsed
    <3>3. ASSUME ~overlapped, q.cap # None, ~timer
          PROVE  cap = CapacityUsed(source, slider)
      BY <3>3
    <3> HIDE DEF cap
    <3> QED
      BY <2>2, <3>1, <3>2, <3>3
  <2> QED
    BY <2>1, <2>3, <2>4 DEF Completes
<1>8. CASE UNCHANGED pageVars
  BY <1>8 DEF pageVars
<1> QED
  BY <1>2, <1>3, <1>4, <1>5, <1>6, <1>7, <1>8 DEF PageNext, PageTerminated

(***************************************************************************)
(* index.html:319-346: with one request at a time, a page at rest on a     *)
(* plan shows the plan of the chosen estate at the capacity of the slider, *)
(* and exports that one, for any estates, gestures and slider range. A     *)
(* reset moves the slider to the budget of the estate, which the floor of  *)
(* /plan leaves as it is because it pays for the dearest asset.            *)
(***************************************************************************)
THEOREM SoloPlanIsTheChosenOne == PageSpec => []SoloPlanMatchesControls
<1>1. PageInit => PageInv
  BY SourceAssumption DEF PageInit, PageInv, SoloInv, Sources
<1>2. PageInv => SoloPlanMatchesControls
  BY DEF PageInv, SoloInv, SoloPlanMatchesControls, Quiet
<1> QED
  BY <1>1, <1>2, PageInvPreserved, PTL DEF PageSpec

=============================================================================
