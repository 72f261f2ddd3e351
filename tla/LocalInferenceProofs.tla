------------------------ MODULE LocalInferenceProofs ------------------------
(***************************************************************************)
(* Proofs about LocalInference, for every value of its constants.          *)
(***************************************************************************)
EXTENDS LocalInference, SequenceTheorems, FiniteSetTheorems, TLAPS

-----------------------------------------------------------------------------
(***************************************************************************)
(* The inductive invariant.                                                *)
(***************************************************************************)
\* The awaits of the head of the queue.
AtHead == {"authorize", "model", "sent", "busy", "retry"}

\* No ticket is twice in the queue, and whoever waits for the model is its first.
QueueShape ==
    /\ \A i, j \in 1..Len(tickets) : tickets[i] = tickets[j] => i = j
    /\ \A r \in Requests :
          /\ turn[r].pc \in AtHead /\ InQueue(r) => tickets[1] = r
          /\ turn[r].pc = "asked" => ~turn[r].cancelled

\* Only a question whose user cancelled carries a cancelled ticket or a call to cancel.
ButtonShape ==
    \A r \in Requests : turn[r].cancelled \/ button[r].cancel # "no" => button[r].asked

\* The places of a thread that has given the question to no runtime.
Unstarted == {"out", "routed", "desktop", "select", "selected"}

\* A thread at work is one whose answer is awaited or was given up; a busy answer comes
\* of no thread; what is not started is counted 0; a thread that chose the GPU before
\* a switch to playback is cancelled.
JobShape ==
    \A r \in Requests :
      /\ turn[r].pc \notin {"sent", "answered", "over"}
            => job[r].pc = "none" /\ job[r].reply = "none" /\ passes[r] = 0
      /\ job[r].reply = "busy" => job[r].pc = "none" /\ passes[r] = 0
      /\ job[r].pc \in Unstarted => passes[r] = 0
      /\ job[r].pc \in Unstarted \union {"run"} => job[r].backend = "server"
      /\ mode = "playback" /\ job[r].pc = "selected" /\ job[r].execution = "gpu"
            => job[r].cancelled

\* A cancellation that is done holds the question where the gateway will not admit it.
CancelShape ==
    \A r \in Requests : button[r].cancel = "done" =>
      /\ job[r].pc = "out" => r \in leases
      /\ turn[r].pc \in Holding \ {"sent"} => turn[r].cancelled \/ r \in leases

InferenceIInv == InferenceInv /\ QueueShape /\ ButtonShape /\ JobShape /\ CancelShape

-----------------------------------------------------------------------------
(***************************************************************************)
(* The queue.                                                              *)
(***************************************************************************)
\* Taking the ticket at position k out of the queue.
LEMMA RemoveAtProperties ==
    ASSUME NEW S, NEW s \in Seq(S), NEW k \in 1..Len(s)
    PROVE  /\ RemoveAt(s, k) \in Seq(S)
           /\ Len(RemoveAt(s, k)) = Len(s) - 1
           /\ \A i \in 1..Len(s) - 1 : RemoveAt(s, k)[i] = IF i < k THEN s[i] ELSE s[i + 1]
<1> DEFINE a == SubSeq(s, 1, k - 1)
           b == SubSeq(s, k + 1, Len(s))
<1>1. Len(s) \in Nat /\ (\A i \in 1..Len(s) : s[i] \in S) /\ k \in Nat /\ 1 <= k /\ k <= Len(s)
  OBVIOUS
<1>2. a \in Seq(S) /\ Len(a) = k - 1 /\ \A i \in 1..k - 1 : a[i] = s[i]
  <2>1. \A i \in 1..k - 1 : s[i] \in S
    BY <1>1
  <2>2. /\ a \in Seq(S) /\ Len(a) = IF 1 <= k - 1 THEN (k - 1) - 1 + 1 ELSE 0
        /\ \A i \in 1..(k - 1) - 1 + 1 : a[i] = s[1 + i - 1]
    BY <1>1, <2>1, SubSeqProperties
  <2> HIDE DEF a
  <2>3. QED BY <1>1, <2>2
<1>3. b \in Seq(S) /\ Len(b) = Len(s) - k /\ \A i \in 1..Len(s) - k : b[i] = s[k + i]
  <2>1. \A i \in k + 1..Len(s) : s[i] \in S
    BY <1>1
  <2>2. /\ b \in Seq(S) /\ Len(b) = IF k + 1 <= Len(s) THEN Len(s) - (k + 1) + 1 ELSE 0
        /\ \A i \in 1..Len(s) - (k + 1) + 1 : b[i] = s[(k + 1) + i - 1]
    BY <1>1, <2>1, SubSeqProperties
  <2> HIDE DEF b
  <2>3. QED BY <1>1, <2>2
<1> HIDE DEF a, b
<1>4. /\ a \o b \in Seq(S) /\ Len(a \o b) = Len(a) + Len(b)
      /\ \A i \in 1..Len(a) + Len(b) : (a \o b)[i] = IF i <= Len(a) THEN a[i] ELSE b[i - Len(a)]
  BY <1>2, <1>3, ConcatProperties
<1>5. RemoveAt(s, k) = a \o b
  BY DEF RemoveAt, a, b
<1>6. \A i \in 1..Len(s) - 1 : (a \o b)[i] = IF i < k THEN s[i] ELSE s[i + 1]
  <2> SUFFICES ASSUME NEW i \in 1..Len(s) - 1
               PROVE  (a \o b)[i] = IF i < k THEN s[i] ELSE s[i + 1]
    OBVIOUS
  <2>1. i \in 1..Len(a) + Len(b)
    BY <1>1, <1>2, <1>3
  <2>2. CASE i < k
    <3>1. i \in 1..k - 1 /\ i <= Len(a)
      BY <1>1, <1>2, <2>2
    <3>2. QED BY <1>2, <1>4, <2>1, <2>2, <3>1
  <2>3. CASE ~(i < k)
    <3>1. i - (k - 1) \in 1..Len(s) - k /\ ~(i <= Len(a)) /\ k + (i - (k - 1)) = i + 1
      BY <1>1, <1>2, <2>3
    <3>2. QED BY <1>2, <1>3, <1>4, <2>1, <2>3, <3>1
  <2>4. QED BY <2>2, <2>3
<1>7. Len(a \o b) = Len(s) - 1
  BY <1>1, <1>2, <1>3, <1>4
<1>8. QED BY <1>4, <1>5, <1>6, <1>7

\* A queue that loses one ticket has no more tickets of anyone.
LEMMA OfUserAfterRemoval ==
    ASSUME NEW s \in Seq(Requests), NEW k \in 1..Len(s), NEW u,
           NEW t \in Seq(Requests), Len(t) = Len(s) - 1,
           \A i \in 1..Len(s) - 1 : t[i] = IF i < k THEN s[i] ELSE s[i + 1]
    PROVE  Cardinality({i \in 1..Len(t) : Owner[t[i]] = u})
             <= Cardinality({i \in 1..Len(s) : Owner[s[i]] = u})
<1> DEFINE T == {i \in 1..Len(t) : Owner[t[i]] = u}
           Old == {i \in 1..Len(s) : Owner[s[i]] = u}
           f == [i \in T |-> IF i < k THEN i ELSE i + 1]
<1>1. IsFiniteSet(Old)
  <2>1. Len(s) \in Nat
    OBVIOUS
  <2>2. IsFiniteSet(1..Len(s))
    BY <2>1, FS_Interval
  <2>3. QED BY <2>2, FS_Subset
<1>2. f \in Injection(T, Old)
  <2>1. f \in [T -> Old]
    OBVIOUS
  <2>2. \A i, j \in T : f[i] = f[j] => i = j
    OBVIOUS
  <2>3. QED BY <2>1, <2>2 DEF Injection, IsInjective
<1>3. QED BY <1>1, <1>2, FS_Injection

QueueTyped == tickets \in Seq(Requests) /\ turn \in [Requests -> Turn]
QueueInv == QueueTyped /\ NoPlaceLeaked /\ QueueShape

\* What InQueue says of a coroutine that stands at pc with this ticket.
Holds(t) == t.pc \in Holding /\ (t.cancelled => t.pc = "sent")

\* A ticket that leaves: everything else keeps its order.
LEMMA WithoutTicket ==
    ASSUME QueueTyped, QueueShape, NEW r \in Requests, tickets' = Without(r)
    PROVE  /\ tickets' \in Seq(Requests) /\ Len(tickets') <= Len(tickets)
           /\ \A i, j \in 1..Len(tickets') : tickets'[i] = tickets'[j] => i = j
           /\ \A q \in Requests : InQueue(q)' <=> InQueue(q) /\ q # r
           /\ \A q \in Requests \ {r} : InQueue(q) /\ tickets[1] = q => tickets'[1] = q
           /\ \A u : Cardinality(OfUser(u)') <= Cardinality(OfUser(u))
<1> USE DEF QueueTyped, QueueShape
<1>1. CASE ~InQueue(r)
  <2>1. tickets' = tickets
    BY <1>1 DEF Without
  <2>2. \A u : OfUser(u)' = OfUser(u)
    BY <2>1 DEF OfUser
  <2>3. \A u : Cardinality(OfUser(u)) \in Nat
    <3>1. Len(tickets) \in Nat
      OBVIOUS
    <3>2. IsFiniteSet(1..Len(tickets))
      BY <3>1, FS_Interval
    <3>3. \A u : IsFiniteSet(OfUser(u))
      BY <3>2, FS_Subset DEF OfUser
    <3>4. QED BY <3>3, FS_CardinalityType
  <2>4. \A u : Cardinality(OfUser(u)') <= Cardinality(OfUser(u))
    BY <2>2, <2>3
  <2>5. QED BY <1>1, <2>1, <2>4 DEF InQueue
<1>2. CASE InQueue(r)
  <2> DEFINE k == Position(r)
  <2>1. k \in 1..Len(tickets) /\ tickets[k] = r
    BY <1>2 DEF InQueue, Position
  <2> HIDE DEF k
  <2>2. tickets' = RemoveAt(tickets, k)
    BY <1>2 DEF Without, k
  <2>3. /\ tickets' \in Seq(Requests) /\ Len(tickets') = Len(tickets) - 1
        /\ \A i \in 1..Len(tickets) - 1 : tickets'[i] = IF i < k THEN tickets[i] ELSE tickets[i + 1]
    <3> DEFINE rest == RemoveAt(tickets, k)
    <3>1. tickets \in Seq(Requests)
      OBVIOUS
    <3>2. /\ rest \in Seq(Requests) /\ Len(rest) = Len(tickets) - 1
          /\ \A i \in 1..Len(tickets) - 1 : rest[i] = IF i < k THEN tickets[i] ELSE tickets[i + 1]
      BY ONLY <2>1, <3>1, RemoveAtProperties
    <3> HIDE DEF rest
    <3>3. tickets' = rest
      BY <2>2 DEF rest
    <3>4. QED BY <3>2, <3>3
  <2>4. \A u : Cardinality({i \in 1..Len(tickets') : Owner[tickets'[i]] = u})
                 <= Cardinality({i \in 1..Len(tickets) : Owner[tickets[i]] = u})
    <3>1. tickets \in Seq(Requests)
      OBVIOUS
    <3>2. QED BY ONLY <2>1, <2>3, <3>1, OfUserAfterRemoval
  <2>5. \A u : Cardinality(OfUser(u)') <= Cardinality(OfUser(u))
    BY <2>4 DEF OfUser
  <2>6. Len(tickets) \in Nat /\ Len(tickets') \in Nat /\ Len(tickets') <= Len(tickets)
    BY <2>3
  <2>7. ASSUME NEW i \in 1..Len(tickets'), NEW j \in 1..Len(tickets'), tickets'[i] = tickets'[j]
        PROVE  i = j
    <3> DEFINE at(n) == IF n < k THEN n ELSE n + 1
    <3>1. /\ at(i) \in 1..Len(tickets) /\ tickets'[i] = tickets[at(i)]
          /\ at(j) \in 1..Len(tickets) /\ tickets'[j] = tickets[at(j)]
      BY <2>1, <2>3, <2>6
    <3>2. at(i) = at(j)
      BY <2>7, <3>1
    <3>3. QED BY <2>1, <2>6, <3>2
  <2>8. ASSUME NEW q \in Requests, InQueue(q)' PROVE InQueue(q) /\ q # r
    <3>1. PICK i \in 1..Len(tickets') : tickets'[i] = q
      BY <2>8 DEF InQueue
    <3> DEFINE n == IF i < k THEN i ELSE i + 1
    <3>2. n \in 1..Len(tickets) /\ tickets[n] = q /\ n # k
      BY <2>1, <2>3, <2>6, <3>1
    <3>3. QED BY <2>1, <3>2 DEF InQueue
  <2>9. ASSUME NEW q \in Requests, InQueue(q), q # r PROVE InQueue(q)'
    <3>1. PICK i \in 1..Len(tickets) : tickets[i] = q
      BY <2>9 DEF InQueue
    <3>2. i # k
      BY <2>1, <2>9, <3>1
    <3> DEFINE n == IF i < k THEN i ELSE i - 1
    <3>3. n \in 1..Len(tickets') /\ tickets'[n] = q
      BY <2>1, <2>3, <2>6, <3>1, <3>2
    <3>4. QED BY <3>3 DEF InQueue
  <2>10. ASSUME NEW q \in Requests \ {r}, InQueue(q), tickets[1] = q PROVE tickets'[1] = q
    <3>1. k # 1
      BY <2>1, <2>10
    <3>2. 1 < k /\ 1 \in 1..Len(tickets) - 1
      BY <2>1, <2>6, <3>1
    <3>3. QED BY <2>3, <2>10, <3>2
  <2>11. QED BY <2>3, <2>5, <2>6, <2>7, <2>8, <2>9, <2>10
<1>3. QED BY <1>1, <1>2

\* What a step leaves of the other coroutines: their places and their cancellations.
OthersStay(r) ==
    \A q \in Requests \ {r} :
        turn'[q].pc = turn[q].pc /\ turn'[q].cancelled = turn[q].cancelled

\* The queue's invariant holds when a coroutine that no longer holds a place leaves.
LEMMA LeftKeeps ==
    ASSUME QueueInv, NEW r \in Requests, NEW t \in Turn, ~Holds(t), t.pc # "asked", Left(r, t)
    PROVE  QueueInv' /\ turn'[r] = t /\ OthersStay(r)
<1> USE DEF QueueInv, QueueTyped
<1>1. tickets' = Without(r)
  BY DEF Left
<1>2. /\ tickets' \in Seq(Requests) /\ Len(tickets') <= Len(tickets)
      /\ \A i, j \in 1..Len(tickets') : tickets'[i] = tickets'[j] => i = j
      /\ \A q \in Requests : InQueue(q)' <=> InQueue(q) /\ q # r
      /\ \A q \in Requests \ {r} : InQueue(q) /\ tickets[1] = q => tickets'[1] = q
      /\ \A u : Cardinality(OfUser(u)') <= Cardinality(OfUser(u))
  BY <1>1, WithoutTicket
<1>3. \A q \in Requests : turn[q] \in Turn /\ [turn[q] EXCEPT !.changed = TRUE] \in Turn
  BY DEF Turn
<1>4. turn' \in [Requests -> Turn] /\ turn'[r] = t
  BY <1>3 DEF Left
<1>5. OthersStay(r)
  BY <1>3 DEF Left, OthersStay, Turn
<1>6. NoPlaceLeaked'
  <2>1. Len(tickets') <= Capacity
    BY <1>2, ConstantsAssumption DEF NoPlaceLeaked
  <2>2. \A q \in Requests : Cardinality(OfUser(Owner[q])') <= PerUser
    <3>1. \A u : Cardinality(OfUser(u)') \in Nat /\ Cardinality(OfUser(u)) \in Nat
      <4>1. Len(tickets) \in Nat /\ Len(tickets') \in Nat
        BY <1>2
      <4>2. IsFiniteSet(1..Len(tickets)) /\ IsFiniteSet(1..Len(tickets'))
        BY <4>1, FS_Interval
      <4>3. \A u : IsFiniteSet(OfUser(u)) /\ IsFiniteSet(OfUser(u)')
        BY <4>2, FS_Subset DEF OfUser
      <4>4. QED BY <4>3, FS_CardinalityType
    <3>2. PerUser \in Nat
      BY ConstantsAssumption
    <3>3. QED BY <1>2, <3>1, <3>2 DEF NoPlaceLeaked
  <2>3. ASSUME NEW q \in Requests
        PROVE  InQueue(q)' <=> turn'[q].pc \in Holding /\ (turn'[q].cancelled => turn'[q].pc = "sent")
    BY <1>2, <1>4, <1>5 DEF NoPlaceLeaked, Holds, OthersStay, Dispatched
  <2>4. QED BY <2>1, <2>2, <2>3 DEF NoPlaceLeaked, Dispatched
<1>7. QueueShape'
  <2>1. ASSUME NEW q \in Requests, turn'[q].pc \in AtHead, InQueue(q)' PROVE tickets'[1] = q
    BY <1>2, <1>5, <2>1 DEF QueueShape, OthersStay
  <2>2. ASSUME NEW q \in Requests, turn'[q].pc = "asked" PROVE ~turn'[q].cancelled
    BY <1>4, <1>5, <2>2 DEF QueueShape, OthersStay
  <2>3. QED BY <1>2, <2>1, <2>2 DEF QueueShape
<1>8. QED BY <1>2, <1>4, <1>5, <1>6, <1>7

\* It holds when a coroutine goes on with its place, and to the model only as the head.
LEMMA AtKeeps ==
    ASSUME QueueInv, NEW r \in Requests, NEW t \in Turn, Holds(t) <=> Holds(turn[r]),
           t.pc # "asked", t.pc \in AtHead /\ InQueue(r) => tickets[1] = r, At(r, t)
    PROVE  QueueInv' /\ turn'[r] = t /\ OthersStay(r)
<1> USE DEF QueueInv, QueueTyped, At
<1>1. turn' \in [Requests -> Turn] /\ turn'[r] = t /\ \A q \in Requests \ {r} : turn'[q] = turn[q]
  OBVIOUS
<1>2. \A q : InQueue(q)' <=> InQueue(q)
  BY DEF InQueue
<1>3. \A u : OfUser(u)' = OfUser(u)
  BY DEF OfUser
<1>4. NoPlaceLeaked'
  <2>1. ASSUME NEW q \in Requests
        PROVE  InQueue(q)' <=> turn'[q].pc \in Holding /\ (turn'[q].cancelled => turn'[q].pc = "sent")
    BY <1>1, <1>2 DEF NoPlaceLeaked, Holds, Dispatched
  <2>2. QED BY <1>3, <2>1 DEF NoPlaceLeaked, Dispatched
<1>5. QueueShape'
  BY <1>1, <1>2 DEF QueueShape
<1>6. QED BY <1>1, <1>4, <1>5 DEF OthersStay

\* It holds when a question is queued within both limits.
LEMMA AppendKeeps ==
    ASSUME QueueInv, NEW r \in Requests, NEW t \in Turn, turn[r].pc = "asked", ~Full(r),
           Holds(t), t.pc \in AtHead => Len(tickets) = 0,
           tickets' = Append(tickets, r), turn' = [turn EXCEPT ![r] = t]
    PROVE  QueueInv' /\ turn'[r] = t /\ OthersStay(r)
<1> USE DEF QueueInv, QueueTyped
<1> DEFINE n == Len(tickets)
<1>1. /\ tickets' \in Seq(Requests) /\ n \in Nat /\ Len(tickets') = n + 1 /\ tickets'[n + 1] = r
      /\ \A i \in 1..n : tickets'[i] = tickets[i]
  BY AppendProperties
<1>2. turn' \in [Requests -> Turn] /\ turn'[r] = t /\ \A q \in Requests \ {r} : turn'[q] = turn[q]
  OBVIOUS
<1>3. ~InQueue(r)
  BY DEF NoPlaceLeaked, Holding
<1>4. \A q \in Requests : InQueue(q)' <=> InQueue(q) \/ q = r
  <2> SUFFICES ASSUME NEW q \in Requests PROVE InQueue(q)' <=> InQueue(q) \/ q = r
    OBVIOUS
  <2>1. ASSUME NEW i \in 1..n + 1, tickets'[i] = q PROVE InQueue(q) \/ q = r
    BY <1>1, <2>1 DEF InQueue
  <2>2. ASSUME NEW i \in 1..n, tickets[i] = q PROVE i \in 1..n + 1 /\ tickets'[i] = q
    BY <1>1, <2>2
  <2>3. n + 1 \in 1..n + 1
    BY <1>1
  <2>4. QED BY <1>1, <2>1, <2>2, <2>3 DEF InQueue
<1>5. ASSUME NEW u
      PROVE  /\ u = Owner[r] => Cardinality(OfUser(u)') <= PerUser
             /\ u # Owner[r] => OfUser(u)' = OfUser(u)
  <2>1. OfUser(u)' = IF u = Owner[r] THEN OfUser(u) \union {n + 1} ELSE OfUser(u)
    BY <1>1 DEF OfUser
  <2>2. IsFiniteSet(OfUser(u)) /\ n + 1 \notin OfUser(u)
    <3>1. IsFiniteSet(1..n)
      BY <1>1, FS_Interval
    <3>2. QED BY <1>1, <3>1, FS_Subset DEF OfUser
  <2>3. Cardinality(OfUser(u)) \in Nat /\ Cardinality(OfUser(u) \union {n + 1}) = Cardinality(OfUser(u)) + 1
    BY <2>2, FS_AddElement, FS_CardinalityType
  <2>4. ~(Cardinality(OfUser(Owner[r])) >= PerUser) /\ PerUser \in Nat
    BY ConstantsAssumption DEF Full
  <2>5. QED BY <2>1, <2>3, <2>4
<1>6. NoPlaceLeaked'
  <2>1. Len(tickets') <= Capacity
    BY <1>1, ConstantsAssumption DEF Full
  <2>2. \A q \in Requests : Cardinality(OfUser(Owner[q])') <= PerUser
    BY <1>5 DEF NoPlaceLeaked
  <2>3. ASSUME NEW q \in Requests
        PROVE  InQueue(q)' <=> turn'[q].pc \in Holding /\ (turn'[q].cancelled => turn'[q].pc = "sent")
    BY <1>2, <1>4 DEF NoPlaceLeaked, Holds, Dispatched
  <2>4. QED BY <2>1, <2>2, <2>3 DEF NoPlaceLeaked, Dispatched
<1>7. QueueShape'
  <2>1. ASSUME NEW i \in 1..n + 1, NEW j \in 1..n + 1, tickets'[i] = tickets'[j] PROVE i = j
    <3>1. \A m \in 1..n : tickets[m] # r
      BY <1>3 DEF InQueue
    <3>2. QED BY <1>1, <2>1, <3>1 DEF QueueShape
  <2>2. ASSUME NEW q \in Requests, turn'[q].pc \in AtHead, InQueue(q)' PROVE tickets'[1] = q
    <3>1. CASE q = r
      BY <1>1, <1>2, <2>2, <3>1
    <3>2. CASE q # r
      <4>1. InQueue(q) /\ tickets[1] = q
        BY <1>2, <1>4, <2>2, <3>2 DEF QueueShape
      <4>2. 1 \in 1..n
        BY <1>1, <4>1 DEF InQueue
      <4>3. QED BY <1>1, <4>1, <4>2
    <3>3. QED BY <3>1, <3>2
  <2>3. ASSUME NEW q \in Requests, turn'[q].pc = "asked" PROVE ~turn'[q].cancelled
    BY <1>2, <2>3 DEF QueueShape, Holds, Holding
  <2>4. QED BY <1>1, <2>1, <2>2, <2>3 DEF QueueShape
<1>8. QED BY <1>1, <1>2, <1>6, <1>7 DEF OthersStay

-----------------------------------------------------------------------------
(***************************************************************************)
(* The records of a coroutine and of a thread.                             *)
(***************************************************************************)
Away == {"sent", "answered", "over"}

Awaits == Holding \union {"asked", "answered", "over"}

\* A coroutine moves to another await, with or without a change behind it.
LEMMA PlaceForms ==
    ASSUME NEW t \in Turn, NEW pc \in Awaits
    PROVE  /\ [t EXCEPT !.pc = pc] \in Turn
           /\ [t EXCEPT !.pc = pc].pc = pc /\ [t EXCEPT !.pc = pc].cancelled = t.cancelled
           /\ [t EXCEPT !.pc = pc, !.changed = FALSE] \in Turn
           /\ [t EXCEPT !.pc = pc, !.changed = FALSE].pc = pc
           /\ [t EXCEPT !.pc = pc, !.changed = FALSE].cancelled = t.cancelled
BY DEF Turn, Awaits

\* A coroutine gives up its ticket.
LEMMA LeftForms ==
    ASSUME NEW pc \in Awaits
    PROVE  /\ [NoTurn EXCEPT !.pc = pc] \in Turn
           /\ [NoTurn EXCEPT !.pc = pc].pc = pc /\ ~[NoTurn EXCEPT !.pc = pc].cancelled
BY DEF Turn, NoTurn, Awaits

\* The marks others set on a ticket, and the coroutine clears.
LEMMA MarkForms ==
    ASSUME NEW t \in Turn
    PROVE  /\ [t EXCEPT !.changed = FALSE] \in Turn
           /\ [t EXCEPT !.changed = FALSE].pc = t.pc
           /\ [t EXCEPT !.changed = FALSE].cancelled = t.cancelled
           /\ [t EXCEPT !.cancelled = TRUE, !.changed = TRUE] \in Turn
           /\ [t EXCEPT !.cancelled = TRUE, !.changed = TRUE].pc = t.pc
           /\ [t EXCEPT !.cancelled = TRUE, !.changed = TRUE].cancelled
           /\ [t EXCEPT !.cancelled = TRUE] \in Turn
           /\ [t EXCEPT !.cancelled = TRUE].pc = t.pc
           /\ [t EXCEPT !.cancelled = TRUE].cancelled
BY DEF Turn

\* One turn of the loop of slot() ends at one of three awaits, at "authorize" only in
\* front.
LEMMA LoopedForms ==
    ASSUME NEW t \in Turn, NEW p \in Nat
    PROVE  /\ Looped(t, p) \in Turn /\ Looped(t, p).cancelled = t.cancelled
           /\ Looped(t, p).pc \in {"authorize", "wait", "notice"}
           /\ Looped(t, p).pc = "authorize" <=> p = 1
BY DEF Looped, Turn, Holding

\* A thread that is sent out, or admitted, is at its first place.
LEMMA NewJobForms ==
    ASSUME NEW pc \in {"out", "routed"}
    PROVE  /\ [NoJob EXCEPT !.pc = pc] \in Job /\ [NoJob EXCEPT !.pc = pc].pc = pc
           /\ [NoJob EXCEPT !.pc = pc].reply = "none"
           /\ [NoJob EXCEPT !.pc = pc].backend = "server"
BY DEF Job, NoJob

Replies == {"none", "ok", "busy", "error"}

\* A thread that has ended leaves its answer.
LEMMA RepliedForms ==
    ASSUME NEW reply \in Replies
    PROVE  /\ [NoJob EXCEPT !.reply = reply] \in Job
           /\ [NoJob EXCEPT !.reply = reply].pc = "none"
           /\ [NoJob EXCEPT !.reply = reply].reply = reply
BY DEF Job, NoJob, Replies

\* A thread answers and still has its slot.
LEMMA AnswerForms ==
    ASSUME NEW j \in Job, NEW reply \in Replies
    PROVE  /\ [j EXCEPT !.pc = "replied", !.reply = reply] \in Job
           /\ [j EXCEPT !.pc = "replied", !.reply = reply].pc = "replied"
           /\ [j EXCEPT !.pc = "replied", !.reply = reply].reply = reply
BY DEF Job, Replies

\* The answer of a thread is read.
LEMMA ReadForms ==
    ASSUME NEW j \in Job
    PROVE  /\ [j EXCEPT !.reply = "none"] \in Job /\ [j EXCEPT !.reply = "none"].reply = "none"
           /\ [j EXCEPT !.reply = "none"].pc = j.pc
           /\ [j EXCEPT !.reply = "none"].cancelled = j.cancelled
           /\ [j EXCEPT !.reply = "none"].execution = j.execution
           /\ [j EXCEPT !.reply = "none"].backend = j.backend
BY DEF Job

\* A thread is told to stop.
LEMMA StopForms ==
    ASSUME NEW j \in Job
    PROVE  /\ [j EXCEPT !.cancelled = TRUE] \in Job /\ [j EXCEPT !.cancelled = TRUE].cancelled
           /\ [j EXCEPT !.cancelled = TRUE].pc = j.pc
           /\ [j EXCEPT !.cancelled = TRUE].reply = j.reply
           /\ [j EXCEPT !.cancelled = TRUE].execution = j.execution
           /\ [j EXCEPT !.cancelled = TRUE].backend = j.backend
BY DEF Job

-----------------------------------------------------------------------------
(***************************************************************************)
(* The parts of the invariant under the steps of one side.                 *)
(***************************************************************************)
GatewayInv == JobShape /\ OneAtATime /\ NeverReplayed /\ PlaybackKeepsGpu

\* The coroutine that asks the model is that of the first ticket.
HeadAsks == \A r \in Requests : Dispatched(r) => tickets # <<>> /\ tickets[1] = r

\* It is, since its ticket is in the queue and it waits for the model.
LEMMA DispatchedIsHead == QueueInv => HeadAsks
<1> USE DEF HeadAsks
<1> SUFFICES ASSUME QueueInv, NEW r \in Requests, Dispatched(r)
             PROVE  tickets # <<>> /\ tickets[1] = r
  OBVIOUS
<1>1. InQueue(r)
  BY DEF QueueInv, NoPlaceLeaked, Dispatched, Holding
<1>2. tickets[1] = r
  BY <1>1 DEF QueueInv, QueueShape, Dispatched, AtHead
<1>3. QED BY <1>1, <1>2 DEF InQueue

\* A step of a coroutine that leaves the gateway and the buttons alone.
LEMMA BotStep ==
    ASSUME InferenceIInv, QueueInv', NEW r \in Requests, OthersStay(r),
           UNCHANGED <<button, gateway>>, published' \subseteq published \union {r},
           faults' \in Nat,
           turn'[r].pc \notin Away => turn[r].pc \notin Away,
           turn'[r].cancelled => turn[r].cancelled,
           button[r].cancel = "done" /\ turn'[r].pc \in Holding \ {"sent"}
              => turn[r].pc \in Holding \ {"sent"} /\ turn'[r].cancelled = turn[r].cancelled
    PROVE  InferenceIInv'
<1> USE DEF InferenceIInv, InferenceInv
<1>1. TypeOK'
  BY DEF TypeOK, QueueInv, QueueTyped, gateway
<1>2. NoPlaceLeaked' /\ QueueShape'
  BY DEF QueueInv
<1>3. ButtonShape'
  BY DEF ButtonShape, OthersStay
<1>4. JobShape'
  BY DEF JobShape, OthersStay, Away, gateway
<1>5. OneAtATime'
  <2>1. HeadAsks'
    BY DispatchedIsHead, PTL
  <2>2. QED BY <2>1 DEF OneAtATime, HeadAsks, gateway
<1>6. (NeverReplayed /\ PlaybackKeepsGpu)'
  BY DEF NeverReplayed, PlaybackKeepsGpu, gateway
<1>7. CancelShape'
  BY DEF CancelShape, OthersStay, gateway
<1>8. QED BY <1>1, <1>2, <1>3, <1>4, <1>5, <1>6, <1>7

\* A step of the thread of r, which starts at most the one pass of r.
LEMMA ThreadStep ==
    ASSUME InferenceIInv, NEW r \in Requests, job[r].pc # "none", NEW j \in Job, Thread(r, j),
           UNCHANGED <<bot, button, leases, mode, published, faults>>,
           passes' \in [Requests -> Nat], \A q \in Requests \ {r} : passes'[q] = passes[q],
           passes'[r] <= 1, j.pc # "out",
           j.reply = "busy" => j.pc = "none" /\ passes'[r] = 0,
           j.pc \in Unstarted => passes'[r] = 0,
           j.pc \in Unstarted \union {"run"} => j.backend = "server",
           mode = "playback" /\ j.pc \in {"selected", "run"} /\ j.execution = "gpu" => j.cancelled,
           IF j.pc = "none" THEN active' = IF active = r THEN Nobody ELSE active
                            ELSE active \in {r, Nobody} /\ active' = r
    PROVE  InferenceIInv'
<1> USE DEF InferenceIInv, InferenceInv
<1>1. job \in [Requests -> Job] /\ job'[r] = j /\ \A q \in Requests \ {r} : job'[q] = job[q]
  BY DEF TypeOK, Thread
<1>2. turn[r].pc \in Away
  BY DEF JobShape, Away
<1>3. TypeOK'
  BY <1>1 DEF TypeOK, Thread, bot
<1>4. NoPlaceLeaked' /\ QueueShape' /\ ButtonShape'
  BY DEF NoPlaceLeaked, QueueShape, ButtonShape, InQueue, OfUser, Dispatched, bot
<1>5. JobShape'
  BY <1>1, <1>2 DEF JobShape, Away, bot, Unstarted
<1>6. OneAtATime'
  <2>1. \A q \in Requests : job'[q].pc \notin {"none", "out"} <=> active' = q
    <3>1. Nobody \notin Requests
      BY ConstantsAssumption
    <3>2. QED BY <1>1, <3>1 DEF OneAtATime
  <2>2. QED BY <2>1 DEF OneAtATime, Dispatched, bot
<1>7. (NeverReplayed /\ PlaybackKeepsGpu)'
  BY <1>1 DEF NeverReplayed, PlaybackKeepsGpu
<1>8. CancelShape'
  BY <1>1 DEF CancelShape, bot
<1>9. QED BY <1>3, <1>4, <1>5, <1>6, <1>7, <1>8

-----------------------------------------------------------------------------
(***************************************************************************)
(* The steps of a question.                                                *)
(***************************************************************************)

\* A coroutine that gives up its place keeps the invariant.
LEMMA LeaveStep ==
    ASSUME InferenceIInv, NEW r \in Requests, turn[r].pc # "asked",
           NEW pc \in {"over", "answered"}, Leave(r, pc),
           UNCHANGED <<button, gateway, published>>, faults' \in Nat
    PROVE  InferenceIInv'
<1> DEFINE t == [NoTurn EXCEPT !.pc = pc]
<1>1. QueueInv /\ turn[r] \in Turn
  BY DEF InferenceIInv, InferenceInv, QueueInv, QueueTyped, TypeOK
<1>2. t \in Turn /\ t.pc = pc /\ ~t.cancelled
  BY <1>1, LeftForms DEF Awaits
<1>3. Left(r, t)
  BY DEF Leave
<1> HIDE DEF t
<1>4. QueueInv' /\ turn'[r] = t /\ OthersStay(r)
  BY <1>1, <1>2, <1>3, LeftKeeps DEF Holds, Holding
<1>5. QED BY <1>2, <1>4, BotStep DEF Away, Holding

\* A coroutine that keeps its place, and with it its ticket's cancellation, keeps the
\* invariant.
LEMMA StayStep ==
    ASSUME InferenceIInv, NEW r \in Requests, NEW t \in Turn, At(r, t),
           turn[r].pc \in Holding \ {"sent"}, t.pc \in Holding \ {"sent"},
           t.cancelled = turn[r].cancelled,
           t.pc \in AtHead => turn[r].pc \in AtHead \/ tickets[1] = r,
           UNCHANGED <<button, gateway, published, faults>>
    PROVE  InferenceIInv'
<1>1. QueueInv /\ turn[r] \in Turn /\ faults \in Nat
  BY DEF InferenceIInv, InferenceInv, QueueInv, QueueTyped, TypeOK
<1>2. QueueInv' /\ turn'[r] = t /\ OthersStay(r)
  BY <1>1, AtKeeps DEF Holds, Holding, QueueInv, QueueShape
<1>3. QED BY <1>1, <1>2, BotStep DEF Away, Holding

\* One turn of the loop of slot(), from an await of the queue.
LEMMA LoopStep ==
    ASSUME InferenceIInv, NEW r \in Requests, turn[r].pc \in {"notice", "wait"},
           ~turn[r].cancelled, NEW t \in {turn[r], [turn[r] EXCEPT !.changed = FALSE]}, Loop(r, t),
           UNCHANGED <<button, gateway, published, faults>>
    PROVE  InferenceIInv'
<1>1. turn[r] \in Turn /\ tickets \in Seq(Requests) /\ faults \in Nat
  BY DEF InferenceIInv, InferenceInv, TypeOK
<1>2. t \in Turn /\ t.pc = turn[r].pc /\ t.cancelled = turn[r].cancelled
  BY <1>1, MarkForms
<1>3. InQueue(r)
  BY DEF InferenceIInv, InferenceInv, NoPlaceLeaked, Holding
<1>4. Position(r) \in 1..Len(tickets) /\ tickets[Position(r)] = r
  BY <1>3 DEF InQueue, Position
<1> DEFINE p == Position(r)
           next == Looped(t, p)
<1>5. p \in Nat
  BY <1>1, <1>4
<1>6. /\ next \in Turn /\ next.cancelled = t.cancelled
      /\ next.pc \in {"authorize", "wait", "notice"} /\ (next.pc = "authorize" <=> p = 1)
  BY <1>2, <1>5, LoopedForms
<1>7. Leave(r, "over") \/ At(r, next)
  BY DEF Loop
<1>8. p = 1 => tickets[1] = r
  BY <1>4
<1> HIDE DEF next, p
<1>9. CASE Leave(r, "over")
  BY <1>1, <1>9, LeaveStep
<1>10. CASE At(r, next)
  BY <1>2, <1>6, <1>8, <1>10, StayStep DEF Holding, AtHead
<1>11. QED BY <1>7, <1>9, <1>10

\* A question enters the queue, or is refused.
LEMMA EnterStep == ASSUME InferenceIInv, NEW r \in Requests, Enter(r) PROVE InferenceIInv'
<1> USE DEF Enter
<1>1. /\ QueueInv /\ turn[r] \in Turn /\ tickets \in Seq(Requests) /\ faults \in Nat
      /\ turn[r].pc = "asked" /\ ~turn[r].cancelled
  BY DEF InferenceIInv, InferenceInv, QueueInv, QueueTyped, TypeOK, QueueShape
<1>2. CASE At(r, [turn[r] EXCEPT !.pc = "over"])
  <2> DEFINE t == [turn[r] EXCEPT !.pc = "over"]
  <2>1. t \in Turn /\ t.pc = "over" /\ ~t.cancelled
    BY <1>1, PlaceForms DEF Awaits, Holding
  <2> HIDE DEF t
  <2>2. At(r, t)
    BY <1>2 DEF t
  <2>3. QueueInv' /\ turn'[r] = t /\ OthersStay(r)
    BY <1>1, <2>1, <2>2, AtKeeps DEF Holds, Holding, AtHead
  <2>4. QED BY <1>1, <2>1, <2>3, BotStep DEF Away, Holding
<1>3. CASE /\ ~button[r].asked /\ ~Full(r) /\ tickets' = Append(tickets, r)
           /\ turn' = [turn EXCEPT ![r] = Looped(@, Len(tickets) + 1)]
  <2> DEFINE p == Len(tickets) + 1
             t == Looped(turn[r], p)
  <2>1. p \in Nat /\ (p = 1 => Len(tickets) = 0)
    BY <1>1
  <2> HIDE DEF p
  <2>2. /\ t \in Turn /\ ~t.cancelled /\ t.pc \in {"authorize", "wait", "notice"}
        /\ t.pc = "authorize" <=> p = 1
    BY <1>1, <2>1, LoopedForms
  <2>3. turn' = [turn EXCEPT ![r] = t]
    BY <1>3 DEF p
  <2> HIDE DEF t
  <2>4. QueueInv' /\ turn'[r] = t /\ OthersStay(r)
    BY <1>1, <1>3, <2>1, <2>2, <2>3, AppendKeeps DEF Holds, Holding, AtHead
  <2>5. button[r].cancel # "done"
    BY <1>3 DEF InferenceIInv, ButtonShape
  <2>6. QED BY <1>1, <2>2, <2>4, <2>5, BotStep DEF Away, Holding
<1>4. QED BY <1>2, <1>3

\* An await of the queue, or before the question is sent, is over.
LEMMA AwaitStep ==
    ASSUME InferenceIInv, NEW r \in Requests,
           \/ Noticed(r) \/ Wake(r) \/ Expire(r) \/ Authorize(r) \/ Busied(r) \/ Retry(r)
    PROVE  InferenceIInv'
<1>1. turn[r] \in Turn /\ faults \in Nat
  BY DEF InferenceIInv, InferenceInv, TypeOK
<1>2. ASSUME Leave(r, "over"), turn[r].pc # "asked",
             UNCHANGED <<button, gateway, published, faults>>
      PROVE  InferenceIInv'
  BY <1>1, <1>2, LeaveStep
<1>3. CASE Noticed(r)
  <2> DEFINE t == [turn[r] EXCEPT !.pc = "wait", !.changed = FALSE]
  <2>1. t \in Turn /\ t.pc = "wait" /\ t.cancelled = turn[r].cancelled
    BY <1>1, PlaceForms DEF Awaits, Holding
  <2> HIDE DEF t
  <2>2. ASSUME At(r, t) PROVE InferenceIInv'
    BY <1>3, <2>1, <2>2, StayStep DEF Noticed, Holding, AtHead
  <2>3. ASSUME Loop(r, [turn[r] EXCEPT !.changed = FALSE]), ~turn[r].cancelled PROVE InferenceIInv'
    BY <1>3, <2>3, LoopStep DEF Noticed
  <2>4. QED BY <1>2, <1>3, <2>2, <2>3 DEF Noticed, Shown, t
<1>4. CASE Wake(r)
  <2>1. ASSUME Loop(r, turn[r]), ~turn[r].cancelled PROVE InferenceIInv'
    BY <1>4, <2>1, LoopStep DEF Wake
  <2>2. QED BY <1>2, <1>4, <2>1 DEF Wake
<1>5. CASE Expire(r)
  BY <1>2, <1>5 DEF Expire
<1>6. ASSUME NEW pc \in Holding \ {"sent"}, At(r, [turn[r] EXCEPT !.pc = pc]),
             turn[r].pc \in AtHead \ {"sent"}, UNCHANGED <<button, gateway, published, faults>>
      PROVE  InferenceIInv'
  <2> DEFINE t == [turn[r] EXCEPT !.pc = pc]
  <2>1. t \in Turn /\ t.pc = pc /\ t.cancelled = turn[r].cancelled
    BY <1>1, PlaceForms DEF Awaits
  <2>2. At(r, t)
    BY <1>6
  <2> HIDE DEF t
  <2>3. QED BY <1>6, <2>1, <2>2, StayStep DEF Holding, AtHead
<1>7. CASE Authorize(r)
  BY <1>2, <1>6, <1>7 DEF Authorize, Holding, AtHead
<1>8. CASE Busied(r)
  <2> DEFINE t == [turn[r] EXCEPT !.pc = "retry", !.changed = FALSE]
  <2>1. t \in Turn /\ t.pc = "retry" /\ t.cancelled = turn[r].cancelled
    BY <1>1, PlaceForms DEF Awaits, Holding
  <2> HIDE DEF t
  <2>2. ASSUME At(r, t) PROVE InferenceIInv'
    BY <1>8, <2>1, <2>2, StayStep DEF Busied, Holding, AtHead
  <2>3. QED BY <1>2, <1>8, <2>2 DEF Busied, t
<1>9. CASE Retry(r)
  BY <1>2, <1>6, <1>9 DEF Retry, Holding, AtHead
<1>10. QED BY <1>3, <1>4, <1>5, <1>7, <1>8, <1>9

\* The question goes to the gateway or its answer comes back: the coroutine moves, and
\* the gateway's job of it with it.
LEMMA ExchangeStep ==
    ASSUME InferenceIInv, QueueInv', NEW r \in Requests, OthersStay(r), NEW j \in Job, Thread(r, j),
           UNCHANGED <<button, active, leases, mode, passes, published, faults>>,
           turn'[r].cancelled => turn[r].cancelled,
           j.pc \in {"none", "out"} <=> job[r].pc \in {"none", "out"},
           turn'[r].pc \notin Away => j.pc = "none" /\ j.reply = "none" /\ passes[r] = 0,
           j.reply # "busy",
           j.pc \in Unstarted => passes[r] = 0,
           j.pc \in Unstarted \union {"run"} => j.backend = "server",
           mode = "playback" /\ j.pc \in {"selected", "run"} /\ j.execution = "gpu" => j.cancelled,
           button[r].cancel = "done" /\ j.pc = "out" => r \in leases,
           button[r].cancel = "done" => turn'[r].pc \notin Holding \ {"sent"}
    PROVE  InferenceIInv'
<1> USE DEF InferenceIInv, InferenceInv
<1>1. job \in [Requests -> Job] /\ job'[r] = j /\ \A q \in Requests \ {r} : job'[q] = job[q]
  BY DEF TypeOK, Thread
<1>2. TypeOK'
  BY <1>1 DEF TypeOK, Thread, QueueInv, QueueTyped
<1>3. NoPlaceLeaked' /\ QueueShape'
  BY DEF QueueInv
<1>4. ButtonShape'
  BY DEF ButtonShape, OthersStay
<1>5. JobShape'
  BY <1>1 DEF JobShape, OthersStay, Away, Unstarted
<1>6. OneAtATime'
  <2>1. HeadAsks'
    BY DispatchedIsHead, PTL
  <2>2. \A q \in Requests : job'[q].pc \notin {"none", "out"} <=> active' = q
    BY <1>1 DEF OneAtATime
  <2>3. QED BY <2>1, <2>2 DEF OneAtATime, HeadAsks
<1>7. (NeverReplayed /\ PlaybackKeepsGpu)'
  BY <1>1 DEF NeverReplayed, PlaybackKeepsGpu
<1>8. CancelShape'
  BY <1>1 DEF CancelShape, OthersStay
<1>9. QED BY <1>2, <1>3, <1>4, <1>5, <1>6, <1>7, <1>8

\* The question is sent, unless it was cancelled while its card was edited.
LEMMA DispatchStep == ASSUME InferenceIInv, NEW r \in Requests, Dispatch(r) PROVE InferenceIInv'
<1>1. /\ QueueInv /\ turn[r] \in Turn /\ faults \in Nat /\ turn[r].pc = "model"
      /\ job[r].pc = "none" /\ passes[r] = 0
  BY DEF InferenceIInv, InferenceInv, QueueInv, QueueTyped, TypeOK, Dispatch, JobShape
<1>2. CASE turn[r].cancelled
  BY <1>1, <1>2, LeaveStep DEF Dispatch, Withdrawn, gateway
<1>3. CASE ~turn[r].cancelled
  <2> DEFINE t == [turn[r] EXCEPT !.pc = "sent"]
             j == [NoJob EXCEPT !.pc = "out"]
  <2>1. t \in Turn /\ t.pc = "sent" /\ ~t.cancelled
    BY <1>1, <1>3, PlaceForms DEF Awaits, Holding
  <2>2. j \in Job /\ j.pc = "out" /\ j.reply = "none" /\ j.backend = "server"
    BY NewJobForms
  <2>3. At(r, t) /\ Thread(r, j)
    BY <1>1, <1>3 DEF Dispatch, Withdrawn, Thread
  <2> HIDE DEF t, j
  <2>4. QueueInv' /\ turn'[r] = t /\ OthersStay(r)
    BY <1>1, <1>3, <2>1, <2>3, AtKeeps DEF Holds, Holding, AtHead, QueueInv, QueueShape
  <2>5. button[r].cancel = "done" => r \in leases
    BY <1>1, <1>3 DEF InferenceIInv, CancelShape, Holding
  <2>6. UNCHANGED <<button, active, leases, mode, passes, published, faults>>
    BY DEF Dispatch
  <2>7. QED BY <1>1, <2>1, <2>2, <2>3, <2>4, <2>5, <2>6, ExchangeStep DEF Away
<1>4. QED BY <1>2, <1>3

\* The answer comes: the place is given up, or kept for another try.
LEMMA ReceiveStep == ASSUME InferenceIInv, NEW r \in Requests, Receive(r) PROVE InferenceIInv'
<1>1. /\ QueueInv /\ turn[r] \in Turn /\ job[r] \in Job /\ turn[r].pc = "sent"
      /\ job[r].reply = "busy" => job[r].pc = "none" /\ passes[r] = 0
      /\ job[r].pc \in Unstarted => passes[r] = 0
      /\ job[r].pc \in Unstarted \union {"run"} => job[r].backend = "server"
      /\ mode = "playback" /\ job[r].pc \in {"selected", "run"} /\ job[r].execution = "gpu"
            => job[r].cancelled
      /\ button[r].cancel = "done" => button[r].asked /\ (job[r].pc = "out" => r \in leases)
      /\ turn[r].cancelled => button[r].asked
  BY DEF InferenceIInv, InferenceInv, QueueInv, QueueTyped, TypeOK, Receive, JobShape,
         PlaybackKeepsGpu, CancelShape, ButtonShape
<1> DEFINE j == [job[r] EXCEPT !.reply = "none"]
<1>2. /\ j \in Job /\ j.reply = "none" /\ j.pc = job[r].pc /\ j.cancelled = job[r].cancelled
      /\ j.execution = job[r].execution /\ j.backend = job[r].backend
  BY <1>1, ReadForms
<1>3. Thread(r, j) /\ UNCHANGED <<button, active, leases, mode, passes, published, faults>>
  BY DEF Receive, Thread
<1>4. \/ \E pc \in {"answered", "over"} : Leave(r, pc)
      \/ /\ job[r].reply = "busy" /\ ~button[r].asked
         /\ At(r, [turn[r] EXCEPT !.pc = "busy"])
  BY DEF Receive, Retried
<1> HIDE DEF j
<1>5. ASSUME NEW pc \in {"answered", "over"}, Leave(r, pc) PROVE InferenceIInv'
  <2> DEFINE t == [NoTurn EXCEPT !.pc = pc]
  <2>1. t \in Turn /\ t.pc = pc /\ ~t.cancelled
    BY LeftForms DEF Awaits
  <2>2. Left(r, t)
    BY <1>5 DEF Leave
  <2> HIDE DEF t
  <2>3. QueueInv' /\ turn'[r] = t /\ OthersStay(r)
    BY <1>1, <2>1, <2>2, LeftKeeps DEF Holds, Holding
  <2>4. QED BY <1>1, <1>2, <1>3, <2>1, <2>3, ExchangeStep DEF Away, Holding
<1>6. CASE job[r].reply = "busy" /\ ~button[r].asked /\ At(r, [turn[r] EXCEPT !.pc = "busy"])
  <2> DEFINE t == [turn[r] EXCEPT !.pc = "busy"]
  <2>1. t \in Turn /\ t.pc = "busy" /\ t.cancelled = turn[r].cancelled
    BY <1>1, PlaceForms DEF Awaits, Holding
  <2>2. At(r, t)
    BY <1>6
  <2> HIDE DEF t
  <2>3. QueueInv' /\ turn'[r] = t /\ OthersStay(r)
    BY <1>1, <1>6, <2>1, <2>2, AtKeeps DEF Holds, Holding, AtHead, QueueInv, QueueShape
  <2>4. QED BY <1>1, <1>2, <1>3, <1>6, <2>1, <2>3, ExchangeStep
<1>7. QED BY <1>4, <1>5, <1>6

\* A connection that breaks abandons the thread; an answer is shown or discarded.
LEMMA EndStep ==
    ASSUME InferenceIInv, NEW r \in Requests, Lose(r) \/ Publish(r) PROVE InferenceIInv'
<1>1. QueueInv /\ turn[r] \in Turn /\ faults \in Nat
  BY DEF InferenceIInv, InferenceInv, QueueInv, QueueTyped, TypeOK
<1>2. CASE Lose(r)
  BY <1>1, <1>2, LeaveStep DEF Lose, Fault
<1>3. CASE Publish(r)
  <2> DEFINE t == [turn[r] EXCEPT !.pc = "over"]
  <2>1. t \in Turn /\ t.pc = "over" /\ t.cancelled = turn[r].cancelled
    BY <1>1, PlaceForms DEF Awaits, Holding
  <2>2. /\ At(r, t) /\ turn[r].pc = "answered" /\ UNCHANGED <<button, gateway, faults>>
        /\ published' \subseteq published \union {r}
    BY <1>3 DEF Publish
  <2> HIDE DEF t
  <2>3. QueueInv' /\ turn'[r] = t /\ OthersStay(r)
    BY <1>1, <2>1, <2>2, AtKeeps DEF Holds, Holding, AtHead
  <2>4. QED BY <1>1, <2>1, <2>2, <2>3, BotStep DEF Away, Holding
<1>4. QED BY <1>2, <1>3

-----------------------------------------------------------------------------
(***************************************************************************)
(* The steps of Cancel generation.                                         *)
(***************************************************************************)

\* A step that changes the button of r, and leaves the gateway alone.
LEMMA ButtonStep ==
    ASSUME InferenceIInv, QueueInv', NEW r \in Requests, OthersStay(r),
           NEW b \in Button, Pressed(r, b), b.asked, turn'[r].pc = turn[r].pc,
           UNCHANGED <<gateway, published>>, faults' \in Nat,
           b.cancel = "done" => turn[r].pc \notin Away /\ (turn'[r].cancelled \/ turn[r].pc = "asked")
    PROVE  InferenceIInv'
<1> USE DEF InferenceIInv, InferenceInv
<1>1. button \in [Requests -> Button] /\ button'[r] = b /\ \A q \in Requests \ {r} : button'[q] = button[q]
  BY DEF TypeOK, Pressed
<1>2. TypeOK'
  BY <1>1 DEF TypeOK, QueueInv, QueueTyped, gateway, Pressed
<1>3. NoPlaceLeaked' /\ QueueShape'
  BY DEF QueueInv
<1>4. ButtonShape'
  BY <1>1 DEF ButtonShape, OthersStay
<1>5. JobShape'
  BY DEF JobShape, OthersStay, gateway
<1>6. OneAtATime'
  <2>1. HeadAsks'
    BY DispatchedIsHead, PTL
  <2>2. QED BY <2>1 DEF OneAtATime, HeadAsks, gateway
<1>7. (NeverReplayed /\ PlaybackKeepsGpu)'
  BY DEF NeverReplayed, PlaybackKeepsGpu, gateway
<1>8. CancelShape'
  <2>1. ASSUME b.cancel = "done" PROVE job[r].pc # "out"
    BY <2>1 DEF JobShape, Away
  <2>2. QED BY <1>1, <2>1 DEF CancelShape, OthersStay, gateway, Holding
<1>9. QED BY <1>2, <1>3, <1>4, <1>5, <1>6, <1>7, <1>8

\* The user presses Cancel, and Discord has the acknowledgement.
LEMMA CancelStep ==
    ASSUME InferenceIInv, NEW r \in Requests, PressCancel(r) \/ CancelAcked(r)
    PROVE  InferenceIInv'
<1>1. /\ QueueInv /\ turn \in [Requests -> Turn] /\ turn[r] \in Turn /\ button[r] \in Button
      /\ faults \in Nat /\ (button[r].cancel = "ack" => button[r].asked)
  BY DEF InferenceIInv, InferenceInv, QueueInv, QueueTyped, TypeOK, ButtonShape
<1>2. \A c \in {"no", "ack", "post", "done"} :
         /\ [button[r] EXCEPT !.cancel = c] \in Button
         /\ [button[r] EXCEPT !.cancel = c].asked = button[r].asked
         /\ [button[r] EXCEPT !.cancel = c].cancel = c
  BY <1>1 DEF Button
<1>3. UNCHANGED bot => QueueInv' /\ OthersStay(r) /\ turn' = turn
  BY <1>1 DEF QueueInv, QueueTyped, NoPlaceLeaked, QueueShape, InQueue, OfUser, Dispatched, bot,
              OthersStay
<1>4. CASE PressCancel(r)
  <2> DEFINE b == [button[r] EXCEPT !.asked = TRUE, !.cancel = "ack"]
  <2>1. b \in Button /\ b.asked /\ b.cancel = "ack"
    BY <1>1 DEF Button
  <2>2. Pressed(r, b) /\ UNCHANGED <<bot, gateway, published, faults>>
    BY <1>4 DEF PressCancel
  <2> HIDE DEF b
  <2>3. QED BY <1>1, <1>3, <2>1, <2>2, ButtonStep
<1>5. CASE CancelAcked(r)
  <2> DEFINE B(c) == [button[r] EXCEPT !.cancel = c]
  <2>1. /\ UNCHANGED <<gateway, published>> /\ faults' \in Nat
        /\ button[r].cancel = "ack" /\ button[r].asked
    BY <1>1, <1>5 DEF CancelAcked, Fault, NoFault
  <2>2. \A c \in {"no", "ack", "post", "done"} : B(c) \in Button /\ B(c).asked /\ B(c).cancel = c
    BY <1>2, <2>1
  <2>3. \/ \E c \in {"no", "done"} : /\ UNCHANGED bot /\ Pressed(r, B(c))
                                     /\ c = "done" => turn[r].pc = "asked"
        \/ /\ InQueue(r) /\ ~Dispatched(r) /\ Pressed(r, B("done"))
           /\ Left(r, [turn[r] EXCEPT !.cancelled = TRUE, !.changed = TRUE])
        \/ /\ ~InQueue(r) \/ Dispatched(r)
           /\ turn[r].pc \notin {"asked", "over"} /\ Pressed(r, B("post"))
           /\ At(r, IF InQueue(r) THEN [turn[r] EXCEPT !.cancelled = TRUE] ELSE turn[r])
    BY <1>5 DEF CancelAcked
  <2> HIDE DEF B
  <2>4. ASSUME NEW c \in {"no", "done"}, UNCHANGED bot, Pressed(r, B(c)),
               c = "done" => turn[r].pc = "asked"
        PROVE  InferenceIInv'
    BY <1>3, <2>1, <2>2, <2>4, ButtonStep DEF Away
  <2>5. ASSUME InQueue(r), ~Dispatched(r), Pressed(r, B("done")),
               Left(r, [turn[r] EXCEPT !.cancelled = TRUE, !.changed = TRUE])
        PROVE  InferenceIInv'
    <3> DEFINE t == [turn[r] EXCEPT !.cancelled = TRUE, !.changed = TRUE]
    <3>1. t \in Turn /\ t.pc = turn[r].pc /\ t.cancelled
      BY <1>1, MarkForms
    <3>2. Left(r, t)
      BY <2>5
    <3> HIDE DEF t
    <3>3. turn[r].pc \in Holding \ {"sent"}
      BY <1>1, <2>5 DEF QueueInv, NoPlaceLeaked, Dispatched
    <3>4. QueueInv' /\ turn'[r] = t /\ OthersStay(r)
      BY <1>1, <3>1, <3>2, <3>3, LeftKeeps DEF Holds, Holding
    <3>5. QED BY <2>1, <2>2, <2>5, <3>1, <3>3, <3>4, ButtonStep DEF Away, Holding
  <2>6. ASSUME turn[r].pc \notin {"asked", "over"}, Pressed(r, B("post")),
               ~InQueue(r) \/ Dispatched(r),
               At(r, IF InQueue(r) THEN [turn[r] EXCEPT !.cancelled = TRUE] ELSE turn[r])
        PROVE  InferenceIInv'
    <3> DEFINE t == IF InQueue(r) THEN [turn[r] EXCEPT !.cancelled = TRUE] ELSE turn[r]
    <3>1. t \in Turn /\ t.pc = turn[r].pc /\ (~InQueue(r) => t = turn[r])
      BY <1>1, MarkForms
    <3>2. At(r, t)
      BY <2>6
    <3> HIDE DEF t
    <3>3. InQueue(r) => turn[r].pc = "sent"
      BY <2>6 DEF Dispatched
    <3>4. Holds(t) <=> Holds(turn[r])
      BY <1>1, <3>1, <3>3 DEF Holds, Holding, QueueInv, NoPlaceLeaked
    <3>5. QueueInv' /\ turn'[r] = t /\ OthersStay(r)
      BY <1>1, <2>6, <3>1, <3>2, <3>4, AtKeeps DEF QueueInv, QueueShape
    <3>6. QED BY <2>1, <2>2, <2>6, <3>1, <3>5, ButtonStep
  <2>7. QED BY <2>3, <2>4, <2>5, <2>6
<1>6. QED BY <1>4, <1>5

\* Every job is as it was, or has been told to stop.
ToldToStop ==
    \A q \in Requests : job'[q] \in {job[q], [job[q] EXCEPT !.cancelled = TRUE]}

\* Telling threads to stop keeps what is said of them, whatever is leased besides.
LEMMA ToldStep ==
    ASSUME InferenceIInv, ToldToStop, job' \in [Requests -> Job],
           UNCHANGED <<bot, active, mode, passes, published>>, faults' \in Nat,
           leases \subseteq leases', leases' \subseteq Requests,
           button' \in [Requests -> Button],
           \A q \in Requests :
               /\ button'[q].asked = button[q].asked
               /\ button'[q].cancel # "no" => button[q].cancel # "no"
               /\ button'[q].cancel = "done" => button[q].cancel = "done" \/ q \in leases'
    PROVE  InferenceIInv'
<1> USE DEF InferenceIInv, InferenceInv
<1>1. \A q \in Requests :
         /\ job'[q].pc = job[q].pc /\ job'[q].reply = job[q].reply
         /\ job'[q].execution = job[q].execution /\ job'[q].backend = job[q].backend
         /\ job[q].cancelled => job'[q].cancelled
  <2> SUFFICES ASSUME NEW q \in Requests
               PROVE  /\ job'[q].pc = job[q].pc /\ job'[q].reply = job[q].reply
                      /\ job'[q].execution = job[q].execution /\ job'[q].backend = job[q].backend
                      /\ job[q].cancelled => job'[q].cancelled
    OBVIOUS
  <2>1. job[q] \in Job
    BY DEF TypeOK
  <2> DEFINE j == [job[q] EXCEPT !.cancelled = TRUE]
  <2>2. /\ j.pc = job[q].pc /\ j.reply = job[q].reply /\ j.cancelled
        /\ j.execution = job[q].execution /\ j.backend = job[q].backend
    BY <2>1, StopForms
  <2>3. job'[q] = job[q] \/ job'[q] = j
    BY DEF ToldToStop
  <2> HIDE DEF j
  <2>4. QED BY <2>2, <2>3
<1>2. TypeOK'
  BY DEF TypeOK, bot
<1>3. NoPlaceLeaked' /\ QueueShape'
  BY DEF NoPlaceLeaked, QueueShape, InQueue, OfUser, Dispatched, bot
<1>4. ButtonShape'
  BY DEF ButtonShape, bot
<1>5. JobShape'
  BY <1>1 DEF JobShape, bot
<1>6. OneAtATime'
  BY <1>1 DEF OneAtATime, Dispatched, bot
<1>7. (NeverReplayed /\ PlaybackKeepsGpu)'
  BY <1>1 DEF NeverReplayed, PlaybackKeepsGpu
<1>8. CancelShape'
  BY <1>1 DEF CancelShape, bot
<1>9. QED BY <1>2, <1>3, <1>4, <1>5, <1>6, <1>7, <1>8

\* The gateway is told of a cancellation, and the bot hears of it or not.
LEMMA GatewayCancelStep ==
    ASSUME InferenceIInv, NEW r \in Requests, GatewayCancel(r) PROVE InferenceIInv'
<1>1. /\ job \in [Requests -> Job] /\ button \in [Requests -> Button] /\ faults \in Nat
      /\ leases \subseteq Requests
  BY DEF InferenceIInv, InferenceInv, TypeOK
<1>2. ToldToStop /\ job' \in [Requests -> Job]
  <2>1. job' = job \/ job' = [job EXCEPT ![r].cancelled = TRUE]
    BY DEF GatewayCancel, Cancelled
  <2>2. \A q \in Requests : [job[q] EXCEPT !.cancelled = TRUE] \in Job
    BY <1>1, StopForms
  <2>3. QED BY <1>1, <2>1, <2>2 DEF ToldToStop
<1>3. leases' \in {leases, leases \union {r}}
  BY DEF GatewayCancel, Cancelled
<1>4. PICK c \in {"done", "no"} : /\ Pressed(r, [button[r] EXCEPT !.cancel = c])
                                  /\ c = "done" => r \in leases'
  BY DEF GatewayCancel, Cancelled
<1>5. /\ UNCHANGED <<bot, active, mode, passes, published>> /\ faults' \in Nat
      /\ button[r].cancel = "post"
  BY <1>1 DEF GatewayCancel, Fault, NoFault
<1>6. /\ button' \in [Requests -> Button]
      /\ \A q \in Requests :
            /\ button'[q].asked = button[q].asked
            /\ button'[q].cancel # "no" => button[q].cancel # "no"
            /\ button'[q].cancel = "done" => button[q].cancel = "done" \/ q \in leases'
  BY <1>1, <1>4, <1>5 DEF Pressed, Button
<1>7. QED BY <1>1, <1>2, <1>3, <1>5, <1>6, ToldStep

-----------------------------------------------------------------------------
(***************************************************************************)
(* The steps of the gateway.                                               *)
(***************************************************************************)

\* The thread answers before its slot is free.
LEMMA AnswerStep ==
    ASSUME InferenceIInv, NEW r \in Requests, job[r].pc \notin {"none", "out"},
           NEW reply \in {"ok", "error"}, Answer(r, reply),
           UNCHANGED <<bot, button, active, leases, mode, passes, published, faults>>
    PROVE  InferenceIInv'
<1> DEFINE j == [job[r] EXCEPT !.pc = "replied", !.reply = reply]
<1>1. job[r] \in Job /\ passes \in [Requests -> Nat] /\ active = r /\ passes[r] <= 1
  BY DEF InferenceIInv, InferenceInv, TypeOK, OneAtATime, NeverReplayed
<1>2. j \in Job /\ j.pc = "replied" /\ j.reply = reply
  <2>1. reply \in Replies
    BY DEF Replies
  <2>2. QED BY <1>1, <2>1, AnswerForms
<1>3. Thread(r, j)
  BY DEF Answer
<1> HIDE DEF j
<1>4. QED BY <1>1, <1>2, <1>3, ThreadStep DEF Unstarted

\* The job is refused, or admitted as the one that is active.
LEMMA AdmitStep == ASSUME InferenceIInv, NEW r \in Requests, Admit(r) PROVE InferenceIInv'
<1>1. /\ passes \in [Requests -> Nat] /\ passes[r] = 0 /\ job[r].pc = "out" /\ active # r
      /\ active \in Requests \union {Nobody}
  BY DEF InferenceIInv, InferenceInv, TypeOK, OneAtATime, JobShape, Admit, Unstarted
<1>2. ASSUME NEW reply \in {"error", "busy"}, Thread(r, [NoJob EXCEPT !.reply = reply]),
             UNCHANGED active
      PROVE  InferenceIInv'
  <2> DEFINE j == [NoJob EXCEPT !.reply = reply]
  <2>1. j \in Job /\ j.pc = "none" /\ j.reply = reply
    BY RepliedForms DEF Replies
  <2>2. Thread(r, j)
    BY <1>2
  <2> HIDE DEF j
  <2>3. QED BY <1>1, <1>2, <2>1, <2>2, ThreadStep DEF Admit, Unstarted
<1>3. ASSUME Thread(r, [NoJob EXCEPT !.pc = "routed"]), active = Nobody, active' = r
      PROVE  InferenceIInv'
  <2> DEFINE j == [NoJob EXCEPT !.pc = "routed"]
  <2>1. j \in Job /\ j.pc = "routed" /\ j.reply = "none" /\ j.backend = "server"
    BY NewJobForms
  <2>2. Thread(r, j)
    BY <1>3
  <2> HIDE DEF j
  <2>3. QED BY <1>1, <1>3, <2>1, <2>2, ThreadStep DEF Admit, Unstarted
<1>4. QED BY <1>2, <1>3 DEF Admit

\* The thread goes on to its next place.
LEMMA RouteStep ==
    ASSUME InferenceIInv, NEW r \in Requests, Route(r) \/ Forward(r) \/ EndForward(r)
    PROVE  InferenceIInv'
<1>1. /\ job[r] \in Job /\ passes \in [Requests -> Nat] /\ active = r
      /\ job[r].pc \in {"routed", "desktop", "forward"} /\ job[r].reply # "busy"
      /\ job[r].pc # "forward" => passes[r] = 0 /\ job[r].backend = "server"
  BY DEF InferenceIInv, InferenceInv, TypeOK, OneAtATime, JobShape, Unstarted,
         Route, Forward, EndForward
<1>2. ASSUME NEW reply \in {"ok", "error"}, Answer(r, reply), UNCHANGED passes
      PROVE  InferenceIInv'
  BY <1>1, <1>2, AnswerStep DEF Route, Forward, EndForward
<1>3. ASSUME NEW pc \in {"desktop", "select"}, Thread(r, [job[r] EXCEPT !.pc = pc]), Route(r)
      PROVE  InferenceIInv'
  <2> DEFINE j == [job[r] EXCEPT !.pc = pc]
  <2>1. j \in Job /\ j.pc = pc /\ j.reply = job[r].reply /\ j.backend = job[r].backend
    BY <1>1 DEF Job
  <2>2. Thread(r, j)
    BY <1>3
  <2> HIDE DEF j
  <2>3. QED BY <1>1, <1>3, <2>1, <2>2, ThreadStep DEF Route, Unstarted
<1>4. ASSUME Thread(r, [job[r] EXCEPT !.pc = "forward", !.backend = "desktop"]), Started(r),
             Forward(r)
      PROVE  InferenceIInv'
  <2> DEFINE j == [job[r] EXCEPT !.pc = "forward", !.backend = "desktop"]
  <2>1. j \in Job /\ j.pc = "forward" /\ j.reply = job[r].reply
    BY <1>1 DEF Job
  <2>2. Thread(r, j) /\ job[r].pc = "desktop"
    BY <1>4 DEF Forward
  <2>3. /\ passes' \in [Requests -> Nat] /\ passes'[r] = 1
        /\ \A q \in Requests \ {r} : passes'[q] = passes[q]
    BY <1>1, <1>4, <2>2 DEF Started
  <2> HIDE DEF j
  <2>4. QED BY <1>1, <1>4, <2>1, <2>2, <2>3, ThreadStep DEF Forward, Unstarted
<1>5. QED BY <1>1, <1>2, <1>3, <1>4 DEF Route, Forward, EndForward, Forwarded

\* The server's pass: the runtime is selected, asked once, watched and ended.
LEMMA PassStep ==
    ASSUME InferenceIInv, NEW r \in Requests,
           \/ Select(r) \/ StartPass(r) \/ Guard(r) \/ EndPass(r) \/ Free(r)
    PROVE  InferenceIInv'
<1>1. /\ job[r] \in Job /\ passes \in [Requests -> Nat] /\ active = r /\ passes[r] <= 1
      /\ job[r].pc \in {"select", "selected", "run", "replied"} /\ job[r].reply # "busy"
      /\ job[r].pc \in {"select", "selected"} => passes[r] = 0
      /\ job[r].pc # "replied" => job[r].backend = "server"
      /\ mode = "playback" /\ job[r].pc \in {"selected", "run"} /\ job[r].execution = "gpu"
            => job[r].cancelled
  BY DEF InferenceIInv, InferenceInv, TypeOK, OneAtATime, NeverReplayed, PlaybackKeepsGpu,
         JobShape, Unstarted, Select, StartPass, Guard, EndPass, Free
<1>2. ASSUME NEW reply \in {"ok", "error"}, Answer(r, reply), UNCHANGED <<active, passes>>,
             UNCHANGED <<bot, button, leases, mode, published, faults>>
      PROVE  InferenceIInv'
  BY <1>1, <1>2, AnswerStep
<1>3. ASSUME NEW execution \in Execution, Select(r),
             Thread(r, [job[r] EXCEPT !.pc = "selected", !.execution = execution])
      PROVE  InferenceIInv'
  <2> DEFINE j == [job[r] EXCEPT !.pc = "selected", !.execution = execution]
  <2>1. execution \in {"gpu", "cpu"} /\ (mode = "playback" => execution = "cpu")
    BY DEF Execution
  <2>2. /\ j \in Job /\ j.pc = "selected" /\ j.execution = execution /\ j.reply = job[r].reply
        /\ j.backend = job[r].backend
    BY <1>1, <2>1 DEF Job
  <2>3. Thread(r, j) /\ job[r].pc = "select"
    BY <1>3 DEF Select
  <2> HIDE DEF j
  <2>4. QED BY <1>1, <1>3, <2>1, <2>2, <2>3, ThreadStep DEF Select, Unstarted
<1>4. ASSUME StartPass(r), ~job[r].cancelled, Thread(r, [job[r] EXCEPT !.pc = "run"]), Started(r)
      PROVE  InferenceIInv'
  <2> DEFINE j == [job[r] EXCEPT !.pc = "run"]
  <2>1. /\ j \in Job /\ j.pc = "run" /\ j.reply = job[r].reply /\ j.backend = job[r].backend
        /\ j.execution = job[r].execution /\ j.cancelled = job[r].cancelled
    BY <1>1 DEF Job
  <2>2. Thread(r, j) /\ job[r].pc = "selected"
    BY <1>4 DEF StartPass
  <2>3. /\ passes' \in [Requests -> Nat] /\ passes'[r] = 1
        /\ \A q \in Requests \ {r} : passes'[q] = passes[q]
    BY <1>1, <1>4, <2>2 DEF Started
  <2> HIDE DEF j
  <2>4. QED BY <1>1, <1>4, <2>1, <2>2, <2>3, ThreadStep DEF StartPass, Unstarted
<1>5. ASSUME Guard(r) PROVE InferenceIInv'
  <2> DEFINE j == [job[r] EXCEPT !.cancelled = TRUE]
  <2>1. /\ j \in Job /\ j.cancelled /\ j.pc = job[r].pc /\ j.reply = job[r].reply
        /\ j.backend = job[r].backend
    BY <1>1, StopForms
  <2>2. Thread(r, j) /\ job[r].pc = "run"
    BY <1>5 DEF Guard
  <2> HIDE DEF j
  <2>3. QED BY <1>1, <1>5, <2>1, <2>2, ThreadStep DEF Guard, Unstarted
<1>6. ASSUME Free(r) PROVE InferenceIInv'
  <2> DEFINE j == [NoJob EXCEPT !.reply = job[r].reply]
  <2>1. j \in Job /\ j.pc = "none" /\ j.reply = job[r].reply
    <3>1. job[r].reply \in Replies
      BY <1>1 DEF Job, Replies
    <3>2. QED BY <3>1, RepliedForms
  <2>2. Thread(r, j)
    BY <1>6 DEF Free
  <2> HIDE DEF j
  <2>3. QED BY <1>1, <1>6, <2>1, <2>2, ThreadStep DEF Free, Unstarted
<1>7. QED BY <1>2, <1>3, <1>4, <1>5, <1>6 DEF Select, StartPass, EndPass

\* The server mode is switched: a thread that chose the GPU is told to stop.
LEMMA ModeStep ==
    ASSUME InferenceIInv, NEW enabled \in BOOLEAN, SetQuality(enabled) PROVE InferenceIInv'
<1> USE DEF InferenceIInv, InferenceInv
<1>1. job \in [Requests -> Job] /\ faults' \in Nat
  BY DEF TypeOK, SetQuality, Fault
<1>2. mode' \in Modes
  BY DEF SetQuality, Modes
<1>3. \A q \in Requests : [job[q] EXCEPT !.cancelled = TRUE] \in Job
  BY <1>1, StopForms
<1>4. job' \in [Requests -> Job] /\ ToldToStop
  BY <1>1, <1>3 DEF SetQuality, ToldToStop
<1>5. \A q \in Requests :
         /\ job'[q].pc = job[q].pc /\ job'[q].reply = job[q].reply
         /\ job'[q].execution = job[q].execution /\ job'[q].backend = job[q].backend
         /\ job[q].cancelled => job'[q].cancelled
  <2> SUFFICES ASSUME NEW q \in Requests
               PROVE  /\ job'[q].pc = job[q].pc /\ job'[q].reply = job[q].reply
                      /\ job'[q].execution = job[q].execution /\ job'[q].backend = job[q].backend
                      /\ job[q].cancelled => job'[q].cancelled
    OBVIOUS
  <2> DEFINE j == [job[q] EXCEPT !.cancelled = TRUE]
  <2>1. /\ j.pc = job[q].pc /\ j.reply = job[q].reply /\ j.cancelled
        /\ j.execution = job[q].execution /\ j.backend = job[q].backend
    BY <1>1, StopForms
  <2>2. job'[q] = job[q] \/ job'[q] = j
    BY <1>4 DEF ToldToStop
  <2> HIDE DEF j
  <2>3. QED BY <2>1, <2>2
<1>6. ASSUME NEW q \in Requests, mode' = "playback", job[q].pc \in {"selected", "run"},
             job[q].execution = "gpu"
      PROVE  job'[q].cancelled
  <2>1. active = q /\ job[q].backend = "server" /\ active # Nobody
    BY <1>6, ConstantsAssumption DEF OneAtATime, JobShape, Unstarted
  <2>2. q \in Interrupted
    BY <1>6, <2>1 DEF Interrupted
  <2>3. job'[q] = [job[q] EXCEPT !.cancelled = TRUE]
    BY <1>6, <2>2 DEF SetQuality
  <2>4. QED BY <1>1, <2>3, StopForms
<1>7. UNCHANGED <<bot, button, active, leases, passes, published>>
  BY DEF SetQuality
<1>8. TypeOK'
  BY <1>1, <1>2, <1>4, <1>7 DEF TypeOK, bot
<1>9. NoPlaceLeaked' /\ QueueShape' /\ ButtonShape'
  BY <1>7 DEF NoPlaceLeaked, QueueShape, ButtonShape, InQueue, OfUser, Dispatched, bot
<1>10. JobShape'
  BY <1>5, <1>6, <1>7 DEF JobShape, bot
<1>11. OneAtATime'
  BY <1>5, <1>7 DEF OneAtATime, Dispatched, bot
<1>12. (NeverReplayed /\ PlaybackKeepsGpu)'
  BY <1>5, <1>6, <1>7 DEF NeverReplayed, PlaybackKeepsGpu
<1>13. CancelShape'
  BY <1>5, <1>7 DEF CancelShape, bot
<1>14. QED BY <1>8, <1>9, <1>10, <1>11, <1>12, <1>13

-----------------------------------------------------------------------------
(***************************************************************************)
(* The theorems.                                                           *)
(***************************************************************************)

\* The queue, the buttons and the gateway start well.
LEMMA StartsWell == Init => InferenceIInv
<1> SUFFICES ASSUME Init PROVE InferenceIInv
  OBVIOUS
<1>1. NoTurn \in Turn /\ NoTurn.pc = "asked" /\ ~NoTurn.cancelled
  BY DEF NoTurn, Turn
<1>2. NoButton \in Button /\ NoButton.cancel = "no"
  BY DEF NoButton, Button
<1>3. NoJob \in Job /\ NoJob.pc = "none" /\ NoJob.reply = "none"
  BY DEF NoJob, Job
<1>4. TypeOK
  BY <1>1, <1>2, <1>3 DEF Init, TypeOK, Modes
<1>5. NoPlaceLeaked
  <2>1. Len(tickets) = 0 /\ \A u : OfUser(u) = {}
    BY DEF Init, OfUser
  <2>2. \A r \in Requests : ~InQueue(r) /\ turn[r].pc = "asked"
    BY <1>1, <2>1 DEF Init, InQueue
  <2>3. Capacity \in Nat /\ PerUser \in Nat /\ Cardinality({}) = 0
    BY FS_EmptySet, ConstantsAssumption
  <2>4. Len(tickets) <= Capacity /\ \A r \in Requests : Cardinality(OfUser(Owner[r])) <= PerUser
    BY <2>1, <2>3
  <2>5. QED BY <2>2, <2>4 DEF NoPlaceLeaked, Holding
<1>6. QueueShape /\ ButtonShape /\ CancelShape
  BY <1>1, <1>2 DEF Init, QueueShape, ButtonShape, CancelShape, AtHead
<1>7. OneAtATime /\ NeverReplayed /\ PlaybackKeepsGpu /\ JobShape
  BY <1>1, <1>3, ConstantsAssumption
     DEF Init, OneAtATime, Dispatched, NeverReplayed, PlaybackKeepsGpu, JobShape, Unstarted
<1>8. QED BY <1>4, <1>5, <1>6, <1>7 DEF InferenceIInv, InferenceInv

\* Every step keeps the inductive invariant.
LEMMA InferenceStep == InferenceIInv /\ [Next]_vars => InferenceIInv'
<1> SUFFICES ASSUME InferenceIInv, [Next]_vars PROVE InferenceIInv'
  OBVIOUS
<1>1. CASE UNCHANGED vars
  BY <1>1 DEF vars, InferenceIInv, InferenceInv, TypeOK, NoPlaceLeaked, OneAtATime, NeverReplayed,
     PlaybackKeepsGpu, QueueShape, ButtonShape, JobShape, CancelShape, InQueue, OfUser, Dispatched
<1>2. CASE \E r \in Requests : \/ User(r) \/ Coroutine(r) \/ Controls(r) \/ GatewayThread(r)
                               \/ Expire(r) \/ Lose(r)
  BY <1>2, EnterStep, AwaitStep, DispatchStep, ReceiveStep, EndStep, CancelStep,
     GatewayCancelStep, AdmitStep, RouteStep, PassStep
     DEF User, Coroutine, Controls, GatewayThread
<1>3. CASE \E enabled \in BOOLEAN : SetQuality(enabled)
  BY <1>3, ModeStep
<1>4. QED BY <1>1, <1>2, <1>3 DEF Next

\* Every reachable state satisfies it.
THEOREM InferenceInvariance == Spec => []InferenceIInv
BY StartsWell, InferenceStep, PTL DEF Spec

\* No place in the queue is leaked and its limits hold, the model is asked one question
\* at a time in the order of the queue, no question is given to a runtime twice, and no
\* pass goes on with the GPU that was promised to playback.
THEOREM InferenceHolds == Spec => []InferenceInv
BY InferenceInvariance, PTL DEF InferenceIInv

\* A cancellation that was accepted is final: the gateway admits no question whose
\* cancellation is done, and no answer of it is shown.
THEOREM CancellationIsFinal == Spec => CancelWins
<1> DEFINE Wins == \A r \in Requests : button[r].cancel = "done" =>
                       /\ active' = r => active = r
                       /\ r \in published' => r \in published
<1>1. InferenceIInv /\ [Next]_vars => Wins
  <2> SUFFICES ASSUME InferenceIInv, [Next]_vars, NEW r \in Requests, button[r].cancel = "done"
               PROVE  (active' = r => active = r) /\ (r \in published' => r \in published)
    OBVIOUS
  <2>1. button[r].asked /\ (job[r].pc = "out" => r \in leases) /\ r # Nobody
    BY ConstantsAssumption DEF InferenceIInv, ButtonShape, CancelShape
  <2>2. ASSUME NEW q \in Requests, Admit(q) PROVE active' \in {active, q} /\ (q = r => active' = active)
    BY <2>1, <2>2 DEF Admit, Refused
  <2>3. ASSUME NEW q \in Requests, Publish(q)
        PROVE  published' \subseteq published \union {q} /\ (q = r => published' = published)
    BY <2>1, <2>3 DEF Publish
  <2>4. active' \in {active, Nobody} \/ \E q \in Requests : Admit(q)
    BY DEF Next, vars, User, Coroutine, Controls, GatewayThread, Enter, Noticed, Wake, Authorize,
       Dispatch, Receive, Busied, Retry, Publish, CancelAcked, GatewayCancel, Route, Forward,
       EndForward, Select, StartPass, Guard, EndPass, Free, Expire, Lose, PressCancel, SetQuality,
       gateway
  <2>5. published' = published \/ \E q \in Requests : Publish(q)
    BY DEF Next, vars, User, Coroutine, Controls, GatewayThread, Enter, Noticed, Wake, Authorize,
       Dispatch, Receive, Busied, Retry, CancelAcked, GatewayCancel, Admit, Route, Forward,
       EndForward, Select, StartPass, Guard, EndPass, Free, Expire, Lose, PressCancel, SetQuality
  <2>6. QED BY <2>1, <2>2, <2>3, <2>4, <2>5
<1>2. QED BY InferenceInvariance, <1>1, PTL DEF Spec, CancelWins

=============================================================================
