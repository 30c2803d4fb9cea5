------------------------ MODULE OfflineDeliveryProofs ------------------------
(* That the connection table is never confused by superseded sessions and  *)
(* that no request is delivered twice, for any number of sessions,         *)
(* requests, outages and restarts.                                         *)
EXTENDS OfflineDelivery, TLAPS, FiniteSetTheorems

\* The part of the state the argument is about, with its types.
table == <<phase, live, current, newest>>

\* The inductive invariant.  Each half needs the other: the table points at
\* the newest session only if no older one can register over it unseen, and
\* register closes the right socket only if the table points at it.
TableInv ==
    /\ phase \in [Sessions -> Phases]
    /\ live \subseteq Sessions
    /\ current \in Sessions \cup {None}
    /\ newest \in Sessions \cup {None}
    /\ CurrentIsNewest
    /\ OneLiveSession

\* Actions of dispatch requests and of Redis leave the table alone.
LEMMA TableFrame ==
    ASSUME TableInv, UNCHANGED table
    PROVE  TableInv'
BY DEF TableInv, table, CurrentIsNewest, OneLiveSession, Running

\* A handler that stays in its loop (drain reads, deletes, sends) changes
\* only its own phase, between two phases in which it runs.
LEMMA TableDrains ==
    ASSUME TableInv, NEW s \in Sessions, Running(s),
           NEW p \in {"read", "sending", "open"},
           phase' = [phase EXCEPT ![s] = p],
           UNCHANGED <<live, current, newest>>
    PROVE  TableInv'
<1>1. phase' \in [Sessions -> Phases]
  BY DEF TableInv, Phases
<1>2. \A t \in Sessions : Running(t)' <=> Running(t)
  BY DEF TableInv, Running
<1>3. newest # None => newest \in Sessions
  BY DEF TableInv
<1>4. CurrentIsNewest'
  BY <1>2, <1>3 DEF TableInv, CurrentIsNewest
<1>5. OneLiveSession'
  BY <1>2 DEF TableInv, OneLiveSession
<1> QED
  BY <1>1, <1>4, <1>5 DEF TableInv

LEMMA TableRegister ==
    ASSUME TableInv, NEW s \in Sessions, Register(s)
    PROVE  TableInv'
<1>1. phase' \in [Sessions -> Phases] /\ live' \subseteq Sessions /\ current' = s /\ newest' = s
  BY DEF TableInv, Register, Phases
<1>2. CurrentIsNewest'
  BY <1>1 DEF CurrentIsNewest
<1>3. OneLiveSession'
  <2> SUFFICES ASSUME NEW t \in Sessions, Running(t)', t \in live', t # s
               PROVE  FALSE
    BY <1>1 DEF OneLiveSession
  <2>1. Running(t) /\ t \in live /\ t # current
    BY DEF TableInv, Register, Running
  <2>2. t = newest /\ newest # None
    BY <2>1, DeliveryAssumption DEF TableInv, OneLiveSession
  <2>3. current = newest
    BY <2>1, <2>2 DEF TableInv, CurrentIsNewest
  <2> QED
    BY <2>1, <2>2, <2>3
<1> QED
  BY <1>1, <1>2, <1>3 DEF TableInv

LEMMA TableUnregister ==
    ASSUME TableInv, NEW s \in Sessions, Unregister(s)
    PROVE  TableInv'
<1>1. /\ phase' = [phase EXCEPT ![s] = "closed"]
      /\ current' = IF current = s THEN None ELSE current
      /\ live' = live /\ newest' = newest
  BY DEF Unregister
<1>2. phase' \in [Sessions -> Phases] /\ current' \in Sessions \cup {None}
  BY <1>1 DEF TableInv, Phases
<1>3. \A t \in Sessions : Running(t)' => Running(t) /\ t # s
  BY <1>1 DEF TableInv, Running
<1>4. CurrentIsNewest'
  <2>1. newest # None /\ Running(newest)' => current' = newest
    BY <1>1, <1>3 DEF TableInv, CurrentIsNewest
  <2>2. current' # None => current' = newest
    BY <1>1 DEF TableInv, CurrentIsNewest
  <2> QED
    BY <1>1, <2>1, <2>2 DEF CurrentIsNewest
<1>5. OneLiveSession'
  BY <1>1, <1>3 DEF TableInv, OneLiveSession
<1> QED
  BY <1>1, <1>2, <1>4, <1>5 DEF TableInv

LEMMA TableRestart ==
    ASSUME TableInv, Restart
    PROVE  TableInv'
<1>1. \A t \in Sessions : phase'[t] \in {"new", "closed"}
  BY DEF Restart
<1>2. phase' \in [Sessions -> Phases]
  BY DEF Restart, Phases
<1>3. \A t \in Sessions : ~Running(t)'
  BY <1>1 DEF Running
<1>4. live' \subseteq Sessions /\ current' = None /\ newest' = newest
  BY DEF Restart, TableInv
<1>5. CurrentIsNewest'
  BY <1>3, <1>4 DEF TableInv, CurrentIsNewest
<1>6. OneLiveSession'
  BY <1>3 DEF OneLiveSession
<1> QED
  BY <1>2, <1>4, <1>5, <1>6 DEF TableInv

LEMMA TableStep == TableInv /\ [Next]_vars => TableInv'
<1> SUFFICES ASSUME TableInv, [Next]_vars PROVE TableInv'
  OBVIOUS
<1>1. CASE UNCHANGED vars
  BY <1>1, TableFrame DEF vars, session, table
<1>2. ASSUME NEW s \in Sessions, Register(s) PROVE TableInv'
  BY <1>2, TableRegister
<1>3. ASSUME NEW s \in Sessions, DrainRead(s) PROVE TableInv'
  <2> DEFINE p == IF store[Answering] = <<>> THEN "open" ELSE "read"
  <2>1. /\ Running(s) /\ phase' = [phase EXCEPT ![s] = p]
        /\ UNCHANGED <<live, current, newest>>
    BY <1>3 DEF DrainRead, Running
  <2>2. p \in {"read", "sending", "open"}
    OBVIOUS
  <2> HIDE DEF p
  <2> QED
    BY <2>1, <2>2, TableDrains
<1>4. ASSUME NEW s \in Sessions, DrainDelete(s) PROVE TableInv'
  <2> DEFINE p == IF Unexpired(batch[s]) = <<>> THEN "open" ELSE "sending"
  <2>1. /\ Running(s) /\ phase' = [phase EXCEPT ![s] = p]
        /\ UNCHANGED <<live, current, newest>>
    BY <1>4 DEF DrainDelete, DrainTo, Running
  <2>2. p \in {"read", "sending", "open"}
    OBVIOUS
  <2> HIDE DEF p
  <2> QED
    BY <2>1, <2>2, TableDrains
<1>5. ASSUME NEW s \in Sessions, DrainSend(s) PROVE TableInv'
  <2> DEFINE p == IF Len(batch[s]) = 1 THEN "open" ELSE "sending"
  <2>1. /\ Running(s) /\ phase' = [phase EXCEPT ![s] = p]
        /\ UNCHANGED <<live, current, newest>>
    BY <1>5 DEF DrainSend, Running
  <2>2. p \in {"read", "sending", "open"}
    OBVIOUS
  <2> HIDE DEF p
  <2> QED
    BY <2>1, <2>2, TableDrains
<1>6. ASSUME NEW s \in Sessions, PeerGone(s) PROVE TableInv'
  BY <1>6 DEF PeerGone, TableInv, CurrentIsNewest, OneLiveSession, Running
<1>7. ASSUME NEW s \in Sessions, Unregister(s) PROVE TableInv'
  BY <1>7, TableUnregister
<1>8. ASSUME NEW r \in Requests,
             \/ DispatchSends(r) \/ DispatchQueues(r) \/ EnqueueLlen(r)
             \/ EnqueueLpop(r) \/ EnqueueRpush(r) \/ TtlPasses(r)
      PROVE  TableInv'
  <2>1. UNCHANGED table
    BY <1>8 DEF DispatchSends, DispatchQueues, EnqueueLlen, EnqueueLpop, EnqueueRpush,
                TtlPasses, session, table
  <2> QED
    BY <2>1, TableFrame
<1>9. CASE Outage \/ Recovery
  BY <1>9, TableFrame DEF Outage, Recovery, session, table
<1>10. CASE Restart
  BY <1>10, TableRestart
<1> QED
  BY <1>1, <1>2, <1>3, <1>4, <1>5, <1>6, <1>7, <1>8, <1>9, <1>10 DEF Next

\* In every behaviour the connection table and the sockets agree on who the
\* device's session is (ConnectionManager.register and unregister).
THEOREM TableInvariance == Spec => []TableInv
<1>1. Init => TableInv
  BY DeliveryAssumption DEF Init, TableInv, Phases, CurrentIsNewest, OneLiveSession, Running
<1> QED
  BY <1>1, TableStep, PTL DEF Spec

\* The late unregister of a superseded session never removes its successor,
\* however many sessions follow each other (CurrentIsNewest).
THEOREM TableIsCurrent == Spec => []CurrentIsNewest
<1>1. TableInv => CurrentIsNewest
  BY DEF TableInv
<1> QED
  BY <1>1, TableInvariance, PTL

\* At most one session of the device can be written to, and it is the one
\* registered last (OneLiveSession).
THEOREM OnlyNewestIsLive == Spec => []OneLiveSession
<1>1. TableInv => OneLiveSession
  BY DEF TableInv
<1> QED
  BY <1>1, TableInvariance, PTL

-----------------------------------------------------------------------------
(* Delivery: where a request can still come from.                          *)

\* No list holds a request twice, only queued requests are in a list, and a
\* handler that sends has something to send.
NoRepeats(q) == \A i, j \in DOMAIN q : q[i] = q[j] => i = j
ListInv ==
    /\ \A k \in Stores : NoRepeats(store[k])
    /\ \A s \in Sessions : NoRepeats(batch[s])
    /\ \A r \in Requests : request[r] # "queued" =>
          /\ \A k \in Stores : ~In(r, store[k])
          /\ \A s \in Sessions : ~In(r, batch[s])
    /\ \A s \in Sessions : phase[s] = "sending" => batch[s] # <<>>

\* A delivery of r is still to come from the request itself, from a list (also
\* when a live handler has read it and not yet deleted it), or from a live
\* handler that sends.
Pending(r) == request[r] \in {"new", "llen", "lpop", "rpush"}
Held(k, r) ==
    \/ In(r, store[k])
    \/ \E s \in Sessions \cap live : phase[s] = "read" /\ source[s] = k /\ In(r, batch[s])
Active(r) == \E s \in Sessions \cap live : phase[s] = "sending" /\ In(r, batch[s])

\* Deliveries made and to come; a list read by two handlers is one source,
\* which is what makes the bound inductive.
One(b) == IF b THEN 1 ELSE 0
Units(r) ==
    delivered[r] + One(Held("redis", r)) + One(Held("memory", r)) + One(Active(r)) + One(Pending(r))
UnitInv == \A r \in Requests : Units(r) <= 1 + copies

DeliveryInv == TypeOK /\ TableInv /\ ListInv /\ UnitInv


\* The n-th smallest member exists: the rank of a member among the members
\* is injective, and there are as many ranks as members.
RankIn(K, i) == Cardinality({j \in K : j <= i})
LEMMA NthIsMember ==
    ASSUME NEW m \in Nat, NEW K \in SUBSET (1 .. m)
    PROVE  /\ Cardinality(K) \in Nat
           /\ \A n \in 1 .. Cardinality(K) : Nth(K, n) \in K /\ RankIn(K, Nth(K, n)) = n
<1> DEFINE Below(i) == {j \in K : j <= i}
           Rank == [i \in K |-> RankIn(K, i)]
           N == Cardinality(K)
<1>1. IsFiniteSet(K) /\ N \in Nat
  <2>1. IsFiniteSet(1 .. m)
    BY FS_Interval
  <2>2. IsFiniteSet(K)
    BY <2>1, FS_Subset, Zenon
  <2> QED BY <2>2, FS_CardinalityType
<1>2. \A i \in K : IsFiniteSet(Below(i)) /\ RankIn(K, i) \in 1 .. N
  <2> TAKE i \in K
  <2>1. Below(i) \subseteq K /\ i \in Below(i)
    BY DEF Below
  <2>2. IsFiniteSet(Below(i)) /\ Cardinality(Below(i)) <= N
    BY <1>1, <2>1, FS_Subset
  <2>3. Cardinality(Below(i)) \in Nat /\ Cardinality(Below(i)) # 0
    BY <2>1, <2>2, FS_CardinalityType, FS_EmptySet
  <2> QED BY <1>1, <2>2, <2>3 DEF RankIn
<1>3. ASSUME NEW i \in K, NEW j \in K, i < j PROVE RankIn(K, i) # RankIn(K, j)
  <2>0. \A a \in K : a \in Int
    OBVIOUS
  <2>1. Below(i) \in SUBSET Below(j) /\ j \in Below(j) /\ j \notin Below(i)
    <3>1. i \in Int /\ j \in Int /\ \A a \in Int : a <= i => a <= j
      BY <1>3, <2>0
    <3>2. ~(j <= i) /\ j <= j
      BY <1>3, <2>0
    <3> QED BY <2>0, <3>1, <3>2, Zenon
  <2>2. IsFiniteSet(Below(j))
    BY <1>2
  <2> HIDE DEF Below
  <2>3. Cardinality(Below(i)) # Cardinality(Below(j))
    BY <2>1, <2>2, FS_Subset
  <2> QED BY <2>3 DEF Below, RankIn
<1>4. Rank \in Injection(K, 1 .. N)
  <2>1. Rank \in [K -> 1 .. N]
    <3> HIDE DEF N
    <3> QED BY <1>2, Zenon
  <2>2. \A i, j \in K : Rank[i] = Rank[j] => i = j
    <3> TAKE i, j \in K
    <3>1. i \in Int /\ j \in Int /\ Rank[i] = RankIn(K, i) /\ Rank[j] = RankIn(K, j)
      OBVIOUS
    <3>2. i < j \/ j < i \/ i = j
      BY <3>1
    <3>3. i < j => RankIn(K, i) # RankIn(K, j)
      BY <1>3, Zenon
    <3>4. j < i => RankIn(K, j) # RankIn(K, i)
      BY <1>3, Zenon
    <3> HIDE DEF Rank
    <3> QED BY <3>1, <3>2, <3>3, <3>4, Zenon
  <2> HIDE DEF Rank
  <2> QED BY <2>1, <2>2 DEF Injection, IsInjective
<1>5. IsFiniteSet(1 .. N) /\ Cardinality(1 .. N) = N
  BY <1>1, FS_Interval
<1>6. Rank \in Surjection(K, 1 .. N)
  <2> HIDE DEF Rank
  <2> QED BY <1>1, <1>4, <1>5, FS_Injection DEF Bijection, ExistsInjection
<1>7. ASSUME NEW n \in 1 .. N PROVE \E i \in K : RankIn(K, i) = n
  <2>1. PICK i \in K : Rank[i] = n
    <3> HIDE DEF Rank
    <3> QED BY <1>6, <1>7 DEF Surjection
  <2> QED BY <2>1
<1>8. \A n : Nth(K, n) = CHOOSE i \in K : RankIn(K, i) = n
  BY DEF Nth, RankIn
<1> HIDE DEF Rank, Below
<1> QED BY <1>1, <1>7, <1>8

\* What is left of a list without repeats is one, with members of that list.
LEMMA KeptIsList ==
    ASSUME NEW S, NEW q \in Seq(S), NEW K \in SUBSET DOMAIN q
    PROVE  /\ Kept(q, K) \in Seq(S)
           /\ \A r : In(r, Kept(q, K)) => In(r, q)
           /\ NoRepeats(q) => NoRepeats(Kept(q, K))
<1> DEFINE N == Cardinality(K)
           f == Kept(q, K)
<1>1. Len(q) \in Nat /\ DOMAIN q = 1 .. Len(q)
  OBVIOUS
<1>2. N \in Nat /\ \A n \in 1 .. N : Nth(K, n) \in K /\ RankIn(K, Nth(K, n)) = n
  <2>1. K \in SUBSET (1 .. Len(q))
    BY <1>1
  <2> QED BY <1>1, <2>1, NthIsMember, Zenon
<1>3. DOMAIN f = 1 .. N /\ \A n \in 1 .. N : f[n] = q[Nth(K, n)]
  BY DEF Kept
<1>4. \A n \in 1 .. N : f[n] \in S /\ Nth(K, n) \in DOMAIN q
  BY <1>1, <1>2, <1>3
<1>5. f \in Seq(S)
  <2>1. f = [n \in 1 .. N |-> f[n]]
    BY <1>3 DEF Kept
  <2>2. f \in [1 .. N -> S]
    BY <1>4, <2>1
  <2> HIDE DEF f
  <2> QED BY <1>2, <2>2
<1>6. \A r : In(r, f) => In(r, q)
  <2> HIDE DEF f
  <2> QED BY <1>3, <1>4 DEF In
<1>7. NoRepeats(q) => NoRepeats(f)
  <2> SUFFICES ASSUME NoRepeats(q), NEW a \in 1 .. N, NEW b \in 1 .. N, f[a] = f[b]
               PROVE  a = b
    BY <1>3 DEF NoRepeats
  <2>1. Nth(K, a) = Nth(K, b)
    BY <1>3, <1>4 DEF NoRepeats
  <2> QED BY <1>2, <2>1
<1> QED BY <1>5, <1>6, <1>7

\* lpop
LEMMA TailIsList ==
    ASSUME NEW S, NEW q \in Seq(S), q # <<>>
    PROVE  /\ Head(q) \in S /\ Tail(q) \in Seq(S) /\ Len(Tail(q)) = Len(q) - 1
           /\ In(Head(q), q)
           /\ \A r : In(r, Tail(q)) => In(r, q)
           /\ NoRepeats(q) => NoRepeats(Tail(q)) /\ ~In(Head(q), Tail(q))
<1>1. /\ DOMAIN q = 1 .. Len(q) /\ Len(q) \in Nat \ {0} /\ Head(q) = q[1]
      /\ Head(q) \in S /\ Tail(q) \in Seq(S)
      /\ Len(Tail(q)) = Len(q) - 1 /\ DOMAIN Tail(q) = 1 .. Len(q) - 1
      /\ \A i \in 1 .. Len(q) - 1 : Tail(q)[i] = q[i + 1]
  OBVIOUS
<1> HIDE DEF In
<1>2. In(Head(q), q)
  BY <1>1 DEF In
<1>3. \A r : In(r, Tail(q)) => In(r, q)
  BY <1>1 DEF In
<1>4. NoRepeats(q) => NoRepeats(Tail(q)) /\ ~In(Head(q), Tail(q))
  BY <1>1 DEF In, NoRepeats
<1> QED BY <1>1, <1>2, <1>3, <1>4

\* rpush
LEMMA AppendIsList ==
    ASSUME NEW S, NEW q \in Seq(S), NEW e \in S
    PROVE  /\ Append(q, e) \in Seq(S)
           /\ \A r : In(r, Append(q, e)) => r = e \/ In(r, q)
           /\ NoRepeats(q) /\ ~In(e, q) => NoRepeats(Append(q, e))
<1>1. /\ DOMAIN q = 1 .. Len(q) /\ Len(q) \in Nat
      /\ Append(q, e) \in Seq(S) /\ DOMAIN Append(q, e) = 1 .. Len(q) + 1
      /\ \A i \in 1 .. Len(q) : Append(q, e)[i] = q[i]
      /\ Append(q, e)[Len(q) + 1] = e
  OBVIOUS
<1>2. \A r : In(r, Append(q, e)) => r = e \/ In(r, q)
  BY <1>1 DEF In
<1>3. NoRepeats(q) /\ ~In(e, q) => NoRepeats(Append(q, e))
  BY <1>1 DEF In, NoRepeats
<1> QED BY <1>1, <1>2, <1>3

LEMMA EmptyIsList ==
    ASSUME NEW S
    PROVE  <<>> \in Seq(S) /\ NoRepeats(<<>>) /\ \A r : ~In(r, <<>>)
BY DEF NoRepeats, In


-----------------------------------------------------------------------------
(* What a step does to the lists in the stores and to the batches.         *)

\* A list in a store only gets shorter, but for the request that rpush adds.
LEMMA StoreStep ==
    ASSUME TypeOK, ListInv, [Next]_vars
    PROVE  /\ store' \in [Stores -> Lists]
           /\ \A k \in Stores : NoRepeats(store'[k])
           /\ \A k \in Stores, r \in Requests :
                 In(r, store'[k]) => In(r, store[k]) \/ EnqueueRpush(r)
<1> DEFINE Good == /\ store' \in [Stores -> Lists]
                   /\ \A k \in Stores : NoRepeats(store'[k])
                   /\ \A k \in Stores, r \in Requests :
                         In(r, store'[k]) => In(r, store[k]) \/ EnqueueRpush(r)
<1>0. store \in [Stores -> Lists] /\ \A k \in Stores : store[k] \in Seq(Requests) /\ NoRepeats(store[k])
  BY DEF TypeOK, ListInv, Lists
<1>1. CASE store' = store
  BY <1>0, <1>1
<1>2. ASSUME NEW s \in Sessions, DrainDelete(s) PROVE Good
  <2>1. PICK T \in Targets : Write(T, Delete)
    BY <1>2 DEF DrainDelete
  <2>2. store' = [k \in Stores |-> IF k \in T THEN <<>> ELSE store[k]]
    BY <2>1 DEF Write, Delete
  <2> QED BY <1>0, <2>2, EmptyIsList DEF Lists
<1>3. ASSUME NEW r \in Requests, EnqueueLpop(r) PROVE Good
  <2>1. PICK T \in Targets : Write(T, Lpop)
    BY <1>3 DEF EnqueueLpop
  <2>2. store' = [k \in Stores |-> IF k \in T THEN Lpop(store[k]) ELSE store[k]]
    BY <2>1 DEF Write
  <2>3. \A k \in Stores : /\ Lpop(store[k]) \in Lists /\ NoRepeats(Lpop(store[k]))
                          /\ \A x \in Requests : In(x, Lpop(store[k])) => In(x, store[k])
    BY <1>0, TailIsList DEF Lpop, Lists
  <2> QED BY <1>0, <2>2, <2>3
<1>4. ASSUME NEW r \in Requests, EnqueueRpush(r) PROVE Good
  <2>1. request[r] = "rpush"
    BY <1>4 DEF EnqueueRpush, Write
  <2>2. PICK T \in Targets :
           store' = [k \in Stores |-> IF k \in T THEN Append(store[k], r) ELSE store[k]]
    BY <1>4 DEF EnqueueRpush, Write
  <2>3. \A k \in Stores : ~In(r, store[k])
    BY <2>1 DEF ListInv
  <2>4. \A k \in Stores : /\ Append(store[k], r) \in Lists /\ NoRepeats(Append(store[k], r))
                          /\ \A x \in Requests : In(x, Append(store[k], r)) => x = r \/ In(x, store[k])
    BY <1>0, <2>3, AppendIsList DEF Lists
  <2> QED BY <1>0, <1>4, <2>2, <2>4
<1>5. CASE Restart
  <2>1. store' = [store EXCEPT !["memory"] = <<>>]
    BY <1>5 DEF Restart
  <2> QED BY <1>0, <2>1, EmptyIsList DEF Lists, Stores
<1>6. \/ store' = store
      \/ \E s \in Sessions : DrainDelete(s)
      \/ \E r \in Requests : EnqueueLpop(r) \/ EnqueueRpush(r)
      \/ Restart
  BY Zenon DEF Next, Register, DrainRead, DrainSend, PeerGone, Unregister, DispatchSends, DispatchQueues,
               EnqueueLlen, TtlPasses, Outage, Recovery, vars
<1> QED BY <1>1, <1>2, <1>3, <1>4, <1>5, <1>6

\* A handler's batch only gets shorter, but for the list that drain reads.
LEMMA BatchStep ==
    ASSUME TypeOK, ListInv, [Next]_vars
    PROVE  /\ batch' \in [Sessions -> Lists]
           /\ \A s \in Sessions : NoRepeats(batch'[s])
           /\ \A s \in Sessions, r \in Requests :
                 In(r, batch'[s]) => In(r, batch[s]) \/ (DrainRead(s) /\ In(r, store[Answering]))
<1> DEFINE Good == /\ batch' \in [Sessions -> Lists]
                   /\ \A s \in Sessions : NoRepeats(batch'[s])
                   /\ \A s \in Sessions, r \in Requests :
                         In(r, batch'[s]) => In(r, batch[s]) \/ (DrainRead(s) /\ In(r, store[Answering]))
<1>0. batch \in [Sessions -> Lists] /\ \A s \in Sessions : batch[s] \in Seq(Requests) /\ NoRepeats(batch[s])
  BY DEF TypeOK, ListInv, Lists
<1>1. CASE batch' = batch
  BY <1>0, <1>1
<1>2. ASSUME NEW s \in Sessions, DrainRead(s) PROVE Good
  <2>1. batch' = [batch EXCEPT ![s] = store[Answering]]
    BY <1>2 DEF DrainRead
  <2>2. store[Answering] \in Lists /\ NoRepeats(store[Answering])
    BY DEF TypeOK, ListInv, Answering, Stores
  <2> QED BY <1>0, <1>2, <2>1, <2>2
<1>3. ASSUME NEW s \in Sessions, DrainDelete(s) PROVE Good
  <2>1. batch' = [batch EXCEPT ![s] = Unexpired(batch[s])]
    BY <1>0, <1>3 DEF DrainDelete, DrainTo
  <2>2. /\ Unexpired(batch[s]) \in Lists /\ NoRepeats(Unexpired(batch[s]))
        /\ \A r \in Requests : In(r, Unexpired(batch[s])) => In(r, batch[s])
    BY <1>0, KeptIsList DEF Unexpired, Lists
  <2> QED BY <1>0, <2>1, <2>2
<1>4. ASSUME NEW s \in Sessions, DrainSend(s) PROVE Good
  <2>1. batch' = [batch EXCEPT ![s] = Tail(batch[s])] /\ batch[s] # <<>>
    BY <1>0, <1>4 DEF DrainSend, ListInv
  <2>2. /\ Tail(batch[s]) \in Lists /\ NoRepeats(Tail(batch[s]))
        /\ \A r \in Requests : In(r, Tail(batch[s])) => In(r, batch[s])
    BY <1>0, <2>1, TailIsList DEF Lists
  <2> QED BY <1>0, <2>1, <2>2
<1>5. ASSUME NEW s \in Sessions, Unregister(s) PROVE Good
  <2>1. batch' = [batch EXCEPT ![s] = <<>>]
    BY <1>5 DEF Unregister
  <2> QED BY <1>0, <2>1, EmptyIsList DEF Lists
<1>6. CASE Restart
  <2>1. batch' = [s \in Sessions |-> <<>>]
    BY <1>6 DEF Restart
  <2> QED BY <2>1, EmptyIsList DEF Lists
<1>7. \/ batch' = batch
      \/ \E s \in Sessions : DrainRead(s) \/ DrainDelete(s) \/ DrainSend(s) \/ Unregister(s)
      \/ Restart
  BY Zenon DEF Next, Register, PeerGone, DispatchSends, DispatchQueues, EnqueueLlen, EnqueueLpop,
               EnqueueRpush, TtlPasses, Outage, Recovery, session, vars
<1> QED BY <1>1, <1>2, <1>3, <1>4, <1>5, <1>6, <1>7


\* A request that was queued stays so, and none becomes pending again.
LEMMA RequestStep ==
    ASSUME TypeOK, [Next]_vars
    PROVE  /\ request' \in [Requests -> RequestPhases]
           /\ \A r \in Requests : /\ request[r] = "queued" => request'[r] = "queued"
                                  /\ EnqueueRpush(r) => request'[r] = "queued" /\ Pending(r)
                                  /\ Pending(r)' => Pending(r)
<1> DEFINE Good == /\ request' \in [Requests -> RequestPhases]
                   /\ \A r \in Requests : /\ request[r] = "queued" => request'[r] = "queued"
                                          /\ Pending(r)' => Pending(r)
<1>0. request \in [Requests -> RequestPhases]
  BY DEF TypeOK
<1>1. ASSUME request' = request PROVE Good
  BY <1>0, <1>1, Zenon DEF Pending
<1>2. ASSUME NEW r \in Requests, NEW p \in RequestPhases \ {"new"}, request[r] # "queued",
             request' = [request EXCEPT ![r] = p], Pending(r)
      PROVE  Good
  BY <1>0, <1>2 DEF Pending
<1>11. \A p \in {"llen", "lpop", "rpush", "dispatched", "failed"} : p \in RequestPhases \ {"new"}
  BY DEF RequestPhases
<1>3. ASSUME NEW r \in Requests, DispatchSends(r) PROVE Good
  <2>1. PICK p \in {"dispatched", "failed"} : request[r] = "new" /\ request' = [request EXCEPT ![r] = p]
    BY <1>3 DEF DispatchSends, RequestGoes
  <2>2. Pending(r) /\ request[r] # "queued"
    BY <2>1 DEF Pending
  <2>3. p \in RequestPhases \ {"new"}
    BY <1>11, <2>2
  <2> HIDE DEF Good
  <2> QED BY <1>2, <2>1, <2>2, <2>3, Zenon
<1>4. ASSUME NEW r \in Requests, DispatchQueues(r) PROVE Good
  <2>1. request[r] = "new" /\ request' = [request EXCEPT ![r] = "llen"]
    BY <1>4 DEF DispatchQueues, RequestGoes
  <2>2. Pending(r) /\ request[r] # "queued"
    BY <2>1 DEF Pending
  <2>3. "llen" \in RequestPhases \ {"new"}
    BY <1>11
  <2> HIDE DEF Good
  <2> QED BY <1>2, <2>1, <2>2, <2>3, Zenon
<1>5. ASSUME NEW r \in Requests, EnqueueLlen(r) PROVE Good
  <2> DEFINE p == IF Len(store[Answering]) >= Max THEN "lpop" ELSE "rpush"
  <2>1. request[r] = "llen" /\ request' = [request EXCEPT ![r] = p]
    BY <1>5 DEF EnqueueLlen, RequestGoes
  <2>2. Pending(r) /\ request[r] # "queued" /\ p \in {"lpop", "rpush"}
    BY <2>1 DEF Pending
  <2>3. p \in RequestPhases \ {"new"}
    BY <1>11, <2>2
  <2> HIDE DEF Good, p
  <2> QED BY <1>2, <2>1, <2>2, <2>3, Zenon
<1>6. ASSUME NEW r \in Requests, EnqueueLpop(r) PROVE Good
  <2>1. request[r] = "lpop" /\ request' = [request EXCEPT ![r] = "rpush"]
    BY <1>6 DEF EnqueueLpop, RequestGoes, Write
  <2>2. Pending(r) /\ request[r] # "queued"
    BY <2>1 DEF Pending
  <2>3. "rpush" \in RequestPhases \ {"new"}
    BY <1>11
  <2> HIDE DEF Good
  <2> QED BY <1>2, <2>1, <2>2, <2>3, Zenon
<1>7. ASSUME NEW r \in Requests, EnqueueRpush(r)
      PROVE  Good /\ request'[r] = "queued" /\ Pending(r)
  <2>1. request[r] = "rpush" /\ request' = [request EXCEPT ![r] = "queued"]
    BY <1>7 DEF EnqueueRpush, RequestGoes, Write
  <2> QED BY <1>0, <1>2, <2>1 DEF Pending, RequestPhases
<1>8. ASSUME Restart PROVE Good
  <2>1. request' = [r \in Requests |-> IF request[r] \in {"llen", "lpop", "rpush"} THEN "failed" ELSE request[r]]
    BY <1>8 DEF Restart
  <2>2. request' \in [Requests -> RequestPhases]
    BY <1>0, <2>1 DEF RequestPhases
  <2>3. \A r \in Requests : request'[r] = request[r] \/ (request'[r] = "failed" /\ request[r] # "queued")
    BY <2>1
  <2> QED BY <2>2, <2>3, Zenon DEF Pending
<1>9. \/ request' = request
      \/ \E r \in Requests : DispatchSends(r) \/ DispatchQueues(r) \/ EnqueueLlen(r)
                             \/ EnqueueLpop(r) \/ EnqueueRpush(r)
      \/ Restart
  BY Zenon DEF Next, Register, DrainRead, DrainDelete, DrainTo, DrainSend, PeerGone, Unregister,
               TtlPasses, Outage, Recovery, vars
<1>10. Good
  BY <1>1, <1>3, <1>4, <1>5, <1>6, <1>7, <1>8, <1>9
<1> QED BY <1>7, <1>10

\* The type invariant is preserved; the lists and requests are above, the
\* table is in TableStep.
LEMMA DeliveryTypes ==
    ASSUME TypeOK, ListInv, TableInv', [Next]_vars
    PROVE  TypeOK'
<1>1. store' \in [Stores -> Lists] /\ batch' \in [Sessions -> Lists] /\ request' \in [Requests -> RequestPhases]
  BY StoreStep, BatchStep, RequestStep
<1>2. /\ phase' \in [Sessions -> Phases] /\ live' \subseteq Sessions
      /\ current' \in Sessions \cup {None} /\ newest' \in Sessions \cup {None}
  BY DEF TableInv
<1>3. reachable' \in BOOLEAN
  <2>1. reachable' = reachable \/ reachable' = TRUE \/ reachable' = FALSE
    BY Zenon DEF Next, Register, DrainRead, DrainDelete, DrainTo, DrainSend, PeerGone, Unregister,
         DispatchSends, DispatchQueues, EnqueueLlen, EnqueueLpop, EnqueueRpush, TtlPasses,
         Outage, Recovery, Restart, vars
  <2>2. reachable \in BOOLEAN
    BY DEF TypeOK
  <2> QED BY <2>1, <2>2, Zenon
<1>4. source' \in [Sessions -> Stores]
  <2>1. ASSUME NEW s \in Sessions, DrainRead(s) PROVE source' \in [Sessions -> Stores]
    <3>1. Answering \in Stores
      BY DEF Answering, Stores
    <3> QED BY <2>1, <3>1 DEF DrainRead, TypeOK
  <2>2. source' = source \/ \E s \in Sessions : DrainRead(s)
    BY Zenon DEF Next, Register, DrainDelete, DrainTo, DrainSend, PeerGone, Unregister,
         DispatchSends, DispatchQueues, EnqueueLlen, EnqueueLpop, EnqueueRpush, TtlPasses,
         Outage, Recovery, Restart, session, vars
  <2> QED BY <2>1, <2>2 DEF TypeOK
<1>5. expired' \subseteq Requests
  BY Zenon DEF TypeOK, Next, Register, DrainRead, DrainDelete, DrainTo, DrainSend, PeerGone, Unregister,
       DispatchSends, DispatchQueues, EnqueueLlen, EnqueueLpop, EnqueueRpush, TtlPasses,
       Outage, Recovery, Restart, vars
<1>6. delivered' \in [Requests -> Nat]
  <2>1. ASSUME NEW s \in Sessions, DrainSend(s) PROVE delivered' \in [Requests -> Nat]
    <3>1. batch[s] \in Seq(Requests) /\ batch[s] # <<>>
      BY <2>1 DEF DrainSend, ListInv, TypeOK, Lists
    <3>2. Head(batch[s]) \in Requests
      BY <3>1
    <3> QED BY <2>1, <3>2 DEF DrainSend, TypeOK
  <2>2. ASSUME NEW r \in Requests, DispatchSends(r) PROVE delivered' \in [Requests -> Nat]
    BY <2>2 DEF DispatchSends, TypeOK
  <2>3. \/ delivered' = delivered \/ \E s \in Sessions : DrainSend(s)
        \/ \E r \in Requests : DispatchSends(r)
    BY Zenon DEF Next, Register, DrainRead, DrainDelete, DrainTo, PeerGone, Unregister,
         DispatchQueues, EnqueueLlen, EnqueueLpop, EnqueueRpush, TtlPasses,
         Outage, Recovery, Restart, vars
  <2> QED BY <2>1, <2>2, <2>3 DEF TypeOK
<1>7. copies' \in Nat /\ copies' >= copies
  <2>1. copies' = copies \/ copies' = copies + 1
    BY Zenon DEF Next, Register, DrainRead, DrainDelete, DrainTo, DrainSend, PeerGone, Unregister,
         DispatchSends, DispatchQueues, EnqueueLlen, EnqueueLpop, EnqueueRpush, TtlPasses,
         Outage, Recovery, Restart, vars
  <2> QED BY <2>1 DEF TypeOK
<1>8. outages' \in 0 .. MaxOutages /\ restarts' \in 0 .. MaxRestarts
  <2>1. \/ UNCHANGED bounds
        \/ outages < MaxOutages /\ outages' = outages + 1 /\ restarts' = restarts
        \/ restarts < MaxRestarts /\ restarts' = restarts + 1 /\ outages' = outages
    BY Zenon DEF Next, Register, DrainRead, DrainDelete, DrainTo, DrainSend, PeerGone, Unregister,
         DispatchSends, DispatchQueues, EnqueueLlen, EnqueueLpop, EnqueueRpush, TtlPasses,
         Outage, Recovery, Restart, vars, bounds
  <2> QED BY <2>1, DeliveryAssumption DEF TypeOK, bounds
<1> QED BY <1>1, <1>2, <1>3, <1>4, <1>5, <1>6, <1>7, <1>8 DEF TypeOK

\* Only queued requests are in a list, and a handler sends as long as it has
\* something to send.
LEMMA ListStep ==
    ASSUME TypeOK, ListInv, [Next]_vars
    PROVE  ListInv'
<1>1. \A k \in Stores : NoRepeats(store'[k])
  BY StoreStep
<1>2. \A s \in Sessions : NoRepeats(batch'[s])
  BY BatchStep
<1>3. ASSUME NEW r \in Requests, request'[r] # "queued"
      PROVE  (\A k \in Stores : ~In(r, store'[k])) /\ (\A s \in Sessions : ~In(r, batch'[s]))
  <2>1. request[r] # "queued" /\ ~EnqueueRpush(r)
    BY <1>3, RequestStep
  <2>2. (\A k \in Stores : ~In(r, store[k])) /\ (\A s \in Sessions : ~In(r, batch[s]))
    BY <2>1 DEF ListInv
  <2>3. Answering \in Stores
    BY DEF Answering, Stores
  <2> QED BY <2>1, <2>2, <2>3, StoreStep, BatchStep
<1>4. ASSUME NEW s \in Sessions, phase'[s] = "sending" PROVE batch'[s] # <<>>
  <2>0. /\ phase \in [Sessions -> Phases] /\ batch \in [Sessions -> Seq(Requests)]
        /\ \A t \in Sessions : phase[t] = "sending" => batch[t] # <<>>
    BY DEF TypeOK, ListInv, Lists
  <2>1. CASE phase' = phase /\ batch' = batch
    BY <1>4, <2>0, <2>1
  <2>2. ASSUME NEW t \in Sessions, Register(t) PROVE batch'[s] # <<>>
    BY <1>4, <2>0, <2>2 DEF Register
  <2>3. ASSUME NEW t \in Sessions, DrainRead(t) PROVE batch'[s] # <<>>
    <3>1. phase'[t] # "sending"
      BY <2>0, <2>3 DEF DrainRead
    <3> QED BY <1>4, <2>0, <2>3, <3>1 DEF DrainRead
  <2>4. ASSUME NEW t \in Sessions, DrainDelete(t) PROVE batch'[s] # <<>>
    <3>1. /\ phase' = [phase EXCEPT ![t] = IF Unexpired(batch[t]) = <<>> THEN "open" ELSE "sending"]
          /\ batch' = [batch EXCEPT ![t] = Unexpired(batch[t])]
      BY <2>0, <2>4 DEF DrainDelete, DrainTo
    <3> QED BY <1>4, <2>0, <3>1
  <2>5. ASSUME NEW t \in Sessions, DrainSend(t) PROVE batch'[s] # <<>>
    <3>1. /\ phase' = [phase EXCEPT ![t] = IF Len(batch[t]) = 1 THEN "open" ELSE "sending"]
          /\ batch' = [batch EXCEPT ![t] = Tail(batch[t])]
          /\ batch[t] \in Seq(Requests) /\ batch[t] # <<>>
      BY <2>0, <2>5 DEF DrainSend
    <3>2. Len(batch[t]) # 1 => Tail(batch[t]) # <<>>
      <4>1. Len(Tail(batch[t])) = Len(batch[t]) - 1 /\ Len(batch[t]) \in Nat
        BY <3>1, TailIsList
      <4>2. Len(<<>>) = 0
        OBVIOUS
      <4>3. ASSUME NEW n \in Nat, NEW m, m = n - 1, n # 1 PROVE m # 0
        BY <4>3
      <4>4. Len(batch[t]) # 1 => Len(Tail(batch[t])) # 0
        BY <4>1, <4>3, Zenon
      <4> QED BY <4>2, <4>4, Zenon
    <3> QED BY <1>4, <2>0, <3>1, <3>2
  <2>6. ASSUME NEW t \in Sessions, Unregister(t) PROVE batch'[s] # <<>>
    BY <1>4, <2>0, <2>6 DEF Unregister
  <2>7. CASE Restart
    BY <1>4, <2>7 DEF Restart
  <2>8. \/ phase' = phase /\ batch' = batch
        \/ \E t \in Sessions : Register(t) \/ DrainRead(t) \/ DrainDelete(t) \/ DrainSend(t) \/ Unregister(t)
        \/ Restart
    BY Zenon DEF Next, PeerGone, DispatchSends, DispatchQueues, EnqueueLlen, EnqueueLpop, EnqueueRpush,
                 TtlPasses, Outage, Recovery, session, vars
  <2> QED BY <2>1, <2>2, <2>3, <2>4, <2>5, <2>6, <2>7, <2>8
<1> QED BY <1>1, <1>2, <1>3, <1>4 DEF ListInv


-----------------------------------------------------------------------------
(* The tally of deliveries made and to come.                               *)

\* How a handler gets to read or to send; no socket comes back to life.
LEMMA HandlerMoves ==
    ASSUME TypeOK, [Next]_vars, NEW s \in Sessions
    PROVE  /\ s \in live' => s \in live
           /\ phase'[s] = "read" => DrainRead(s) \/ (phase[s] = "read" /\ source'[s] = source[s])
           /\ phase'[s] = "sending" => DrainDelete(s) \/ phase[s] = "sending"
<1> DEFINE Good == /\ s \in live' => s \in live
                   /\ phase'[s] = "read" => DrainRead(s) \/ (phase[s] = "read" /\ source'[s] = source[s])
                   /\ phase'[s] = "sending" => DrainDelete(s) \/ phase[s] = "sending"
<1>0. phase \in [Sessions -> Phases] /\ source \in [Sessions -> Stores]
  BY DEF TypeOK
<1>1. ASSUME NEW t \in Sessions, Register(t) PROVE Good
  BY <1>0, <1>1 DEF Register
<1>2. ASSUME NEW t \in Sessions, DrainRead(t) PROVE Good
  <2>1. t # s => phase'[s] = phase[s] /\ source'[s] = source[s]
    BY <1>0, <1>2 DEF DrainRead
  <2>2. live' = live /\ phase'[t] # "sending"
    BY <1>0, <1>2 DEF DrainRead
  <2> QED BY <1>2, <2>1, <2>2, Zenon
<1>3. ASSUME NEW t \in Sessions, DrainDelete(t) PROVE Good
  <2>1. /\ phase' = [phase EXCEPT ![t] = IF Unexpired(batch[t]) = <<>> THEN "open" ELSE "sending"]
        /\ live' = live /\ source' = source
    BY <1>3 DEF DrainDelete, DrainTo
  <2>2. t # s => phase'[s] = phase[s]
    BY <1>0, <2>1
  <2>3. phase'[t] # "read"
    BY <1>0, <2>1
  <2> QED BY <1>3, <2>1, <2>2, <2>3, Zenon
<1>4. ASSUME NEW t \in Sessions, DrainSend(t) PROVE Good
  BY <1>0, <1>4 DEF DrainSend
<1>5. ASSUME NEW t \in Sessions, PeerGone(t) PROVE Good
  BY <1>5 DEF PeerGone
<1>6. ASSUME NEW t \in Sessions, Unregister(t) PROVE Good
  BY <1>0, <1>6 DEF Unregister
<1>7. ASSUME Restart PROVE Good
  BY <1>0, <1>7 DEF Restart
<1>8. ASSUME UNCHANGED <<phase, live, source>> PROVE Good
  BY <1>8, Zenon
<1>9. \/ UNCHANGED <<phase, live, source>>
      \/ \E t \in Sessions : Register(t) \/ DrainRead(t) \/ DrainDelete(t) \/ DrainSend(t)
                             \/ PeerGone(t) \/ Unregister(t)
      \/ Restart
  BY Zenon DEF Next, DispatchSends, DispatchQueues, EnqueueLlen, EnqueueLpop, EnqueueRpush, TtlPasses,
               Outage, Recovery, session, vars
<1> HIDE DEF Good
<1>10. Good
  BY <1>1, <1>2, <1>3, <1>4, <1>5, <1>6, <1>7, <1>8, <1>9, Zenon
<1> QED BY <1>10 DEF Good

\* Only rpush puts a request into a list: a handler that reads takes what is
\* held already.
LEMMA HeldStep ==
    ASSUME TypeOK, ListInv, [Next]_vars, NEW r \in Requests, NEW k \in Stores, Held(k, r)'
    PROVE  Held(k, r) \/ EnqueueRpush(r)
<1>1. CASE In(r, store'[k])
  BY <1>1, StoreStep DEF Held
<1>2. ASSUME NEW s \in Sessions \cap live', phase'[s] = "read", source'[s] = k, In(r, batch'[s])
      PROVE  Held(k, r)
  <2>1. CASE DrainRead(s)
    <3>1. batch'[s] = store[Answering] /\ source'[s] = Answering
      BY <2>1 DEF DrainRead, TypeOK
    <3> QED BY <1>2, <3>1 DEF Held
  <2>2. CASE ~DrainRead(s)
    <3>1. phase[s] = "read" /\ source[s] = k /\ s \in live
      BY <1>2, <2>2, HandlerMoves
    <3>2. In(r, batch[s])
      BY <1>2, <2>2, BatchStep
    <3> QED BY <3>1, <3>2 DEF Held
  <2> QED BY <2>1, <2>2
<1> QED BY <1>1, <1>2 DEF Held

\* Only drain gives a handler something to send.
LEMMA ActiveStep ==
    ASSUME TypeOK, ListInv, [Next]_vars, NEW r \in Requests, Active(r)'
    PROVE  \/ Active(r)
           \/ \E s \in Sessions \cap live : DrainDelete(s) /\ In(r, batch[s])
<1>1. PICK s \in Sessions \cap live' : phase'[s] = "sending" /\ In(r, batch'[s])
  BY DEF Active
<1>2. s \in live /\ (DrainDelete(s) \/ phase[s] = "sending")
  BY <1>1, HandlerMoves
<1>3. ~DrainRead(s)
  <2>1. DrainRead(s) => phase'[s] # "sending"
    BY DEF DrainRead, TypeOK
  <2> QED BY <1>1, <2>1
<1>4. In(r, batch[s])
  BY <1>1, <1>3, BatchStep
<1> QED BY <1>2, <1>4 DEF Active

LEMMA OneIsBit == \A b : One(b) \in {0, 1}
BY DEF One

LEMMA OneGrows ==
    ASSUME NEW a, NEW b, a => b
    PROVE  One(a) <= One(b)
BY DEF One

LEMMA TallyKept ==
    ASSUME TypeOK, NEW r \in Requests, Units(r) <= 1 + copies,
           delivered'[r] = delivered[r], copies' \in Nat, copies' >= copies,
           \A k \in Stores : Held(k, r)' => Held(k, r),
           Active(r)' => Active(r), Pending(r)' => Pending(r)
    PROVE  Units(r)' <= 1 + copies'
<1>1. delivered[r] \in Nat /\ copies \in Nat
  BY DEF TypeOK
<1>2. /\ One(Held("redis", r)') <= One(Held("redis", r))
      /\ One(Held("memory", r)') <= One(Held("memory", r))
      /\ One(Active(r)') <= One(Active(r)) /\ One(Pending(r)') <= One(Pending(r))
  <2>1. "redis" \in Stores /\ "memory" \in Stores
    BY DEF Stores
  <2> QED BY <2>1, OneGrows, Zenon
<1>3. \A b : One(b) \in {0, 1}
  BY OneIsBit
<1> QED BY <1>1, <1>2, <1>3 DEF Units

\* drain's delete: what a live handler will send, it takes out of the list it
\* read, unless the delete was done on the other store.
LEMMA TallyDrain ==
    ASSUME DeliveryInv, [Next]_vars, NEW s \in Sessions \cap live, DrainDelete(s), NEW r \in Requests
    PROVE  Units(r)' <= 1 + copies'
<1> PICK k \in Stores : k = source[s]
  BY DEF DeliveryInv, TypeOK
<1>0. /\ TypeOK /\ ListInv /\ TableInv /\ Units(r) <= 1 + copies
      /\ delivered[r] \in Nat /\ copies \in Nat
  BY DEF DeliveryInv, UnitInv, TypeOK
<1>1. PICK T \in Targets : Write(T, Delete) /\ DrainTo(s, T)
  BY DEF DrainDelete
<1>2. /\ phase' = [phase EXCEPT ![s] = IF Unexpired(batch[s]) = <<>> THEN "open" ELSE "sending"]
      /\ phase \in [Sessions -> Phases] /\ phase[s] = "read"
      /\ store' = [j \in Stores |-> IF j \in T THEN <<>> ELSE store[j]]
      /\ copies' = IF k \in T THEN copies ELSE copies + 1
      /\ delivered' = delivered /\ request' = request /\ live' = live
  BY <1>0, <1>1 DEF DrainTo, Write, Delete, DrainDelete, TypeOK
<1>3. \A t \in Sessions \cap live : phase[t] \in {"read", "sending"} => t = s
  BY <1>0, <1>2 DEF TableInv, OneLiveSession, Running
<1>4. ~Active(r)
  BY <1>2, <1>3 DEF Active
<1>5. Pending(r)' <=> Pending(r)
  BY <1>2 DEF Pending
<1>6. ASSUME NEW j \in Stores, Held(j, r)' PROVE Held(j, r)
  <2>1. ~EnqueueRpush(r)
    BY <1>0, <1>2, RequestStep DEF Pending
  <2> QED BY <1>0, <1>6, <2>1, HeldStep
<1>7. Active(r)' => Held(k, r)
  <2>1. Active(r)' => In(r, batch[s])
    <3> SUFFICES ASSUME Active(r)' PROVE In(r, batch[s])
      OBVIOUS
    <3>1. PICK t \in Sessions \cap live : DrainDelete(t) /\ In(r, batch[t])
      BY <1>0, <1>4, ActiveStep
    <3>2. t = s
      BY <1>3, <3>1 DEF DrainDelete
    <3> QED BY <3>1, <3>2
  <2> QED BY <1>2, <2>1 DEF Held
<1>8. \A b : One(b) \in {0, 1}
  BY OneIsBit
<1>9. CASE k \in T
  <2>1. ~Held(k, r)'
    <3>1. ~In(r, store'[k])
      BY <1>0, <1>2, <1>9, EmptyIsList
    <3>2. \A t \in Sessions \cap live' : phase'[t] # "read"
      <4>1. phase'[s] # "read"
        BY <1>2
      <4>2. \A t \in Sessions : t # s => phase'[t] = phase[t]
        BY <1>2
      <4> QED BY <1>2, <1>3, <4>1, <4>2
    <3> QED BY <3>1, <3>2 DEF Held
  <2>2. One(Held(k, r)') + One(Active(r)') <= One(Held(k, r)) + One(Active(r))
    BY <1>7, <2>1 DEF One
  <2>3. \A j \in Stores : One(Held(j, r)') <= One(Held(j, r))
    BY <1>6 DEF One
  <2>4. k = "redis" \/ k = "memory"
    BY <1>0 DEF Stores
  <2>5. One(Pending(r)') = One(Pending(r))
    BY <1>5 DEF One
  <2>6. copies' = copies /\ delivered'[r] = delivered[r]
    BY <1>2, <1>9
  <2>7. "redis" \in Stores /\ "memory" \in Stores
    BY DEF Stores
  <2>8. CASE k = "redis"
    BY <1>0, <1>8, <2>2, <2>3, <2>5, <2>6, <2>7, <2>8 DEF Units
  <2>9. CASE k = "memory"
    BY <1>0, <1>8, <2>2, <2>3, <2>5, <2>6, <2>7, <2>9 DEF Units
  <2> QED BY <2>4, <2>8, <2>9
<1>10. CASE k \notin T
  <2>1. \A j \in Stores : One(Held(j, r)') <= One(Held(j, r))
    BY <1>6 DEF One
  <2>2. One(Pending(r)') = One(Pending(r)) /\ One(Active(r)) = 0
    BY <1>4, <1>5 DEF One
  <2>3. copies' = copies + 1 /\ delivered'[r] = delivered[r]
    BY <1>2, <1>10
  <2> QED BY <1>0, <1>8, <2>1, <2>2, <2>3 DEF Units, Stores
<1> QED BY <1>9, <1>10

\* A live handler is the only one that sends, and it has no request twice.
LEMMA TallySend ==
    ASSUME DeliveryInv, [Next]_vars, NEW s \in Sessions, DrainSend(s), NEW r \in Requests
    PROVE  Units(r)' <= 1 + copies'
<1>0. /\ TypeOK /\ ListInv /\ TableInv /\ Units(r) <= 1 + copies
      /\ delivered \in [Requests -> Nat] /\ copies \in Nat
  BY DEF DeliveryInv, UnitInv, TypeOK
<1>1. /\ phase \in [Sessions -> Phases] /\ phase[s] = "sending" /\ s \in live /\ live' = live
      /\ phase' = [phase EXCEPT ![s] = IF Len(batch[s]) = 1 THEN "open" ELSE "sending"]
      /\ batch \in [Sessions -> Seq(Requests)]
      /\ batch' = [batch EXCEPT ![s] = Tail(batch[s])]
      /\ delivered' = [delivered EXCEPT ![Head(batch[s])] = @ + 1]
  <2>1. phase \in [Sessions -> Phases] /\ batch \in [Sessions -> Seq(Requests)]
    BY <1>0 DEF TypeOK, Lists
  <2>2. phase[s] = "sending" /\ s \in live /\ live' = live
    BY DEF DrainSend
  <2>3. phase' = [phase EXCEPT ![s] = IF Len(batch[s]) = 1 THEN "open" ELSE "sending"]
    BY DEF DrainSend
  <2>4. batch' = [batch EXCEPT ![s] = Tail(batch[s])]
    BY <2>1 DEF DrainSend
  <2>5. delivered' = [delivered EXCEPT ![Head(batch[s])] = @ + 1]
    BY DEF DrainSend
  <2> QED BY <2>1, <2>2, <2>3, <2>4, <2>5
<1>8. copies' = copies /\ request' = request
  BY DEF DrainSend
<1>2. /\ Head(batch[s]) \in Requests /\ In(Head(batch[s]), batch[s])
      /\ ~In(Head(batch[s]), Tail(batch[s]))
  BY <1>0, <1>1, TailIsList DEF ListInv
<1>3. Pending(r)' <=> Pending(r)
  BY <1>8 DEF Pending
<1>4. ASSUME NEW k \in Stores, Held(k, r)' PROVE Held(k, r)
  <2>1. ~EnqueueRpush(r)
    BY <1>0, <1>8, RequestStep DEF Pending
  <2> QED BY <1>0, <1>4, <2>1, HeldStep
<1>5. Active(r)' => Active(r)
  <2>1. \A t \in Sessions : ~DrainDelete(t)
    <3> SUFFICES ASSUME NEW t \in Sessions, DrainDelete(t) PROVE FALSE
      OBVIOUS
    <3>1. phase[t] = "read" /\ phase'[t] # "read"
      BY <1>1 DEF DrainDelete, DrainTo
    <3> QED BY <1>1, <3>1
  <2> QED BY <1>0, <2>1, ActiveStep
<1>6. CASE r # Head(batch[s])
  <2>1. delivered'[r] = delivered[r]
    BY <1>0, <1>1, <1>6
  <2>2. copies' \in Nat /\ copies' >= copies
    BY <1>0, <1>8
  <2> QED BY <1>0, <1>3, <1>4, <1>5, <2>1, <2>2, TallyKept
<1>7. CASE r = Head(batch[s])
  <2>1. Active(r)
    BY <1>1, <1>2, <1>7 DEF Active
  <2>2. ~Active(r)'
    <3> SUFFICES ASSUME NEW t \in Sessions \cap live', phase'[t] = "sending", In(r, batch'[t])
                 PROVE  FALSE
      BY DEF Active
    <3>1. t # s
      BY <1>1, <1>2, <1>7
    <3>2. phase[t] = "sending" /\ t \in live
      BY <1>1, <3>1
    <3> QED BY <1>0, <1>1, <3>1, <3>2 DEF TableInv, OneLiveSession, Running
  <2>3. \A b : One(b) \in {0, 1}
    BY DEF One
  <2>4. /\ One(Active(r)) = 1 /\ One(Active(r)') = 0 /\ One(Pending(r)') = One(Pending(r))
        /\ \A k \in Stores : One(Held(k, r)') <= One(Held(k, r))
    BY <1>3, <1>4, <2>1, <2>2 DEF One
  <2>5. delivered'[r] = delivered[r] + 1 /\ delivered[r] \in Nat /\ copies' = copies
    BY <1>0, <1>1, <1>2, <1>7, <1>8
  <2> QED BY <1>0, <2>3, <2>4, <2>5 DEF Units, Stores
<1> QED BY <1>6, <1>7


\* A request that is written to the socket is not queued as well.
LEMMA TallyDispatch ==
    ASSUME DeliveryInv, [Next]_vars, NEW r \in Requests, DispatchSends(r)
    PROVE  Units(r)' <= 1 + copies'
<1>0. /\ TypeOK /\ ListInv /\ Units(r) <= 1 + copies
      /\ delivered \in [Requests -> Nat] /\ copies \in Nat /\ request \in [Requests -> RequestPhases]
  BY DEF DeliveryInv, UnitInv, TypeOK
<1>1. /\ request[r] = "new" /\ copies' = copies /\ phase' = phase
      /\ request'[r] \in {"dispatched", "failed"}
      /\ delivered'[r] = delivered[r] \/ delivered'[r] = delivered[r] + 1
  BY <1>0 DEF DispatchSends, RequestGoes, session
<1>2. Pending(r) /\ ~Pending(r)'
  BY <1>1 DEF Pending
<1>3. ASSUME NEW k \in Stores, Held(k, r)' PROVE Held(k, r)
  <2>1. ~EnqueueRpush(r)
    BY <1>0, <1>1, RequestStep
  <2> QED BY <1>0, <1>3, <2>1, HeldStep
<1>4. Active(r)' => Active(r)
  BY <1>1 DEF DispatchSends, session, Active
<1>5. \A b : One(b) \in {0, 1}
  BY OneIsBit
<1>6. /\ One(Pending(r)) = 1 /\ One(Pending(r)') = 0 /\ One(Active(r)') <= One(Active(r))
      /\ \A k \in Stores : One(Held(k, r)') <= One(Held(k, r))
  BY <1>2, <1>3, <1>4 DEF One
<1>7. delivered[r] \in Nat
  BY <1>0
<1> QED BY <1>0, <1>1, <1>5, <1>6, <1>7 DEF Units, Stores

\* A request that is pushed was in no list; it gets into one, or into both
\* and a copy is counted.
LEMMA TallyRpush ==
    ASSUME DeliveryInv, [Next]_vars, NEW r \in Requests, EnqueueRpush(r)
    PROVE  Units(r)' <= 1 + copies'
<1>0. /\ TypeOK /\ ListInv /\ Units(r) <= 1 + copies
      /\ delivered[r] \in Nat /\ copies \in Nat
  BY DEF DeliveryInv, UnitInv, TypeOK
<1>1. /\ request[r] = "rpush" /\ delivered' = delivered
      /\ phase' = phase /\ batch' = batch /\ live' = live /\ source' = source
  BY DEF EnqueueRpush, Write, session
<1>2. PICK T \in Targets :
         /\ store' = [k \in Stores |-> IF k \in T THEN Append(store[k], r) ELSE store[k]]
         /\ copies' = IF T = Stores THEN copies + 1 ELSE copies
  BY DEF EnqueueRpush, Write
<1>3. Pending(r) /\ ~Pending(r)'
  BY <1>0, <1>1, RequestStep DEF Pending
<1>4. (\A k \in Stores : ~In(r, store[k])) /\ (\A s \in Sessions : ~In(r, batch[s]))
  BY <1>0, <1>1 DEF ListInv
<1>5. ~Active(r)'
  BY <1>1, <1>4 DEF Active
<1>6. \A k \in Stores \ T : ~Held(k, r)'
  BY <1>1, <1>2, <1>4 DEF Held
<1>7. \A b : One(b) \in {0, 1}
  BY OneIsBit
<1>8. /\ One(Pending(r)) = 1 /\ One(Pending(r)') = 0 /\ One(Active(r)') = 0
      /\ \A k \in Stores \ T : One(Held(k, r)') = 0
  BY <1>3, <1>5, <1>6, Zenon DEF One
<1>9. CASE T = Stores
  <2>1. copies' = copies + 1 /\ delivered'[r] = delivered[r]
    BY <1>1, <1>2, <1>9
  <2>2. /\ One(Held("redis", r)') \in {0, 1} /\ One(Held("memory", r)') \in {0, 1}
        /\ One(Held("redis", r)) \in {0, 1} /\ One(Held("memory", r)) \in {0, 1}
        /\ One(Active(r)) \in {0, 1}
    BY <1>7, Zenon
  <2> QED BY <1>0, <1>8, <2>1, <2>2 DEF Units
<1>10. CASE T # Stores
  <2>1. T = {"redis"} \/ T = {"memory"}
    BY <1>10 DEF Targets, Stores
  <2>2. One(Held("redis", r)') = 0 \/ One(Held("memory", r)') = 0
    BY <1>8, <2>1 DEF Stores
  <2>3. copies' = copies
    BY <1>2, <1>10
  <2> QED BY <1>0, <1>1, <1>7, <1>8, <2>2, <2>3 DEF Units
<1> QED BY <1>9, <1>10

\* Nothing else adds to the tally of a request.
LEMMA UnitStep ==
    ASSUME DeliveryInv, [Next]_vars
    PROVE  UnitInv'
<1> SUFFICES ASSUME NEW r \in Requests PROVE Units(r)' <= 1 + copies'
  BY DEF UnitInv
<1>0. TypeOK /\ ListInv /\ Units(r) <= 1 + copies /\ delivered \in [Requests -> Nat] /\ copies \in Nat
  BY DEF DeliveryInv, UnitInv, TypeOK
<1>1. CASE \E s \in Sessions \cap live : DrainDelete(s)
  BY <1>1, TallyDrain
<1>2. CASE \E s \in Sessions : DrainSend(s)
  BY <1>2, TallySend
<1>3. CASE DispatchSends(r)
  BY <1>3, TallyDispatch
<1>4. CASE EnqueueRpush(r)
  BY <1>4, TallyRpush
<1>5. CASE /\ \A s \in Sessions \cap live : ~DrainDelete(s)
           /\ \A s \in Sessions : ~DrainSend(s)
           /\ ~DispatchSends(r) /\ ~EnqueueRpush(r)
  <2>1. /\ \A k \in Stores : Held(k, r)' => Held(k, r)
        /\ Active(r)' => Active(r)
        /\ Pending(r)' => Pending(r)
    BY <1>0, <1>5, HeldStep, ActiveStep, RequestStep
  <2>2. copies' = copies \/ copies' = copies + 1
    BY Zenon DEF Next, Register, DrainRead, DrainDelete, DrainTo, DrainSend, PeerGone, Unregister,
         DispatchSends, DispatchQueues, EnqueueLlen, EnqueueLpop, EnqueueRpush, TtlPasses,
         Outage, Recovery, Restart, vars
  <2>3. delivered' = delivered \/ \E x \in Requests : DispatchSends(x)
    BY <1>5, Zenon DEF Next, Register, DrainRead, DrainDelete, DrainTo, PeerGone, Unregister,
         DispatchQueues, EnqueueLlen, EnqueueLpop, EnqueueRpush, TtlPasses,
         Outage, Recovery, Restart, vars
  <2>4. ASSUME NEW x \in Requests, DispatchSends(x) PROVE delivered'[r] = delivered[r]
    <3>1. x # r
      BY <1>5, <2>4
    <3> QED BY <1>0, <2>4, <3>1 DEF DispatchSends
  <2>5. delivered'[r] = delivered[r]
    BY <2>3, <2>4
  <2>6. copies' \in Nat /\ copies' >= copies
    BY <1>0, <2>2
  <2> QED BY <1>0, <2>1, <2>5, <2>6, TallyKept
<1> QED BY <1>1, <1>2, <1>3, <1>4, <1>5

\* In every behaviour the table, the lists and the tally are in order.
THEOREM DeliveryInvariance == Spec => []DeliveryInv
<1>1. Init => DeliveryInv
  <2> SUFFICES ASSUME Init PROVE DeliveryInv
    OBVIOUS
  <2>1. TableInv
    BY DeliveryAssumption DEF Init, TableInv, Phases, CurrentIsNewest, OneLiveSession, Running
  <2>2. TypeOK
    <3>1. reachable \in BOOLEAN
      BY Zenon DEF Init
    <3>2. /\ store \in [Stores -> Lists] /\ batch \in [Sessions -> Lists]
          /\ source \in [Sessions -> Stores] /\ request \in [Requests -> RequestPhases]
          /\ delivered \in [Requests -> Nat]
      BY EmptyIsList DEF Init, Lists, Stores, RequestPhases
    <3>3. expired \subseteq Requests /\ copies \in Nat /\ outages \in 0 .. MaxOutages /\ restarts \in 0 .. MaxRestarts
      BY DeliveryAssumption DEF Init
    <3> QED BY <2>1, <3>1, <3>2, <3>3 DEF TypeOK, TableInv
  <2>3. ListInv
    <3>1. \A k \in Stores : store[k] = <<>>
      BY DEF Init
    <3>2. \A s \in Sessions : batch[s] = <<>> /\ phase[s] = "new"
      BY DEF Init
    <3> QED BY <3>1, <3>2, EmptyIsList DEF ListInv
  <2>4. UnitInv
    <3> SUFFICES ASSUME NEW r \in Requests PROVE Units(r) <= 1 + copies
      BY DEF UnitInv
    <3>1. delivered[r] = 0 /\ copies = 0 /\ \A s \in Sessions : phase[s] = "new"
      BY DEF Init
    <3>2. \A k \in Stores : ~In(r, store[k])
      BY EmptyIsList DEF Init
    <3>3. ~Held("redis", r) /\ ~Held("memory", r) /\ ~Active(r)
      BY <3>1, <3>2 DEF Held, Active, Stores
    <3> QED BY <3>1, <3>3 DEF Units, One
  <2> QED BY <2>1, <2>2, <2>3, <2>4 DEF DeliveryInv
<1>2. DeliveryInv /\ [Next]_vars => DeliveryInv'
  <2> SUFFICES ASSUME DeliveryInv, [Next]_vars PROVE DeliveryInv'
    OBVIOUS
  <2>1. TypeOK /\ TableInv /\ ListInv
    BY DEF DeliveryInv
  <2>2. TableInv'
    BY <2>1, TableStep
  <2>3. TypeOK'
    BY <2>1, <2>2, DeliveryTypes
  <2>4. ListInv'
    BY <2>1, ListStep
  <2>5. UnitInv'
    BY UnitStep
  <2> QED BY <2>2, <2>3, <2>4, <2>5 DEF DeliveryInv
<1> QED BY <1>1, <1>2, PTL DEF Spec

\* The lists, the table and the handlers keep their types; the head of an
\* empty list is never sent.
THEOREM DeliveryTypeCorrect == Spec => []TypeOK
<1>1. DeliveryInv => TypeOK
  BY DEF DeliveryInv
<1> QED BY <1>1, DeliveryInvariance, PTL

\* However many sessions supersede each other, whatever the order of their
\* reads and deletes, and however often Redis fails and the gateway restarts,
\* a request reaches the device at most once, and once more for each failed
\* call that left a copy (OfflineQueue.drain and enqueue, RedisService).
THEOREM NothingIsDeliveredTwice == Spec => []DeliveredOnce
<1>1. DeliveryInv => DeliveredOnce
  <2> SUFFICES ASSUME DeliveryInv, NEW r \in Requests PROVE delivered[r] <= 1 + copies
    BY DEF DeliveredOnce
  <2>1. Units(r) <= 1 + copies /\ delivered[r] \in Nat /\ copies \in Nat
    BY DEF DeliveryInv, UnitInv, TypeOK
  <2>2. \A b : One(b) \in {0, 1}
    BY DEF One
  <2> QED BY <2>1, <2>2 DEF Units
<1> QED BY <1>1, DeliveryInvariance, PTL


=============================================================================
