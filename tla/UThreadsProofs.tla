--------------------------- MODULE UThreadsProofs ---------------------------
(***************************************************************************)
(* The run queue of mp1 is sound for every number of threads: it is one    *)
(* ring through exactly the threads that are queued, and every context     *)
(* that dispatch() jumps to is the one that its thread left.               *)
(***************************************************************************)
EXTENDS UThreads, FiniteSetTheorems, WellFoundedInduction, TLAPS

-----------------------------------------------------------------------------
(* Following the links.                                                    *)

\* Induction, for a set of numbers.
LEMMA SetInduction ==
  ASSUME NEW S, 0 \in S, \A n \in Nat : n \in S => n + 1 \in S
  PROVE  Nat \subseteq S
<1> SUFFICES ASSUME Nat \ S # {} PROVE FALSE
  OBVIOUS
<1> DEFINE R == OpToRel(<, Nat)
<1>1. IsWellFoundedOn(R, Nat)
  BY NatLessThanWellFounded
<1>2. PICK n \in Nat \ S : \A m \in Nat \ S : ~(<<m, n>> \in R)
  BY <1>1, WFMin
<1>3. \A m \in Nat \ S : ~(m < n)
  BY <1>2 DEF OpToRel
<1>4. n \in Nat /\ n # 0
  BY <1>2
<1>5. n - 1 \in Nat /\ n - 1 < n /\ (n - 1) + 1 = n
  BY <1>4
<1>6. n - 1 \in S
  BY <1>3, <1>5
<1>7. (n - 1) + 1 \in S
  BY <1>5, <1>6
<1> QED BY <1>2, <1>5, <1>7

\* The first i links from t on.
Steps(nx, t, i) == CHOOSE step : step = [n \in 0 .. i |-> IF n = 0 THEN t ELSE nx[step[n - 1]]]

LEMMA AfterIsStep ==
  ASSUME NEW nx, NEW t, NEW i PROVE After(nx, t, i) = Steps(nx, t, i)[i]
BY DEF After, Steps

LEMMA StepsExist ==
  ASSUME NEW nx, NEW t, NEW i \in Nat
  PROVE  Steps(nx, t, i) = [n \in 0 .. i |-> IF n = 0 THEN t ELSE nx[Steps(nx, t, i)[n - 1]]]
<1> DEFINE Rec(f, k) == f = [n \in 0 .. k |-> IF n = 0 THEN t ELSE nx[f[n - 1]]]
           S == {k \in Nat : \E f : Rec(f, k)}
<1>1. 0 \in S
  <2>1. Rec([n \in 0 .. 0 |-> t], 0)
    OBVIOUS
  <2> QED BY <2>1
<1>2. ASSUME NEW k \in Nat, k \in S PROVE k + 1 \in S
  <2>1. PICK f : Rec(f, k)
    BY <1>2
  <2> DEFINE g == [n \in 0 .. k + 1 |-> IF n = k + 1 THEN nx[f[k]] ELSE f[n]]
  <2>2. \A n \in 0 .. k : g[n] = f[n]
    OBVIOUS
  <2>3. \A n \in 0 .. k + 1 : g[n] = IF n = 0 THEN t ELSE nx[g[n - 1]]
    <3> TAKE n \in 0 .. k + 1
    <3>1. CASE n = 0
      BY <2>1, <2>2, <3>1
    <3>2. CASE n = k + 1
      BY <2>2, <3>2
    <3>3. CASE n # 0 /\ n # k + 1
      <4>1. n \in 0 .. k /\ n - 1 \in 0 .. k
        BY <3>3
      <4>2. f[n] = nx[f[n - 1]]
        BY <2>1, <3>3, <4>1
      <4> HIDE DEF g
      <4> QED BY <2>2, <3>3, <4>1, <4>2
    <3> QED BY <3>1, <3>2, <3>3
  <2>4. Rec(g, k + 1)
    BY <2>3
  <2> HIDE DEF g
  <2> QED BY <2>4
<1>3. \E f : Rec(f, i)
  BY <1>1, <1>2, SetInduction
<1> QED BY <1>3 DEF Steps

LEMMA StepsAgree ==
  ASSUME NEW nx, NEW t, NEW i \in Nat
  PROVE  \A n \in 0 .. i : Steps(nx, t, i + 1)[n] = Steps(nx, t, i)[n]
<1> DEFINE f == Steps(nx, t, i)
           g == Steps(nx, t, i + 1)
           S == {n \in Nat : n =< i => g[n] = f[n]}
<1>1. f = [n \in 0 .. i |-> IF n = 0 THEN t ELSE nx[f[n - 1]]]
  BY StepsExist
<1>2. g = [n \in 0 .. i + 1 |-> IF n = 0 THEN t ELSE nx[g[n - 1]]]
  BY StepsExist
<1> HIDE DEF f, g
<1>3. 0 \in S
  BY <1>1, <1>2
<1>4. ASSUME NEW n \in Nat, n \in S, n + 1 =< i PROVE g[n + 1] = f[n + 1]
  <2>1. g[n] = f[n]
    BY <1>4
  <2>2. f[n + 1] = nx[f[n]]
    BY <1>1, <1>4
  <2>3. g[n + 1] = nx[g[n]]
    BY <1>2, <1>4
  <2> QED BY <2>1, <2>2, <2>3
<1>5. \A n \in Nat : n \in S => n + 1 \in S
  BY <1>4
<1>6. Nat \subseteq S
  BY <1>3, <1>5, SetInduction
<1> QED BY <1>6 DEF f, g

\* After() follows one link at a time.
LEMMA AfterZero == ASSUME NEW nx, NEW t PROVE After(nx, t, 0) = t
BY AfterIsStep, StepsExist

LEMMA AfterNext ==
  ASSUME NEW nx, NEW t, NEW i \in Nat
  PROVE  After(nx, t, i + 1) = nx[After(nx, t, i)]
<1>1. Steps(nx, t, i + 1)[i + 1] = nx[Steps(nx, t, i + 1)[i]]
  BY StepsExist
<1>2. Steps(nx, t, i + 1)[i] = Steps(nx, t, i)[i]
  BY StepsAgree
<1> QED BY <1>1, <1>2, AfterIsStep

-----------------------------------------------------------------------------
(* Rings.                                                                  *)

\* The links stay in Q, and previous is the inverse of next.
Linked(nx, pv, Q) ==
  \A t \in Q : nx[t] \in Q /\ pv[t] \in Q /\ nx[pv[t]] = t /\ pv[nx[t]] = t

\* No part of Q is closed under nx: Q is one ring.
OneRing(nx, Q) ==
  \A S \in SUBSET Q : S # {} /\ (\A t \in S : nx[t] \in S) => S = Q

LEMMA ThreadsFinite ==
  /\ Threads \subseteq Nat /\ NULL \notin Threads /\ Cardinality(Threads) \in Nat
  /\ \A Q \in SUBSET Threads : IsFiniteSet(Q) /\ Cardinality(Q) =< Cardinality(Threads)
<1>1. IsFiniteSet(Threads)
  BY UThreadsAssumption, FS_Interval DEF UThreadsAssumption, Threads
<1>2. Threads \subseteq Nat /\ NULL \notin Threads
  BY UThreadsAssumption DEF UThreadsAssumption, Threads, NULL
<1> QED BY <1>1, <1>2, FS_Subset, FS_CardinalityType

\* The links lead round the whole ring, in at most as many steps as it has members.
LEMMA RingCovered ==
  ASSUME NEW nx, NEW pv, NEW Q \in SUBSET Threads, NEW c \in Q, Linked(nx, pv, Q), OneRing(nx, Q)
  PROVE  /\ \A i \in Nat : After(nx, c, i) \in Q
         /\ \A t \in Q : \E i \in 1 .. Cardinality(Threads) : t = After(nx, c, i)
<1> DEFINE N == Cardinality(Threads)
           a(i) == After(nx, c, i)
           Reached(k) == {a(i) : i \in 1 .. k}
           In == {i \in Nat : a(i) \in Q}
           Big == {k \in Nat : Reached(k) = Q \/ Cardinality(Reached(k)) >= k}
<1>1. a(0) = c /\ \A i \in Nat : a(i + 1) = nx[a(i)]
  BY AfterZero, AfterNext
<1>0. /\ N \in Nat /\ IsFiniteSet(Q) /\ Cardinality(Q) =< N
      /\ \A t \in Q : nx[t] \in Q
  BY ThreadsFinite DEF Linked
<1> HIDE DEF a, N
<1>2. \A i \in Nat : a(i) \in Q
  <2>1. 0 \in In /\ \A i \in Nat : i \in In => i + 1 \in In
    BY <1>0, <1>1
  <2> QED BY <2>1, SetInduction
<1>3. \A k \in Nat : Reached(k) \subseteq Q /\ IsFiniteSet(Reached(k)) /\ Cardinality(Reached(k)) \in Nat
  BY <1>0, <1>2, FS_Subset, FS_CardinalityType
<1>4. \A k \in Nat : Reached(k + 1) = Reached(k) \cup {a(k + 1)}
  <2> TAKE k \in Nat
  <2>1. 1 .. (k + 1) = (1 .. k) \cup {k + 1}
    OBVIOUS
  <2> QED BY <2>1
<1>5. ASSUME NEW k \in Nat, a(k + 1) \in Reached(k) PROVE Reached(k) = Q
  <2>1. \A t \in Reached(k) : nx[t] \in Reached(k)
    <3> TAKE t \in Reached(k)
    <3>1. PICK i \in 1 .. k : t = a(i)
      OBVIOUS
    <3>2. nx[t] = a(i + 1)
      BY <1>1, <3>1
    <3>3. CASE i = k
      BY <1>5, <3>2, <3>3
    <3>4. CASE i # k
      <4>1. i + 1 \in 1 .. k
        BY <3>4
      <4> QED BY <3>2, <4>1
    <3> QED BY <3>3, <3>4
  <2>2. Reached(k) # {} /\ Reached(k) \in SUBSET Q
    BY <1>3, <1>5
  <2> HIDE DEF Reached
  <2> QED BY <2>1, <2>2 DEF OneRing
<1>6. 0 \in Big
  BY <1>3
<1>7. ASSUME NEW k \in Nat, k \in Big PROVE k + 1 \in Big
  <2>1. CASE Reached(k) = Q
    <3>1. Q \subseteq Reached(k + 1) /\ Reached(k + 1) \subseteq Q
      <4> HIDE DEF Reached
      <4> QED BY <1>3, <1>4, <2>1
    <3> QED BY <3>1
  <2>2. CASE Reached(k) # Q
    <3>1. Cardinality(Reached(k)) >= k /\ a(k + 1) \notin Reached(k)
      BY <1>5, <1>7, <2>2
    <3>2. Cardinality(Reached(k + 1)) = Cardinality(Reached(k)) + 1
      <4>1. Cardinality(Reached(k) \cup {a(k + 1)}) = Cardinality(Reached(k)) + 1
        <5> HIDE DEF Reached
        <5> QED BY <1>3, <3>1, FS_AddElement
      <4> HIDE DEF Reached
      <4> QED BY <1>4, <4>1
    <3> HIDE DEF Reached
    <3> QED BY <1>3, <3>1, <3>2
  <2> QED BY <2>1, <2>2
<1>8. N \in Big
  BY <1>0, <1>6, <1>7, SetInduction
<1>9. Reached(N) = Q
  <2>1. CASE Cardinality(Reached(N)) >= N
    <3>1. Cardinality(Reached(N)) = Cardinality(Q)
      <4> HIDE DEF Reached
      <4> QED BY SMTT(20), <1>0, <1>3, <2>1, FS_Subset, FS_CardinalityType
    <3> HIDE DEF Reached
    <3> QED BY <1>0, <1>3, <3>1, FS_Subset
  <2> QED BY <1>8, <2>1
<1>10. \A t \in Q : \E i \in 1 .. N : t = a(i)
  BY <1>9
<1> QED BY <1>2, <1>10 DEF a, N
\* thread_add_runqueue() puts a thread into the ring, before c ...
LEMMA RingInsert ==
  ASSUME NEW nx \in [Threads -> Threads \cup {NULL}], NEW pv \in [Threads -> Threads \cup {NULL}],
         NEW Q \in SUBSET Threads, NEW c \in Q, NEW t \in Threads, t \notin Q,
         Linked(nx, pv, Q), OneRing(nx, Q),
         NEW nx2, nx2 = [nx EXCEPT ![t] = c, ![pv[c]] = t],
         NEW pv2, pv2 = [pv EXCEPT ![t] = pv[c], ![c] = t]
  PROVE  Linked(nx2, pv2, Q \cup {t}) /\ OneRing(nx2, Q \cup {t})
<1> DEFINE p == pv[c]
<1>1. p \in Q /\ p \in Threads /\ c \in Threads /\ nx[p] = c /\ p # t /\ c # t
  BY DEF Linked
<1>2. /\ nx2[t] = c /\ nx2[p] = t /\ \A x \in Threads : x # t /\ x # p => nx2[x] = nx[x]
      /\ pv2[t] = p /\ pv2[c] = t /\ \A x \in Threads : x # t /\ x # c => pv2[x] = pv[x]
  BY <1>1
<1> HIDE DEF p
<1>3. \A x \in Q : nx[x] \in Q /\ pv[x] \in Q /\ nx[pv[x]] = x /\ pv[nx[x]] = x
  BY DEF Linked
<1>4. pv[c] = p
  BY DEF p
<1>5. Linked(nx2, pv2, Q \cup {t})
  <2> SUFFICES ASSUME NEW x \in Q \cup {t}
               PROVE  nx2[x] \in Q \cup {t} /\ pv2[x] \in Q \cup {t} /\ nx2[pv2[x]] = x /\ pv2[nx2[x]] = x
    BY DEF Linked
  <2>1. CASE x = t
    BY <1>1, <1>2, <2>1
  <2>2. CASE x \in Q
    <3>1. nx2[x] \in Q \cup {t} /\ pv2[nx2[x]] = x
      <4>1. CASE x = p
        BY <1>1, <1>2, <4>1
      <4>2. CASE x # p
        <5>1. nx[x] # c
          BY <1>3, <1>4, <2>2, <4>2
        <5> QED BY <1>1, <1>2, <1>3, <2>2, <4>2, <5>1
      <4> QED BY <4>1, <4>2
    <3>2. pv2[x] \in Q \cup {t} /\ nx2[pv2[x]] = x
      <4>1. CASE x = c
        BY <1>1, <1>2, <4>1
      <4>2. CASE x # c
        <5>1. pv[x] # p
          BY <1>1, <1>3, <2>2, <4>2
        <5> QED BY <1>1, <1>2, <1>3, <2>2, <4>2, <5>1
      <4> QED BY <4>1, <4>2
    <3> QED BY <3>1, <3>2
  <2> QED BY <2>1, <2>2
<1>6. OneRing(nx2, Q \cup {t})
  <2> SUFFICES ASSUME NEW S \in SUBSET (Q \cup {t}), S # {}, \A x \in S : nx2[x] \in S
               PROVE  S = Q \cup {t}
    BY DEF OneRing
  <2>1. c \in S \/ \E x \in S : x # t
    BY <1>2
  <2>2. \A x \in S \ {t} : nx[x] \in S \ {t}
    <3> TAKE x \in S \ {t}
    <3>1. x \in Q /\ x \in Threads /\ x # t
      OBVIOUS
    <3>2. CASE x = p
      BY <1>1, <1>2, <3>2
    <3>3. CASE x # p
      BY <1>2, <1>3, <3>1, <3>3
    <3> QED BY <3>2, <3>3
  <2>3. S \ {t} # {} /\ S \ {t} \in SUBSET Q
    BY <1>1, <2>1
  <2>4. S \ {t} = Q
    BY <2>2, <2>3 DEF OneRing
  <2>5. t \in S
    BY <1>1, <1>2, <2>4
  <2> QED BY <2>4, <2>5
<1> QED BY <1>5, <1>6

\* ... and thread_exit() takes one out.
LEMMA RingRemove ==
  ASSUME NEW nx \in [Threads -> Threads \cup {NULL}], NEW pv \in [Threads -> Threads \cup {NULL}],
         NEW Q \in SUBSET Threads, NEW c \in Q, nx[c] # c,
         Linked(nx, pv, Q), OneRing(nx, Q),
         NEW nx2, nx2[pv[c]] = nx[c], \A x \in Q \ {c} : x # pv[c] => nx2[x] = nx[x],
         NEW pv2, pv2[nx[c]] = pv[c], \A x \in Q \ {c} : x # nx[c] => pv2[x] = pv[x]
  PROVE  Linked(nx2, pv2, Q \ {c}) /\ OneRing(nx2, Q \ {c}) /\ nx[c] \in Q \ {c}
<1> DEFINE p == pv[c]
           n == nx[c]
<1>1. p \in Q /\ n \in Q /\ nx[p] = c /\ pv[n] = c /\ p # c /\ n # c
  BY DEF Linked
<1>2. /\ nx2[p] = n /\ \A x \in Q \ {c} : x # p => nx2[x] = nx[x]
      /\ pv2[n] = p /\ \A x \in Q \ {c} : x # n => pv2[x] = pv[x]
  BY <1>1
<1>3. \A x \in Q : nx[x] \in Q /\ pv[x] \in Q /\ nx[pv[x]] = x /\ pv[nx[x]] = x
  BY DEF Linked
<1>4. pv[c] = p /\ nx[c] = n
  OBVIOUS
<1> HIDE DEF p, n
<1>5. Linked(nx2, pv2, Q \ {c})
  <2> SUFFICES ASSUME NEW x \in Q \ {c}
               PROVE  nx2[x] \in Q \ {c} /\ pv2[x] \in Q \ {c} /\ nx2[pv2[x]] = x /\ pv2[nx2[x]] = x
    BY DEF Linked
  <2>1. nx2[x] \in Q \ {c} /\ pv2[nx2[x]] = x
    <3>1. CASE x = p
      BY <1>1, <1>2, <3>1
    <3>2. CASE x # p
      <4>1. nx[x] # c /\ nx[x] # n
        BY <1>3, <1>4, <3>2
      <4> QED BY <1>2, <1>3, <3>2, <4>1
    <3> QED BY <3>1, <3>2
  <2>2. pv2[x] \in Q \ {c} /\ nx2[pv2[x]] = x
    <3>1. CASE x = n
      BY <1>1, <1>2, <3>1
    <3>2. CASE x # n
      <4>1. pv[x] # c /\ pv[x] # p
        BY <1>3, <1>4, <3>2
      <4> QED BY <1>2, <1>3, <3>2, <4>1
    <3> QED BY <3>1, <3>2
  <2> QED BY <2>1, <2>2
<1>6. OneRing(nx2, Q \ {c})
  <2> SUFFICES ASSUME NEW S \in SUBSET (Q \ {c}), S # {}, \A x \in S : nx2[x] \in S
               PROVE  S = Q \ {c}
    BY DEF OneRing
  <2>1. CASE p \in S
    <3>1. \A x \in S \cup {c} : nx[x] \in S \cup {c}
      <4> TAKE x \in S \cup {c}
      <4>1. CASE x = c
        BY <1>2, <1>4, <2>1, <4>1
      <4>2. CASE x = p
        BY <1>1, <4>2
      <4>3. CASE x # c /\ x # p
        <5>1. x \in S /\ x \in Q \ {c}
          BY <4>3
        <5> QED BY <1>2, <4>3, <5>1
      <4> QED BY <4>1, <4>2, <4>3
    <3>2. S \cup {c} # {} /\ S \cup {c} \in SUBSET Q
      OBVIOUS
    <3>3. S \cup {c} = Q
      BY <3>1, <3>2 DEF OneRing
    <3> QED BY <3>3
  <2>2. CASE p \notin S
    <3>1. \A x \in S : nx[x] \in S
      BY <1>2, <2>2
    <3>2. S \in SUBSET Q
      OBVIOUS
    <3>3. S = Q
      BY <3>1, <3>2 DEF OneRing
    <3> QED BY <3>3
  <2> QED BY <2>1, <2>2
<1> QED BY <1>1, <1>4, <1>5, <1>6

LEMMA MinIsLeast ==
  ASSUME NEW S \in SUBSET Nat, S # {}
  PROVE  Min(S) \in S /\ \A y \in S : Min(S) =< y
<1> DEFINE R == OpToRel(<, Nat)
<1>1. IsWellFoundedOn(R, Nat)
  BY NatLessThanWellFounded
<1>2. PICK q \in S : \A r \in S : ~(<<r, q>> \in R)
  BY <1>1, WFMin
<1>3. \A r \in S : ~(r < q)
  BY <1>2 DEF OpToRel
<1>4. \A r \in S : r \in Nat /\ q \in Nat /\ ~(r < q)
  BY <1>2, <1>3
<1>5. \A r \in S : q =< r
  BY <1>4
<1> QED BY <1>2, <1>5 DEF Min

\* What schedule() finds is in the ring, and if it is another thread, is not suspended.
LEMMA ScheduledInRing ==
  ASSUME NEW Q \in SUBSET Threads, current \in Q, Linked(next, previous, Q), OneRing(next, Q),
         NEW susp
  PROVE  /\ Scheduled(susp) \in Q
         /\ Scheduled(susp) # current => ~susp[Scheduled(susp)]
<1> DEFINE N == Cardinality(Threads)
           a(i) == After(next, current, i)
           stop == {i \in 1 .. N : a(i) = current \/ ~susp[a(i)]}
<1>1. Scheduled(susp) = a(Min(stop))
  BY DEF Scheduled
<1>2. /\ \A i \in Nat : a(i) \in Q
      /\ \A t \in Q : \E i \in 1 .. N : t = a(i)
  BY RingCovered
<1> HIDE DEF a, N
<1>3. stop # {} /\ stop \in SUBSET Nat
  <2>1. PICK i \in 1 .. N : a(i) = current
    BY <1>2
  <2>2. N \in Nat
    BY ThreadsFinite DEF N
  <2> QED BY <2>1, <2>2
<1>4. Min(stop) \in stop
  BY <1>3, MinIsLeast
<1>5. /\ Min(stop) \in Nat
      /\ a(Min(stop)) = current \/ ~susp[a(Min(stop))]
  BY <1>3, <1>4
<1> HIDE DEF stop
<1> QED BY <1>1, <1>2, <1>5

\* What thread_exit() finds is in the ring, and if it is suspended, all are.
LEMMA SuccessorInRing ==
  ASSUME NEW Q \in SUBSET Threads, NEW nx, NEW pv, NEW first \in Q, Linked(nx, pv, Q), OneRing(nx, Q)
  PROVE  /\ Successor(nx, first) \in Q
         /\ suspended[Successor(nx, first)] => \A t \in Q : suspended[t]
<1> DEFINE N == Cardinality(Threads)
           a(i) == After(nx, first, i)
           awake == {i \in 0 .. N : ~suspended[a(i)]}
<1>1. Successor(nx, first) = IF awake = {} THEN first ELSE a(Min(awake))
  BY DEF Successor
<1>2. /\ \A i \in Nat : a(i) \in Q
      /\ \A t \in Q : \E i \in 1 .. N : t = a(i)
  BY RingCovered
<1>3. N \in Nat
  BY ThreadsFinite
<1> HIDE DEF a, N
<1>4. CASE awake = {}
  <2>1. \A i \in 1 .. N : suspended[a(i)]
    BY <1>3, <1>4
  <2>2. \A t \in Q : suspended[t]
    BY <1>2, <2>1
  <2> QED BY <1>1, <1>4, <2>2
<1>5. CASE awake # {}
  <2>1. awake \in SUBSET Nat
    BY <1>3
  <2>2. Min(awake) \in awake
    BY <1>5, <2>1, MinIsLeast
  <2>3. Min(awake) \in Nat /\ ~suspended[a(Min(awake))]
    BY <2>1, <2>2
  <2> HIDE DEF awake
  <2> QED BY <1>1, <1>2, <1>5, <2>3
<1> QED BY <1>4, <1>5

-----------------------------------------------------------------------------
(* The inductive invariant.                                                *)

\* The run queue is one ring, in which the current thread is.
Ring ==
  /\ current = NULL <=> Queue = {}
  /\ current # NULL => current \in Queue
  /\ mode # "main" => current # NULL
  /\ Linked(next, previous, Queue) /\ OneRing(next, Queue)

\* Threads that have not been queued have no context, and what runs is either a body with
\* no signal pending or a handler.
Contexts ==
  /\ \A t \in Threads : status[t] \in {"absent", "created"} =>
       activity[t] = "start" /\ ~bufSet[t] /\ ~handlerBufSet[t]
  /\ mode = "run" =>
       \/ activity[current] = "body" /\ signo[current] = NoSignal
       \/ activity[current] = "handler"
  /\ ContextsMatch

\* What runs has been started, and a saved handler context is one of the thread's.
Started ==
  /\ mode = "run" => activity[current] # "start"
  /\ \A t \in Threads : handlerBufSet[t] => handlerEnv[t] # "none"

RingInv == TypeOK /\ Ring /\ Started
IInv == RingInv /\ (SelfKill = FALSE => Contexts)

LEMMA InitIInv == Init => IInv
<1> SUFFICES ASSUME Init PROVE IInv
  OBVIOUS
<1> USE UThreadsAssumption DEF UThreadsAssumption, Init
<1>1. Queue = {}
  BY DEF Queue
<1>2. TypeOK
  BY DEF TypeOK, NoSignal
<1>3. Ring
  BY <1>1 DEF Ring, Linked, OneRing
<1>4. Contexts
  BY <1>1 DEF Contexts, ContextsMatch
<1>5. Started
  BY DEF Started
<1> QED BY <1>2, <1>3, <1>4, <1>5 DEF IInv, RingInv

\* The run queue is left alone, and the current thread is still in it.
LEMMA SameRing ==
  ASSUME Ring, next' = next, previous' = previous, Queue' = Queue,
         current' = current \/ current' \in Queue,
         mode' # "main" => mode # "main" \/ current # NULL
  PROVE  Ring'
<1>1. NULL \notin Queue
  BY ThreadsFinite DEF Queue
<1>2. current = NULL \/ current \in Queue
  BY DEF Ring
<1>3. /\ current' = NULL <=> Queue' = {}
      /\ current' # NULL => current' \in Queue'
      /\ mode' # "main" => current' # NULL
  BY <1>1, <1>2 DEF Ring
<1>4. Linked(next', previous', Queue') /\ OneRing(next', Queue')
  BY DEF Ring
<1> QED BY <1>3, <1>4 DEF Ring, Linked, OneRing

LEMMA CreateIInv == ASSUME IInv, NEW t \in Threads, ThreadCreate(t) PROVE IInv'
<1> USE DEF IInv, RingInv, ThreadCreate, signalVars, contextVars
<1>1. TypeOK' /\ Started'
  BY DEF TypeOK, Started
<1>2. Queue' = Queue
  BY DEF Queue, TypeOK
<1>3. Ring'
  BY <1>2, SameRing
<1>4. SelfKill = FALSE => Contexts'
  BY <1>2 DEF Contexts, ContextsMatch, TypeOK, Queue
<1> QED BY <1>1, <1>3, <1>4

LEMMA AddIInv == ASSUME IInv, NEW t \in Threads, ThreadAddRunqueue(t) PROVE IInv'
<1> USE DEF IInv, RingInv, ThreadAddRunqueue, contextVars
<1>1. TypeOK' /\ Started'
  BY DEF TypeOK, Started, Ring, Linked, Queue
<1>2. Queue' = Queue \cup {t} /\ t \notin Queue /\ Queue \in SUBSET Threads
  BY DEF Queue, TypeOK
<1>3. Ring'
  <2>1. CASE current = NULL
    <3>1. Queue' = {t} /\ next'[t] = t /\ previous'[t] = t /\ current' = t
      BY <1>2, <2>1 DEF Ring, TypeOK
    <3>2. t # NULL
      BY ThreadsFinite
    <3>3. Linked(next', previous', Queue') /\ OneRing(next', Queue')
      BY <3>1 DEF Linked, OneRing
    <3> QED BY <3>1, <3>2, <3>3 DEF Ring, Linked, OneRing
  <2>2. CASE current # NULL
    <3>1. current \in Queue /\ Linked(next, previous, Queue) /\ OneRing(next, Queue)
      BY <2>2 DEF Ring
    <3>2. /\ next' = [next EXCEPT ![t] = current, ![previous[current]] = t]
          /\ previous' = [previous EXCEPT ![t] = previous[current], ![current] = t]
          /\ current' = current /\ mode' = mode
      BY <2>2
    <3>3. Linked(next', previous', Queue') /\ OneRing(next', Queue')
      BY <1>2, <3>1, <3>2, RingInsert DEF TypeOK
    <3> QED BY <1>2, <2>2, <3>1, <3>2, <3>3 DEF Ring, Linked, OneRing
  <2> QED BY <2>1, <2>2
<1>4. ASSUME SelfKill = FALSE PROVE Contexts'
  <2>1. \A u \in Threads : u # t => status'[u] = status[u] /\ sigHandler'[u] = sigHandler[u]
    BY DEF TypeOK
  <2>2. /\ activity[t] = "start" /\ ~bufSet[t] /\ ~handlerBufSet[t]
        /\ status'[t] = "queued"
    BY <1>4 DEF Contexts, TypeOK
  <2>3. current # NULL => current' = current
    OBVIOUS
  <2>4. mode = "run" => current # NULL
    BY DEF Ring
  <2>5. current # NULL => current \in Queue /\ current # t
    BY <1>2 DEF Ring
  <2>6. \A u \in Threads : status'[u] \in {"absent", "created"} =>
          activity'[u] = "start" /\ ~bufSet'[u] /\ ~handlerBufSet'[u]
    BY <1>4, <2>1, <2>2 DEF Contexts
  <2>7. mode' = "run" => \/ activity'[current'] = "body" /\ signo'[current'] = NoSignal
                         \/ activity'[current'] = "handler"
    BY <1>4, <2>3, <2>4 DEF Contexts
  <2>8. ContextsMatch'
    BY <1>2, <1>4, <2>1, <2>2, <2>3, <2>4, <2>5 DEF Contexts, ContextsMatch, Queue
  <2> QED BY <2>6, <2>7, <2>8 DEF Contexts
<1> QED BY <1>1, <1>3, <1>4

LEMMA StartIInv == ASSUME IInv, ThreadStartThreading PROVE IInv'
<1> USE DEF IInv, RingInv, ThreadStartThreading, linkVars, signalVars, contextVars
<1>1. TypeOK' /\ Started'
  BY DEF TypeOK, Started
<1>2. Queue' = Queue
  BY DEF Queue, TypeOK
<1>3. Ring'
  BY <1>2, SameRing
<1>4. SelfKill = FALSE => Contexts'
  BY <1>2 DEF Contexts, ContextsMatch
<1> QED BY <1>1, <1>3, <1>4

\* The context of the current thread is saved, and another thread, or the same, is next.
LEMMA YieldWithIInv ==
  ASSUME IInv, Running, NEW susp, YieldWith(susp),
         UNCHANGED <<linkVars, signalVars, activity>>, suspended' \in [Threads -> BOOLEAN]
  PROVE  IInv'
<1> USE DEF IInv, RingInv, Running, YieldWith, linkVars, signalVars
<1>1. Queue' = Queue
  BY DEF Queue
<1>2. current \in Queue /\ current \in Threads
  BY DEF Ring, Queue
<1>3. current' \in Queue /\ current' \in Threads
  BY <1>2, ScheduledInRing DEF Ring, Queue
<1>4. TypeOK' /\ Started'
  <2>1. activity[current] \in {"body", "handler"}
    BY <1>2 DEF TypeOK, Started
  <2>2. /\ handlerEnv' \in [Threads -> {"none", "body", "handler"}]
        /\ bufSet' \in [Threads -> BOOLEAN] /\ handlerBufSet' \in [Threads -> BOOLEAN]
    BY ZenonT(30), <2>1 DEF TypeOK
  <2>3. \A t \in Threads : handlerBufSet'[t] => handlerEnv'[t] # "none"
    <3>1. CASE signo[current] = NoSignal
      BY <3>1 DEF Started
    <3>2. CASE signo[current] # NoSignal
      BY <1>2, <2>1, <3>2 DEF Started, TypeOK
    <3> QED BY <3>1, <3>2
  <2> QED BY <1>3, <2>2, <2>3 DEF TypeOK, Started
<1>5. Ring'
  BY <1>1, <1>3, SameRing
<1>6. ASSUME SelfKill = FALSE PROVE Contexts'
  <2> USE <1>6
  <2>1. activity[current] \in {"body", "handler"}
    BY DEF Contexts
  <2>2. CASE signo[current] = NoSignal
    <3>1. activity[current] = "body"
      <4>1. NoSignal \notin sigHandler[current]
        BY <1>2, UThreadsAssumption DEF UThreadsAssumption, TypeOK, NoSignal
      <4> QED BY <1>2, <2>2, <4>1 DEF Contexts, ContextsMatch
    <3> QED BY <1>1, <1>2, <2>2, <3>1 DEF Contexts, ContextsMatch, TypeOK, Queue
  <2>3. CASE signo[current] # NoSignal
    <3>1. activity[current] = "handler"
      BY <2>3 DEF Contexts
    <3> QED BY <1>1, <1>2, <2>3, <3>1 DEF Contexts, ContextsMatch, TypeOK, Queue
  <2> QED BY <2>2, <2>3
<1> QED BY <1>4, <1>5, <1>6

LEMMA YieldIInv == ASSUME IInv, ThreadYield PROVE IInv'
<1>1. suspended' \in [Threads -> BOOLEAN]
  BY DEF IInv, RingInv, TypeOK, ThreadYield
<1> QED BY <1>1, YieldWithIInv DEF ThreadYield

LEMMA SuspendIInv == ASSUME IInv, NEW t \in Threads, ThreadSuspend(t) PROVE IInv'
<1>1. suspended' \in [Threads -> BOOLEAN]
  BY DEF IInv, RingInv, TypeOK, ThreadSuspend
<1>2. CASE t = current
  BY <1>1, <1>2, YieldWithIInv DEF ThreadSuspend
<1>3. CASE t # current
  <2> USE <1>3 DEF IInv, RingInv, ThreadSuspend, linkVars, signalVars
  <2>1. TypeOK' /\ Started'
    BY <1>1 DEF TypeOK, Started
  <2>2. Queue' = Queue
    BY DEF Queue
  <2>3. Ring'
    BY <2>2, SameRing
  <2>4. SelfKill = FALSE => Contexts'
    BY <2>2 DEF Contexts, ContextsMatch
  <2> QED BY <2>1, <2>3, <2>4
<1> QED BY <1>2, <1>3

LEMMA ResumeIInv == ASSUME IInv, NEW t \in Threads, ThreadResume(t) PROVE IInv'
<1> USE DEF IInv, RingInv, ThreadResume, linkVars, signalVars, contextVars
<1>1. TypeOK' /\ Started'
  BY DEF TypeOK, Started
<1>2. Queue' = Queue
  BY DEF Queue
<1>3. Ring'
  BY <1>2, SameRing
<1>4. SelfKill = FALSE => Contexts'
  BY <1>2 DEF Contexts, ContextsMatch
<1> QED BY <1>1, <1>3, <1>4

LEMMA RegisterIInv == ASSUME IInv, NEW s \in Signals, ThreadRegisterHandler(s) PROVE IInv'
<1> USE DEF IInv, RingInv, ThreadRegisterHandler, linkVars, contextVars
<1>1. TypeOK' /\ Started'
  BY DEF TypeOK, Started
<1>2. Queue' = Queue /\ Queue \in SUBSET Threads
  BY DEF Queue
<1>3. Ring'
  BY <1>2, SameRing
<1>4. \A t \in Threads : sigHandler[t] \subseteq sigHandler'[t]
  BY DEF TypeOK
<1>5. SelfKill = FALSE => Contexts'
  BY <1>2, <1>4 DEF Contexts, ContextsMatch
<1> QED BY <1>1, <1>3, <1>5

\* A thread that is executing its body has no signal pending: others cannot kill it now.
LEMMA KillIInv == ASSUME IInv, NEW t \in Threads, NEW s \in Signals, ThreadKill(t, s) PROVE IInv'
<1> USE DEF IInv, RingInv, ThreadKill, linkVars, contextVars
<1>1. TypeOK' /\ Started'
  BY DEF TypeOK, Started
<1>2. Queue' = Queue /\ Queue \in SUBSET Threads
  BY DEF Queue
<1>3. Ring'
  BY <1>2, SameRing
<1>4. ASSUME SelfKill = FALSE PROVE Contexts'
  <2>1. t # current
    BY <1>4
  <2>2. current \in Threads
    BY <1>2 DEF Ring, Running
  <2>3. NoSignal \notin sigHandler[t]
    BY UThreadsAssumption DEF UThreadsAssumption, TypeOK, NoSignal
  <2>4. \A u \in Threads : u # t => signo'[u] = signo[u]
    BY DEF TypeOK
  <2>5. signo[t] = NoSignal
    OBVIOUS
  <2>6. t \in Queue => activity[t] # "handler"
    BY <1>4, <2>3, <2>5 DEF Contexts, ContextsMatch
  <2>7. ContextsMatch'
    BY <1>2, <1>4, <2>4, <2>6 DEF Contexts, ContextsMatch
  <2> QED BY <1>4, <2>1, <2>2, <2>4, <2>7 DEF Contexts
<1> QED BY <1>1, <1>3, <1>4

\* The current thread leaves the ring; what remains is a ring, and the next current thread
\* is in it, suspended only if all are.
LEMMA ExitRing ==
  ASSUME IInv, current # NULL, ExitCurrent
  PROVE  /\ Ring' /\ Queue' = Queue \ {current}
         /\ current' # NULL /\ suspended[current'] => \A t \in Queue' : suspended[t]
         /\ mode' # "run"
<1> USE DEF IInv, RingInv, ExitCurrent, Free
<1> DEFINE p == previous[current]
           n == next[current]
           unlinked == [next EXCEPT ![p] = n]
<1>1. /\ current \in Queue /\ current \in Threads /\ Queue \in SUBSET Threads
      /\ Linked(next, previous, Queue) /\ OneRing(next, Queue)
  BY DEF Ring, Queue
<1>2. Queue' = Queue \ {current} /\ Queue' \in SUBSET Threads
  BY <1>1 DEF Queue, TypeOK
<1>3. p \in Queue /\ n \in Queue /\ p \in Threads /\ n \in Threads
  BY <1>1 DEF Linked
<1>4. CASE n = current
  <2>1. current' = NULL /\ mode' = "main"
    BY <1>4
  <2>2. Queue = {current}
    <3>1. {current} \in SUBSET Queue /\ \A t \in {current} : next[t] \in {current}
      BY <1>1, <1>4
    <3> QED BY <1>1, <3>1 DEF OneRing
  <2>3. Queue' = {}
    BY <1>2, <2>2
  <2>4. Linked(next', previous', Queue') /\ OneRing(next', Queue')
    BY <2>3 DEF Linked, OneRing
  <2>5. Ring'
    BY <2>1, <2>3, <2>4 DEF Ring, Linked, OneRing
  <2> QED BY <1>2, <2>1, <2>5
<1>5. CASE n # current
  <2>1. /\ next' = [unlinked EXCEPT ![current] = NULL]
        /\ previous' = [previous EXCEPT ![n] = p, ![current] = NULL]
        /\ current' = Successor(unlinked, n) /\ mode' = "dispatch"
    BY <1>5
  <2>2. unlinked[p] = n /\ \A x \in Queue \ {current} : x # p => unlinked[x] = next[x]
    BY <1>1, <1>3 DEF TypeOK
  <2>3. next'[p] = n /\ \A x \in Queue \ {current} : x # p => next'[x] = next[x]
    BY <1>1, <1>3, <2>1 DEF TypeOK
  <2>4. previous'[n] = p /\ \A x \in Queue \ {current} : x # n => previous'[x] = previous[x]
    BY <1>1, <1>3, <2>1 DEF TypeOK
  <2>5. next \in [Threads -> Threads \cup {NULL}] /\ previous \in [Threads -> Threads \cup {NULL}]
    BY DEF TypeOK
  <2>6. /\ Linked(unlinked, previous', Queue \ {current}) /\ OneRing(unlinked, Queue \ {current})
        /\ n \in Queue \ {current}
    <3> HIDE DEF unlinked, IInv, RingInv, ExitCurrent, Free
    <3> QED BY <1>1, <1>5, <2>2, <2>4, <2>5, RingRemove
  <2>7. Linked(next', previous', Queue') /\ OneRing(next', Queue')
    <3> HIDE DEF IInv, RingInv, ExitCurrent, Free
    <3> QED BY <1>1, <1>2, <1>5, <2>3, <2>4, <2>5, RingRemove
  <2>8. /\ current' \in Queue'
        /\ suspended[current'] => \A t \in Queue' : suspended[t]
    <3> HIDE DEF unlinked, n
    <3> QED BY <1>2, <2>1, <2>6, SuccessorInRing
  <2>9. current' # NULL
    BY <1>2, <2>8, ThreadsFinite
  <2>10. Ring'
    BY <2>7, <2>8, <2>9 DEF Ring, Linked, OneRing
  <2> QED BY <1>2, <2>1, <2>8, <2>10
<1> QED BY <1>4, <1>5

LEMMA ExitIInv == ASSUME IInv, current # NULL, ExitCurrent PROVE IInv'
<1>1. /\ Ring' /\ Queue' = Queue \ {current} /\ mode' # "run"
  BY ExitRing
<1>2. current \in Queue /\ current \in Threads /\ Queue \in SUBSET Threads
  BY DEF IInv, RingInv, Ring, Queue
<1>3. /\ \A t \in Threads : t # current =>
           /\ status'[t] = status[t] /\ activity'[t] = activity[t] /\ signo'[t] = signo[t]
           /\ sigHandler'[t] = sigHandler[t] /\ bufSet'[t] = bufSet[t]
           /\ handlerBufSet'[t] = handlerBufSet[t] /\ handlerEnv'[t] = handlerEnv[t]
      /\ status'[current] = "freed" /\ ~handlerBufSet'[current]
  BY <1>2 DEF IInv, RingInv, TypeOK, ExitCurrent, Free
<1>4. TypeOK'
  <2>1. current' \in Threads \cup {NULL} /\ mode' \in {"main", "run", "dispatch"}
    BY <1>1, <1>2 DEF Ring, ExitCurrent
  <2>2. next[current] \in Threads /\ previous[current] \in Threads
    BY <1>2 DEF IInv, RingInv, Ring, Linked
  <2>3. next' \in [Threads -> Threads \cup {NULL}] /\ previous' \in [Threads -> Threads \cup {NULL}]
    BY <1>2, <2>2 DEF IInv, RingInv, TypeOK, ExitCurrent
  <2> QED BY <1>2, <2>1, <2>3 DEF IInv, RingInv, TypeOK, ExitCurrent, Free
<1>5. Started'
  BY <1>1, <1>3 DEF IInv, RingInv, Started
<1>6. ASSUME SelfKill = FALSE PROVE Contexts'
  <2>1. Contexts
    BY <1>6 DEF IInv
  <2>2. ContextsMatch'
    <3> SUFFICES ASSUME NEW t \in Queue'
                 PROVE  /\ activity'[t] = "start" => ~bufSet'[t] /\ ~handlerBufSet'[t]
                        /\ activity'[t] = "body" => bufSet'[t] /\ ~handlerBufSet'[t]
                        /\ activity'[t] = "handler" =>
                             /\ signo'[t] \in sigHandler'[t]
                             /\ handlerBufSet'[t] /\ handlerEnv'[t] = "handler"
      BY <1>1 DEF ContextsMatch
    <3> QED BY <1>1, <1>2, <1>3, <2>1 DEF Contexts, ContextsMatch
  <2> QED BY <1>1, <1>3, <2>1, <2>2 DEF Contexts
<1> QED BY <1>1, <1>4, <1>5, <1>6 DEF IInv, RingInv

\* What the current thread goes on with; the queue stays.
LEMMA EnterBodyIInv ==
  ASSUME IInv, current # NULL, EnterBody, SelfKill = FALSE => ~handlerBufSet[current],
         UNCHANGED <<current, linkVars, suspended, sigHandler, handlerBufSet, handlerEnv>>,
         signo' = [signo EXCEPT ![current] = NoSignal]
  PROVE  IInv'
<1> USE DEF IInv, RingInv, EnterBody, linkVars
<1>1. Queue' = Queue /\ Queue \in SUBSET Threads
  BY DEF Queue
<1>2. current \in Queue /\ current \in Threads
  BY <1>1 DEF Ring
<1>3. TypeOK' /\ Started'
  BY <1>2 DEF TypeOK, Started
<1>4. Ring'
  BY <1>1, SameRing
<1>5. SelfKill = FALSE => Contexts'
  <2>1. /\ \A t \in Threads : t # current =>
             signo'[t] = signo[t] /\ activity'[t] = activity[t] /\ bufSet'[t] = bufSet[t]
        /\ activity'[current] = "body" /\ ~bufSet'[current] /\ signo'[current] = NoSignal
        /\ status[current] = "queued"
    BY <1>2 DEF TypeOK, Queue
  <2> QED BY <1>1, <1>2, <2>1 DEF Contexts, ContextsMatch
<1> QED BY <1>3, <1>4, <1>5

LEMMA HandlerReturnIInv == ASSUME IInv, HandlerReturn PROVE IInv'
<1>1. current # NULL
  BY DEF IInv, RingInv, Ring, HandlerReturn, Running
<1>2. SelfKill = FALSE => ~handlerBufSet[current]
  BY <1>1 DEF IInv, RingInv, Ring, Contexts, ContextsMatch, HandlerReturn, Running
<1> QED BY <1>1, <1>2, EnterBodyIInv DEF HandlerReturn

LEMMA DispatchBodyIInv == ASSUME IInv, DispatchBody PROVE IInv'
<1>1. current # NULL /\ current \in Queue
  BY DEF IInv, RingInv, Ring, DispatchBody
<1>2. SelfKill = FALSE => ~handlerBufSet[current]
  <2>1. NoSignal \notin sigHandler[current]
    BY <1>1, UThreadsAssumption DEF UThreadsAssumption, IInv, RingInv, TypeOK, Queue, NoSignal
  <2>2. activity[current] \in {"start", "body", "handler"}
    BY <1>1 DEF IInv, RingInv, TypeOK, Queue
  <2> QED BY <1>1, <2>1, <2>2 DEF IInv, Contexts, ContextsMatch, DispatchBody
<1>3. signo' = [signo EXCEPT ![current] = NoSignal]
  BY <1>1 DEF IInv, RingInv, TypeOK, Queue, DispatchBody, signalVars
<1> QED BY <1>1, <1>2, <1>3, EnterBodyIInv DEF DispatchBody, signalVars

LEMMA DispatchHandlerIInv == ASSUME IInv, DispatchHandler PROVE IInv'
<1> USE DEF IInv, RingInv, DispatchHandler, linkVars, signalVars
<1>1. Queue' = Queue /\ Queue \in SUBSET Threads
  BY DEF Queue
<1>2. current # NULL /\ current \in Queue /\ current \in Threads
  BY <1>1 DEF Ring
<1>3. /\ \A t \in Threads : t # current =>
           /\ activity'[t] = activity[t] /\ handlerBufSet'[t] = handlerBufSet[t]
           /\ handlerEnv'[t] = handlerEnv[t]
      /\ ~handlerBufSet'[current]
      /\ handlerBufSet[current] => activity'[current] = handlerEnv[current]
      /\ ~handlerBufSet[current] => activity'[current] = "handler"
  BY <1>2 DEF TypeOK
<1>4. activity'[current] \in {"body", "handler"}
  BY <1>2, <1>3 DEF TypeOK, Started
<1>5. TypeOK' /\ Started'
  <2>1. activity' \in [Threads -> {"start", "body", "handler"}]
    <3>1. activity' = [activity EXCEPT ![current] = activity'[current]]
      BY <1>2 DEF TypeOK
    <3> QED BY <1>4, <3>1 DEF TypeOK
  <2> QED BY <1>2, <1>3, <1>4, <2>1 DEF TypeOK, Started
<1>6. Ring'
  BY <1>1, <1>2, SameRing
<1>7. ASSUME SelfKill = FALSE PROVE Contexts'
  <2>1. Contexts /\ signo[current] # NoSignal
    BY <1>2, <1>7, UThreadsAssumption DEF UThreadsAssumption, TypeOK, NoSignal
  <2>2. handlerBufSet[current] => handlerEnv[current] = "handler"
    BY <1>2, <2>1 DEF Contexts, ContextsMatch, TypeOK
  <2>3. activity'[current] = "handler"
    BY <1>3, <2>2
  <2>4. status[current] = "queued"
    BY <1>2 DEF Queue
  <2> QED BY <1>1, <1>2, <1>3, <2>1, <2>3, <2>4 DEF Contexts, ContextsMatch
<1> QED BY <1>5, <1>6, <1>7

-----------------------------------------------------------------------------
(* The theorems.                                                           *)

LEMMA StepIInv == IInv /\ [Next]_vars => IInv'
<1> SUFFICES ASSUME IInv, [Next]_vars PROVE IInv'
  OBVIOUS
<1>1. ASSUME NEW t \in Threads,
             ThreadCreate(t) \/ ThreadAddRunqueue(t) \/ ThreadSuspend(t) \/ ThreadResume(t)
      PROVE  IInv'
  BY <1>1, CreateIInv, AddIInv, SuspendIInv, ResumeIInv
<1>2. ASSUME NEW t \in Threads, NEW s \in Signals, ThreadKill(t, s) PROVE IInv'
  BY <1>2, KillIInv
<1>3. ASSUME NEW s \in Signals, ThreadRegisterHandler(s) PROVE IInv'
  BY <1>3, RegisterIInv
<1>4. CASE ThreadStartThreading
  BY <1>4, StartIInv
<1>5. CASE ThreadYield
  BY <1>5, YieldIInv
<1>6. CASE ThreadExit \/ DispatchExit
  <2>1. current # NULL
    BY <1>6 DEF IInv, RingInv, Ring, ThreadExit, DispatchExit, Running
  <2> QED BY <1>6, <2>1, ExitIInv DEF ThreadExit, DispatchExit
<1>7. CASE HandlerReturn
  BY <1>7, HandlerReturnIInv
<1>8. CASE DispatchHandler
  BY <1>8, DispatchHandlerIInv
<1>9. CASE DispatchBody
  BY <1>9, DispatchBodyIInv
<1>10. CASE UNCHANGED vars
  BY <1>10 DEF vars, linkVars, signalVars, contextVars, IInv, RingInv, TypeOK, Ring, Linked, OneRing,
               Started, Contexts, ContextsMatch, Queue
<1> QED BY <1>1, <1>2, <1>3, <1>4, <1>5, <1>6, <1>7, <1>8, <1>9, <1>10 DEF Next, Dispatch

LEMMA IInvAlways == Spec => []IInv
BY InitIInv, StepIInv, PTL DEF Spec

LEMMA RingIsIntact == RingInv => RingIntegrity
<1> SUFFICES ASSUME RingInv PROVE RingIntegrity
  OBVIOUS
<1>1. /\ current = NULL <=> Queue = {}
      /\ mode # "main" => current # NULL
  BY DEF RingInv, Ring
<1>2. ASSUME current # NULL
      PROVE  /\ {After(next, current, i) : i \in 1 .. Cardinality(Threads)} = Queue
             /\ \A t \in Queue : next[previous[t]] = t /\ previous[next[t]] = t
  <2>1. /\ current \in Queue /\ Queue \in SUBSET Threads
        /\ Linked(next, previous, Queue) /\ OneRing(next, Queue)
    BY <1>2 DEF RingInv, Ring, Queue
  <2>2. /\ \A i \in Nat : After(next, current, i) \in Queue
        /\ \A t \in Queue : \E i \in 1 .. Cardinality(Threads) : t = After(next, current, i)
    BY <2>1, RingCovered
  <2>3. 1 .. Cardinality(Threads) \subseteq Nat
    BY ThreadsFinite
  <2>4. {After(next, current, i) : i \in 1 .. Cardinality(Threads)} = Queue
    BY <2>2, <2>3
  <2> QED BY <2>1, <2>4 DEF Linked
<1> QED BY <1>1, <1>2 DEF RingIntegrity

\* However threads are created, queued, suspended, killed and ended, and whether or not
\* they kill themselves, the run queue is one ring through exactly those that are queued.
THEOREM RingStaysIntact == Spec => [](TypeOK /\ RingIntegrity)
<1>1. IInv => TypeOK /\ RingIntegrity
  BY RingIsIntact DEF IInv, RingInv
<1> QED BY <1>1, IInvAlways, PTL

\* If no thread kills itself, the saved contexts are sound as well: dispatch() returns to
\* where the thread was, and to no context twice.
THEOREM RunQueueStaysSound == SelfKill = FALSE => (Spec => []RunQueueSound)
<1> SUFFICES ASSUME SelfKill = FALSE PROVE Spec => []RunQueueSound
  OBVIOUS
<1>1. IInv => RunQueueSound
  BY RingIsIntact DEF IInv, RingInv, Contexts, RunQueueSound
<1> QED BY <1>1, IInvAlways, PTL

\* Nobody gives the processor to a suspended thread while another could have it: what
\* schedule() and thread_exit() find is suspended only if the whole queue is.
THEOREM SuspendedRunLast == Spec => SuspendedRunsLast
<1> DEFINE Last == current' \notin {current, NULL} /\ suspended'[current']
                     => \A t \in Queue' : suspended'[t]
<1>1. IInv /\ [Next]_vars => [Last]_vars
  <2> SUFFICES ASSUME IInv, Next, current' \notin {current, NULL}, suspended'[current']
               PROVE  \A t \in Queue' : suspended'[t]
    OBVIOUS
  <2>1. ASSUME NEW susp, Running, YieldWith(susp), susp = suspended' PROVE FALSE
    <3>1. current \in Queue /\ Queue \in SUBSET Threads /\ Linked(next, previous, Queue) /\ OneRing(next, Queue)
      BY <2>1 DEF IInv, RingInv, Ring, Running, Queue
    <3> QED BY <2>1, <3>1, ScheduledInRing DEF YieldWith
  <2>2. ASSUME NEW t \in Threads, ThreadAddRunqueue(t) PROVE \A u \in Queue' : suspended'[u]
    <3>1. Queue' = {t} /\ current' = t
      BY <2>2 DEF ThreadAddRunqueue, IInv, RingInv, TypeOK, Ring, Queue
    <3> QED BY <3>1
  <2>3. ASSUME NEW t \in Threads, ThreadSuspend(t) PROVE FALSE
    BY <2>1, <2>3 DEF ThreadSuspend
  <2>4. CASE ThreadYield
    BY <2>1, <2>4 DEF ThreadYield
  <2>5. CASE ThreadExit \/ DispatchExit
    <3>1. current # NULL /\ ExitCurrent
      BY <2>5 DEF IInv, RingInv, Ring, ThreadExit, DispatchExit, Running
    <3>2. current \in Threads /\ current \notin Queue' /\ Queue' \in SUBSET Threads /\ current' \in Queue'
      BY <3>1, ExitRing DEF IInv, RingInv, Ring, Queue
    <3>3. \A t \in Threads : t # current => suspended'[t] = suspended[t]
      BY <3>1 DEF ExitCurrent, Free, IInv, RingInv, TypeOK
    <3>4. \A t \in Queue' : suspended[t]
      BY <3>1, <3>2, <3>3, ExitRing
    <3> QED BY <3>2, <3>3, <3>4
  <2> QED BY <2>2, <2>3, <2>4, <2>5
          DEF Next, Dispatch, ThreadCreate, ThreadResume, ThreadKill, ThreadRegisterHandler,
              ThreadStartThreading, HandlerReturn, DispatchHandler, DispatchBody
<1> QED BY <1>1, IInvAlways, PTL DEF Spec, SuspendedRunsLast
=============================================================================
