---------------------------- MODULE LibpodProofs ----------------------------
(***************************************************************************)
(* What a successful native network creation means, for every number of     *)
(* callers, every pool and every set of foreign subnets.                    *)
(***************************************************************************)
EXTENDS LibpodNetwork, FiniteSetTheorems, WellFoundedInduction, TLAPS

\* The choice is a block of the pool.
LEMMA FirstUnusedInPool ==
    ASSUME NEW start \in Hashes, NEW ns
    PROVE  FirstUnused(start, ns) \subseteq Pool
<1>1. \A i \in 0 .. Blocks - 1 : (start + i) % Blocks \in 0 .. Blocks - 1
  BY LibpodAssumption DEF Hashes
<1> QED
  BY <1>1 DEF FirstUnused, Pool

\* Blocks of the pool are prefixes, and the first one is in the pool.
LEMMA PoolPrefixes == Pool \subseteq [addr : Nat, size : Nat \ {0}] /\ Block(0) \in Pool
<1>1. \A i \in 0 .. Blocks - 1 : i * BlockSize \in Nat
  BY LibpodAssumption
<1>2. 0 \in 0 .. Blocks - 1
  BY LibpodAssumption
<1> QED
  BY <1>1, <1>2, LibpodAssumption DEF Pool, Block

\* The retry counter never passes its bound: a call that is still running has
\* rounds left.
Bounded == \A c \in Callers : pc[c] \in {"list", "post"} => attempt[c] < Attempts

\* Every call keeps its type: the loop of network creation stays within its
\* bound and asks for blocks of the pool only.
THEOREM TypeCorrect == Spec => []TypeOK
<1> USE LibpodAssumption
<1>1. Init => TypeOK /\ Bounded
  BY PoolPrefixes DEF Init, TypeOK, Bounded, Running, Ended
<1>2. TypeOK /\ Bounded /\ [Next]_vars => TypeOK' /\ Bounded'
  <2> SUFFICES ASSUME TypeOK, Bounded, [Next]_vars
               PROVE  TypeOK' /\ Bounded'
    OBVIOUS
  <2> USE DEF TypeOK, Bounded, Running, Ended
  <2>1. ASSUME NEW c \in Callers, NEW s \in Hashes, List(c, s)
        PROVE  TypeOK' /\ Bounded'
    BY <2>1, FirstUnusedInPool, PoolPrefixes DEF List, Goto
  <2>2. ASSUME NEW c \in Callers, Post(c)
        PROVE  TypeOK' /\ Bounded'
    <3>1. pick[c] \in [addr : Nat, size : Nat \ {0}]
      BY PoolPrefixes
    <3>2. nets' \subseteq Network
      BY <2>2, <3>1 DEF Post, Network
    <3> QED
      BY <2>2, <3>2 DEF Post, Goto
  <2>3. ASSUME NEW c \in Callers, PostTaken(c)
        PROVE  TypeOK' /\ Bounded'
    <3>1. attempt[c] + 1 \in 0 .. Attempts
      BY <2>3 DEF PostTaken
    <3> QED
      BY <2>3, <3>1 DEF PostTaken, Goto
  <2>4. ASSUME NEW c \in Callers, Verify(c) \/ Remove(c) \/ Fail(c)
        PROVE  TypeOK' /\ Bounded'
    BY <2>4 DEF Verify, Remove, Fail, Goto
  <2>5. ASSUME NEW p \in Foreign, OtherCreate(p)
        PROVE  TypeOK' /\ Bounded'
    <3>1. nets' \subseteq Network
      BY <2>5 DEF OtherCreate, Network
    <3> QED
      BY <2>5, <3>1 DEF OtherCreate
  <2>6. CASE OtherRemove
    BY <2>6 DEF OtherRemove
  <2>7. CASE UNCHANGED vars
    BY <2>7 DEF vars
  <2> QED
    BY <2>1, <2>2, <2>3, <2>4, <2>5, <2>6, <2>7 DEF Next, Call
<1> QED
  BY <1>1, <1>2, PTL DEF Spec

-----------------------------------------------------------------------------
(* Prefixes and their address ranges.                                       *)

Prefix == [addr : Nat, size : Nat \ {0}]

\* The block of size s around an address.
LEMMA Rounding ==
    ASSUME NEW a \in Nat, NEW s \in Nat \ {0}
    PROVE  /\ a \div s \in Nat
           /\ a - (a % s) = (a \div s) * s
           /\ (a \div s) * s <= a /\ a < (a \div s) * s + s
           /\ \A q \in Nat : q * s <= a /\ a < q * s + s => a \div s = q
  <1>1. a \div s \in Nat /\ a % s \in 0 .. s - 1
    OBVIOUS
  <1>2. a - (a % s) = (a \div s) * s
    OBVIOUS
  <1>3. (a \div s) * s <= a /\ a < (a \div s) * s + s
    BY <1>1, <1>2
  <1>4. ASSUME NEW q \in Nat, q * s <= a, a < q * s + s PROVE a \div s = q
    BY <1>4
  <1> QED BY <1>1, <1>2, <1>3, <1>4

\* prefixesOverlap finds only address ranges that meet ...
LEMMA OverlapIntersects ==
    ASSUME NEW p \in Prefix, NEW q \in Prefix, prefixesOverlap(p, q)
    PROVE  Intersect(p, q)
  <1>1. ASSUME NEW u \in Prefix, NEW v \in Prefix, Contains(u, v.addr)
        PROVE  Base(u) < Base(v) + v.size /\ Base(v) < Base(u) + u.size
    <2> DEFINE a == u.addr  s == u.size  b == v.addr  t == v.size
               A == a \div s  B == b \div t
    <2>1. a \in Nat /\ b \in Nat /\ s \in Nat \ {0} /\ t \in Nat \ {0} /\ A = b \div s
      BY <1>1 DEF Prefix, Contains
    <2>2. Base(u) = A * s /\ Base(v) = B * t /\ A \in Nat /\ B \in Nat
      BY <2>1, Rounding DEF Base
    <2>3. A * s <= b /\ b < A * s + s /\ B * t <= b /\ b < B * t + t
      BY <2>1, Rounding
    <2> HIDE DEF a, s, b, t, A, B
    <2>4. A * s < B * t + t /\ B * t < A * s + s
      BY <2>1, <2>2, <2>3
    <2> QED BY <2>2, <2>3, <2>4 DEF t, s
  <1> QED BY <1>1 DEF prefixesOverlap, Intersect

\* ... and, as the sizes are powers of two, all of them.
LEMMA IntersectOverlaps ==
    ASSUME NEW p \in Prefix, NEW q \in Prefix, Intersect(p, q),
           p.size % q.size = 0 \/ q.size % p.size = 0
    PROVE  prefixesOverlap(p, q)
  <1>1. ASSUME NEW u \in Prefix, NEW v \in Prefix, u.size % v.size = 0,
               Base(u) < Base(v) + v.size, Base(v) < Base(u) + u.size
        PROVE  Contains(u, v.addr)
    <2> DEFINE a == u.addr  s == u.size  b == v.addr  t == v.size
               A == a \div s  B == b \div t  k == s \div t
    <2>1. a \in Nat /\ b \in Nat /\ s \in Nat \ {0} /\ t \in Nat \ {0}
      BY <1>1 DEF Prefix
    <2>2. s = k * t /\ k \in Nat
      <3>1. s % t = 0
        BY <1>1
      <3> HIDE DEF s, t
      <3>2. s - (s % t) = k * t /\ k \in Nat
        BY <2>1, Rounding
      <3> QED BY <2>1, <3>1, <3>2
    <2>3. /\ Base(u) = A * s /\ A \in Nat
      BY <2>1, Rounding DEF Base
    <2>4. /\ Base(v) = B * t /\ B \in Nat
          /\ B * t <= b /\ b < B * t + t
      BY <2>1, Rounding DEF Base
    <2>5. A * s < B * t + t /\ B * t < A * s + s
      BY <1>1, <2>3, <2>4
    <2> HIDE DEF a, s, b, t, A, B, k
    <2>6. A * s = (A * k) * t /\ A * k \in Nat
      BY <2>1, <2>2, <2>3
    <2>7. (A * k) * t < (B + 1) * t /\ B * t < (A * k + k) * t
      BY <2>1, <2>2, <2>3, <2>4, <2>5, <2>6
    <2>8. \A x, y \in Nat : x * t < y * t => x < y
      BY <2>1
    <2>9. A * k <= B /\ B + 1 <= A * k + k
      BY <2>2, <2>4, <2>6, <2>7, <2>8
    <2>10. \A x, y \in Nat : x <= y => x * t <= y * t
      BY <2>1
    <2>11. (A * k) * t <= B * t /\ (B + 1) * t <= (A * k + k) * t
      BY <2>2, <2>4, <2>6, <2>9, <2>10
    <2>12. A * s <= b /\ b < A * s + s
      BY <2>1, <2>2, <2>4, <2>6, <2>11
    <2>13. b \div s = A
      BY <2>1, <2>3, <2>12, Rounding
    <2> QED BY <2>13 DEF Contains, A, a, s, b
  <1> QED BY <1>1 DEF prefixesOverlap, Intersect

-----------------------------------------------------------------------------
(* The search for a block.                                                  *)

\* A set of natural numbers has a smallest element.
LEMMA Smallest ==
    ASSUME NEW S \in SUBSET Nat, S # {}
    PROVE  \E m \in S : \A k \in S : m <= k
  <1> DEFINE R == {s \in Nat \X Nat : s[1] < s[2]}
  <1>1. IsWellFoundedOn(R, Nat)
    BY NatLessThanWellFounded DEF OpToRel
  <1>2. \A k, m \in Nat : k < m => <<k, m>> \in R
    OBVIOUS
  <1> HIDE DEF R
  <1>3. PICK m \in S : \A k \in S : ~(<<k, m>> \in R)
    BY <1>1, WFMin
  <1>4. ASSUME NEW k \in S PROVE m <= k
    <2>1. ~(k < m)
      BY <1>2, <1>3
    <2> QED BY <2>1
  <1> QED BY <1>4

\* Once around the pool from any start: what is chosen is unused, and when
\* nothing is, no block of the pool was.
LEMMA SearchIsComplete ==
    ASSUME NEW start \in Hashes, NEW ns
    PROVE  /\ \A p \in FirstUnused(start, ns) : Unused(p, ns)
           /\ FirstUnused(start, ns) = {} => \A p \in Pool : ~Unused(p, ns)
  <1> DEFINE at(i) == Block((start + i) % Blocks)
             free == {i \in 0 .. Blocks - 1 : Unused(at(i), ns)}
             first == {i \in free : \A j \in free : i <= j}
  <1>1. FirstUnused(start, ns) = {at(i) : i \in first}
    BY DEF FirstUnused
  <1>2. \A i \in first : Unused(at(i), ns)
    OBVIOUS
  <1>3. ASSUME FirstUnused(start, ns) = {}, NEW p \in Pool
        PROVE  ~Unused(p, ns)
    <2>1. first = {}
      BY <1>1, <1>3
    <2>2. free \in SUBSET Nat
      BY LibpodAssumption
    <2> HIDE DEF free
    <2>3. free = {}
      BY <2>1, <2>2, Smallest
    <2>4. PICK j \in 0 .. Blocks - 1 : p = Block(j)
      BY DEF Pool
    <2>5. PICK i \in 0 .. Blocks - 1 : (start + i) % Blocks = j
      <3> DEFINE s == IF start < Blocks THEN start ELSE start - Blocks
                 i0 == IF j >= s THEN j - s ELSE j + Blocks - s
      <3>1. i0 \in 0 .. Blocks - 1 /\ start + i0 \in {j, j + Blocks, j + 2 * Blocks}
        BY LibpodAssumption DEF Hashes
      <3>2. \A x \in {j, j + Blocks, j + 2 * Blocks} : x % Blocks = j
        <4>1. j % Blocks = j
          BY LibpodAssumption
        <4>2. (j + Blocks) % Blocks = j
          BY LibpodAssumption
        <4>3. (j + 2 * Blocks) % Blocks = j
          BY LibpodAssumption
        <4> QED BY <4>1, <4>2, <4>3
      <3> HIDE DEF i0
      <3> QED BY <3>1, <3>2
    <2> QED BY <2>3, <2>4, <2>5 DEF free
  <1> QED BY <1>1, <1>2, <1>3

-----------------------------------------------------------------------------
(* Retries.                                                                 *)

\* Networks with a subnet have one of the pool or of the other users, and a
\* chosen block met none of the networks its caller was shown.
Informed ==
    /\ \A n \in nets : n.mode # "plain" => n.subnet \in Pool \cup Foreign
    /\ \A c \in Internal :
          pc[c] = "post" => \A q \in Subnets(listed[c]) : ~Intersect(pick[c], q)

Hit(c) == \E q \in Subnets(nets) : Intersect(pick[c], q)

\* The other callers with a proxy that may have created their network.
Past(c) == {d \in Internal \ {c} : pc[d] \notin {"list", "post"}}

\* A round was lost, or is about to be, to a creation of its own.
Lost ==
    /\ \A c \in Internal :
          /\ pc[c] = "list" => attempt[c] <= foreign + Cardinality(Past(c))
          /\ pc[c] = "post" => /\ attempt[c] <= foreign + Cardinality(Past(c))
                               /\ Hit(c) => attempt[c] < foreign + Cardinality(Past(c))
    /\ NeverExhausted

\* Blocks of the pool and foreign subnets are prefixes; of a block and any of
\* them, the size of one divides that of the other.
LEMMA SubnetSizes ==
    /\ Pool \cup Foreign \subseteq Prefix
    /\ \A p \in Pool, q \in Pool \cup Foreign : p.size % q.size = 0 \/ q.size % p.size = 0
  <1>1. BlockSize % BlockSize = 0
    BY LibpodAssumption
  <1>2. \A p \in Pool : p.size = BlockSize
    BY DEF Pool, Block
  <1> QED
    BY <1>1, <1>2, PoolPrefixes, LibpodAssumption, PrefixAssumption DEF Prefix

\* A listing without a choice: every block of the pool is taken.
LEMMA ListFacts ==
    ASSUME TypeOK, Informed, NEW c \in Callers, NEW s \in Hashes, List(c, s)
    PROVE  /\ pc'[c] = "full" => \A p \in Pool : \E q \in Subnets(nets) : Intersect(p, q)
           /\ pc'[c] = "post" => \A q \in Subnets(nets) : ~Intersect(pick'[c], q)
  <1>1. \A q \in Subnets(nets) : q \in Pool \cup Foreign
    BY DEF Informed, Subnets
  <1>2. CASE FirstUnused(s, nets) = {}
    <2>1. pc'[c] = "full"
      BY <1>2 DEF List, Goto, TypeOK
    <2>2. \A p \in Pool : \E q \in Subnets(nets) : prefixesOverlap(p, q)
      BY <1>2, SearchIsComplete DEF Unused
    <2>3. \A p \in Pool : \E q \in Subnets(nets) : Intersect(p, q)
      BY <1>1, <2>2, OverlapIntersects, SubnetSizes
    <2> QED BY <2>1, <2>3
  <1>3. CASE FirstUnused(s, nets) # {}
    <2>1. pc'[c] = "post" /\ pick'[c] \in FirstUnused(s, nets)
      BY <1>3 DEF List, Goto, TypeOK
    <2>2. pick'[c] \in Pool
      BY <2>1, FirstUnusedInPool
    <2>3. \A q \in Subnets(nets) : ~prefixesOverlap(pick'[c], q)
      BY <2>1, SearchIsComplete DEF Unused
    <2>4. \A q \in Subnets(nets) : ~Intersect(pick'[c], q)
      BY <1>1, <2>2, <2>3, IntersectOverlaps, SubnetSizes
    <2> QED BY <2>1, <2>4
  <1> QED BY <1>2, <1>3

\* Every choice is made from the caller's last listing.
LEMMA InformedStep == TypeOK /\ Informed /\ [Next]_vars => Informed'
  <1> SUFFICES ASSUME TypeOK, Informed, [Next]_vars PROVE Informed'
    OBVIOUS
  <1> USE LibpodAssumption
  <1>1. ASSUME NEW c \in Callers, NEW s \in Hashes, List(c, s) PROVE Informed'
    <2>1. nets' = nets /\ listed'[c] = nets
      BY <1>1 DEF List, TypeOK
    <2>2. \A d \in Callers : d # c => /\ pc'[d] = pc[d] /\ pick'[d] = pick[d]
                                      /\ listed'[d] = listed[d]
      BY <1>1 DEF List, Goto, TypeOK
    <2>3. pc'[c] = "post" => \A q \in Subnets(listed'[c]) : ~Intersect(pick'[c], q)
      BY <1>1, <2>1, ListFacts
    <2> QED BY <2>1, <2>2, <2>3 DEF Informed
  <1>2. ASSUME NEW c \in Callers, pc'[c] # "post",
               \A d \in Callers : d # c => pc'[d] = pc[d],
               UNCHANGED <<pick, listed>>,
               \A n \in nets' : n \in nets \/ n.mode = "plain"
                                  \/ n.subnet \in Pool \cup Foreign
        PROVE  Informed'
    BY <1>2 DEF Informed
  <1>3. ASSUME NEW c \in Callers, Post(c) PROVE Informed'
    <2>1. PICK m : nets' = nets \cup {[owner |-> c, subnet |-> pick[c], mode |-> m]}
      BY <1>3 DEF Post
    <2>2. pick[c] \in Pool
      BY DEF TypeOK
    <2> QED BY <1>2, <1>3, <2>1, <2>2 DEF Post, Goto, TypeOK
  <1>4. ASSUME NEW c \in Callers, PostTaken(c) \/ Verify(c) \/ Remove(c) \/ Fail(c)
        PROVE  Informed'
    BY <1>2, <1>4 DEF PostTaken, Verify, Remove, Fail, Goto, TypeOK, Own
  <1>5. ASSUME NEW p \in Foreign, OtherCreate(p) PROVE Informed'
    BY <1>5 DEF OtherCreate, Informed
  <1>6. CASE OtherRemove \/ UNCHANGED vars
    BY <1>6 DEF OtherRemove, Informed, vars
  <1> QED BY <1>1, <1>3, <1>4, <1>5, <1>6 DEF Next, Call

\* Informed holds in every reachable state.
THEOREM InformedInvariant == Spec => []Informed
  <1>1. Init => Informed
    BY LibpodAssumption DEF Init, Informed, Subnets
  <1> QED BY <1>1, InformedStep, TypeCorrect, PTL DEF Spec

\* The search once around the pool and prefixesOverlap are right: a request is
\* refused as taken only because of a network that appeared after the caller's
\* own listing.
THEOREM OnlyRacesRetryThm == Spec => OnlyRacesRetry
  <1> DEFINE Raced == \A c \in Callers :
                        attempt'[c] # attempt[c] =>
                            \E q \in Subnets(nets \ listed[c]) : Intersect(pick[c], q)
  <1>1. TypeOK /\ Informed /\ [Next]_vars => [Raced]_vars
    <2> SUFFICES ASSUME TypeOK, Informed, [Next]_vars PROVE [Raced]_vars
      OBVIOUS
    <2>1. ASSUME NEW c \in Callers, PostTaken(c) PROVE Raced
      <3>1. PICK m \in nets : m.mode # "plain" /\ Intersect(pick[c], m.subnet)
        BY <2>1 DEF PostTaken, Taken, Subnets
      <3>2. m \notin listed[c]
        BY <2>1, <3>1 DEF Informed, PostTaken, Taken, Subnets
      <3>3. m.subnet \in Subnets(nets \ listed[c])
        BY <3>1, <3>2 DEF Subnets
      <3>4. \A d \in Callers : d # c => attempt'[d] = attempt[d]
        BY <2>1 DEF PostTaken, TypeOK
      <3> QED BY <3>1, <3>3, <3>4
    <2>2. CASE UNCHANGED attempt
      BY <2>2
    <2> QED
      BY <2>1, <2>2
      DEF Next, Call, List, Post, Verify, Remove, Fail, OtherCreate, OtherRemove, vars
  <1> QED BY <1>1, TypeCorrect, InformedInvariant, PTL DEF Spec, OnlyRacesRetry

\* "no unused sandbox subnet is available" is returned only when every block of
\* the pool meets a network that exists, whatever the start of the search.
THEOREM FullIsTrueThm == Spec => FullIsTrue
  <1> DEFINE True == \A c \in Callers :
                       pc[c] # "full" /\ pc'[c] = "full" =>
                           \A p \in Pool : \E q \in Subnets(nets) : Intersect(p, q)
  <1>1. TypeOK /\ Informed /\ [Next]_vars => [True]_vars
    <2> SUFFICES ASSUME TypeOK, Informed, Next,
                        NEW c \in Callers, pc[c] # "full", pc'[c] = "full"
                 PROVE  \A p \in Pool : \E q \in Subnets(nets) : Intersect(p, q)
      BY DEF vars
    <2>1. PICK s \in Hashes : List(c, s)
      BY LibpodAssumption
      DEF Next, Call, List, Post, PostTaken, Verify, Remove, Fail, OtherCreate,
          OtherRemove, Goto, TypeOK
    <2> QED BY <2>1, ListFacts
  <1> QED BY <1>1, TypeCorrect, InformedInvariant, PTL DEF Spec, FullIsTrue

\* The set of other callers that are past their request is finite and leaves out
\* the caller itself; adding one counts.
LEMMA PastFacts ==
    ASSUME NEW c \in Internal
    PROVE  /\ IsFiniteSet(Internal \ {c})
           /\ Cardinality(Internal \ {c}) < Cardinality(Internal)
           /\ Cardinality(Internal) \in Nat
           /\ \A S, T \in SUBSET (Internal \ {c}) :
                 /\ Cardinality(S) \in Nat
                 /\ Cardinality(S) < Cardinality(Internal)
                 /\ S \subseteq T => Cardinality(S) <= Cardinality(T)
                 /\ \A d \in Internal \ {c} :
                       d \notin S /\ T = S \cup {d} => Cardinality(T) = Cardinality(S) + 1
  <1>1. IsFiniteSet(Internal)
    BY LibpodAssumption, FS_Subset
  <1>2. Cardinality(Internal) \in Nat
    BY <1>1, FS_CardinalityType
  <1>3. IsFiniteSet(Internal \ {c}) /\ Cardinality(Internal \ {c}) = Cardinality(Internal) - 1
    BY <1>1, FS_RemoveElement
  <1>4. ASSUME NEW S \in SUBSET (Internal \ {c})
        PROVE  /\ IsFiniteSet(S) /\ Cardinality(S) \in Nat
               /\ Cardinality(S) <= Cardinality(Internal \ {c})
    BY <1>3, FS_Subset, FS_CardinalityType
  <1>5. ASSUME NEW S \in SUBSET (Internal \ {c}), NEW T \in SUBSET (Internal \ {c}),
               S \subseteq T
        PROVE  Cardinality(S) <= Cardinality(T)
    BY <1>4, <1>5, FS_Subset
  <1>6. ASSUME NEW S \in SUBSET (Internal \ {c}), NEW d \in Internal \ {c}, d \notin S
        PROVE  Cardinality(S \cup {d}) = Cardinality(S) + 1
    BY <1>4, <1>6, FS_AddElement
  <1>7. Cardinality(Internal \ {c}) < Cardinality(Internal)
    BY <1>2, <1>3
  <1>8. \A S \in SUBSET (Internal \ {c}) : Cardinality(S) < Cardinality(Internal)
    <2> TAKE S \in SUBSET (Internal \ {c})
    <2>1. Cardinality(S) \in Nat /\ Cardinality(S) <= Cardinality(Internal \ {c})
      BY <1>4
    <2> QED BY <1>2, <1>3, <2>1
  <1> QED BY <1>2, <1>3, <1>4, <1>5, <1>6, <1>7, <1>8

\* Every step that costs a caller a round is paid for by a creation of another.
LEMMA LostStep == TypeOK /\ Informed /\ Lost /\ [Next]_vars => Lost'
  <1> SUFFICES ASSUME TypeOK, Informed, Lost, [Next]_vars PROVE Lost'
    OBVIOUS
  <1> USE LibpodAssumption
  <1>0. /\ foreign \in Nat
        /\ \A c \in Internal :
              /\ attempt[c] \in Nat /\ Cardinality(Past(c)) \in Nat
              /\ Past(c) \subseteq Internal \ {c} /\ Past(c)' \subseteq Internal \ {c}
              /\ Cardinality(Past(c)') \in Nat
              /\ Cardinality(Past(c)) < Cardinality(Internal)
              /\ Cardinality(Internal) \in Nat
    <2>1. foreign \in Nat /\ \A c \in Internal : attempt[c] \in Nat
      BY DEF TypeOK
    <2>2. \A c \in Internal : /\ Past(c) \subseteq Internal \ {c}
                              /\ Past(c)' \subseteq Internal \ {c}
      BY DEF Past
    <2>3. ASSUME NEW c \in Internal
          PROVE  /\ Cardinality(Past(c)) \in Nat /\ Cardinality(Past(c)') \in Nat
                 /\ Cardinality(Past(c)) < Cardinality(Internal)
                 /\ Cardinality(Internal) \in Nat
      <3> DEFINE S == Past(c)
                 T == Past(c)'
      <3>1. S \in SUBSET (Internal \ {c}) /\ T \in SUBSET (Internal \ {c})
        BY <2>2
      <3> HIDE DEF S, T
      <3>2. /\ Cardinality(S) \in Nat /\ Cardinality(T) \in Nat
            /\ Cardinality(S) < Cardinality(Internal) /\ Cardinality(Internal) \in Nat
        BY <3>1, PastFacts
      <3> QED BY <3>2 DEF S, T
    <2> QED BY <2>1, <2>2, <2>3
  \* Nothing new with a subnet: the account of a caller that goes on stands.
  <1>1. ASSUME NEW c \in Internal, pc'[c] = pc[c], attempt'[c] = attempt[c],
               pick'[c] = pick[c], Subnets(nets') \subseteq Subnets(nets),
               foreign' = foreign, Past(c) \subseteq Past(c)'
        PROVE  /\ pc'[c] = "list" => attempt'[c] <= foreign' + Cardinality(Past(c)')
               /\ pc'[c] = "post" =>
                     /\ attempt'[c] <= foreign' + Cardinality(Past(c)')
                     /\ Hit(c)' => attempt'[c] < foreign' + Cardinality(Past(c)')
    <2>1. Hit(c)' => Hit(c)
      BY <1>1 DEF Hit
    <2>2. Cardinality(Past(c)) <= Cardinality(Past(c)')
      BY <1>0, <1>1, PastFacts
    <2> QED BY <1>0, <1>1, <2>1, <2>2 DEF Lost
  <1>2. ASSUME NEW d \in Callers, \A e \in Callers : e # d => pc'[e] = pc[e],
               pc[d] \notin {"list", "post"} => pc'[d] \notin {"list", "post"}
        PROVE  \A c \in Internal : Past(c) \subseteq Past(c)'
    BY <1>2 DEF Past
  \* A step of d that makes no network.
  <1>3. ASSUME NEW d \in Callers, \A e \in Callers : e # d => pc'[e] = pc[e],
               pc'[d] \notin {"list", "post", "exhausted"}, UNCHANGED <<attempt, foreign>>,
               \A e \in Callers : e # d => pick'[e] = pick[e],
               Subnets(nets') \subseteq Subnets(nets)
        PROVE  Lost'
    <2>1. \A c \in Internal : Past(c) \subseteq Past(c)'
      BY <1>2, <1>3
    <2>2. NeverExhausted'
      BY <1>3 DEF Lost, NeverExhausted
    <2> QED BY <1>1, <1>3, <2>1, <2>2 DEF Lost
  <1>4. ASSUME NEW d \in Callers, NEW s \in Hashes, List(d, s) PROVE Lost'
    <2>1. /\ \A e \in Callers : e # d => pc'[e] = pc[e] /\ pick'[e] = pick[e]
          /\ UNCHANGED <<nets, attempt, foreign>> /\ pc[d] = "list"
          /\ pc'[d] \in {"full", "post"}
      BY <1>4 DEF List, Goto, TypeOK
    <2>2. \A c \in Internal : Past(c) \subseteq Past(c)'
      BY <1>2, <2>1
    <2>3. NeverExhausted'
      BY <2>1 DEF Lost, NeverExhausted
    <2>4. d \in Internal /\ pc'[d] = "post" =>
             ~Hit(d)' /\ attempt'[d] <= foreign' + Cardinality(Past(d)')
      <3>1. pc'[d] = "post" => ~Hit(d)'
        BY <1>4, <2>1, ListFacts DEF Hit
      <3>2. d \in Internal => Past(d)' = Past(d)
        BY <2>1 DEF Past
      <3> QED BY <2>1, <3>1, <3>2 DEF Lost
    <2> QED BY <1>1, <2>1, <2>2, <2>3, <2>4 DEF Lost
  <1>5. ASSUME NEW d \in Callers, Post(d) PROVE Lost'
    <2>1. /\ pc[d] = "post" /\ pc'[d] \in {"verify", "ok", "err"}
          /\ \A e \in Callers : e # d => pc'[e] = pc[e]
          /\ UNCHANGED <<attempt, pick, foreign>>
      BY <1>5 DEF Post, Goto, TypeOK
    <2>2. CASE d \notin Internal
      <3>1. Subnets(nets') \subseteq Subnets(nets)
        BY <1>5, <2>2 DEF Post, Subnets
      <3> QED BY <1>3, <2>1, <3>1
    <2>3. CASE d \in Internal
      <3>1. ASSUME NEW c \in Internal, c # d, pc[c] \in {"list", "post"}
            PROVE  attempt'[c] < foreign' + Cardinality(Past(c)')
        <4>1. Past(c)' = Past(c) \cup {d} /\ d \notin Past(c) /\ d \in Internal \ {c}
          BY <2>1, <2>3, <3>1 DEF Past
        <4>2. Cardinality(Past(c)') = Cardinality(Past(c)) + 1
          BY <1>0, <4>1, PastFacts
        <4>3. attempt[c] <= foreign + Cardinality(Past(c))
          BY <3>1 DEF Lost
        <4> QED BY <1>0, <2>1, <4>2, <4>3
      <3>2. \A c \in Internal : attempt'[c] \in Nat /\ foreign' + Cardinality(Past(c)') \in Nat
        BY <1>0, <2>1
      <3>3. NeverExhausted'
        BY <2>1 DEF Lost, NeverExhausted
      <3> QED BY <2>1, <3>1, <3>2, <3>3 DEF Lost
    <2> QED BY <2>2, <2>3
  <1>6. ASSUME NEW d \in Callers, PostTaken(d) PROVE Lost'
    <2>1. /\ d \in Internal /\ pc[d] = "post" /\ Hit(d)
          /\ attempt'[d] = attempt[d] + 1
          /\ pc'[d] = IF attempt[d] + 1 < Attempts THEN "list" ELSE "exhausted"
          /\ \A e \in Callers : e # d => pc'[e] = pc[e] /\ attempt'[e] = attempt[e]
          /\ UNCHANGED <<nets, pick, foreign>>
      BY <1>6 DEF PostTaken, Taken, Hit, Goto, TypeOK
    <2>2. attempt[d] < foreign + Cardinality(Past(d))
      BY <2>1 DEF Lost
    <2>3. Past(d)' = Past(d)
      BY <2>1 DEF Past
    <2>4. attempt'[d] <= foreign' + Cardinality(Past(d)')
      BY <1>0, <2>1, <2>2, <2>3
    <2>5. Attempts >= Cardinality(Internal) + MaxForeign => pc'[d] # "exhausted"
      <3>1. foreign <= MaxForeign
        BY DEF TypeOK
      <3>2. \A a, f, p, n, m, t \in Nat :
               a < f + p /\ p < n /\ f <= m /\ t >= n + m => a + 1 < t
        OBVIOUS
      <3>3. Attempts >= Cardinality(Internal) + MaxForeign => attempt[d] + 1 < Attempts
        BY <1>0, <2>1, <2>2, <3>1, <3>2
      <3> QED BY <2>1, <3>3
    <2>6. NeverExhausted'
      BY <2>1, <2>5 DEF Lost, NeverExhausted
    <2>7. \A c \in Internal : Past(c) \subseteq Past(c)'
      BY <1>2, <2>1
    <2> QED BY <1>1, <2>1, <2>4, <2>6, <2>7 DEF Lost
  <1>7. ASSUME NEW d \in Callers, Verify(d) \/ Remove(d) \/ Fail(d) PROVE Lost'
    <2>1. /\ pc'[d] \in {"ok", "remove", "err"}
          /\ \A e \in Callers : e # d => pc'[e] = pc[e]
          /\ UNCHANGED <<attempt, pick, foreign>> /\ nets' \subseteq nets
      BY <1>7 DEF Verify, Remove, Fail, Goto, TypeOK
    <2>2. Subnets(nets') \subseteq Subnets(nets)
      BY <2>1 DEF Subnets
    <2> QED BY <1>3, <2>1, <2>2
  <1>8. ASSUME NEW p \in Foreign, OtherCreate(p) PROVE Lost'
    <2>1. UNCHANGED <<pc, attempt, pick>> /\ foreign' = foreign + 1
      BY <1>8 DEF OtherCreate
    <2>2. \A c \in Internal : Past(c)' = Past(c)
      BY <2>1 DEF Past
    <2>3. ASSUME NEW c \in Internal, pc[c] \in {"list", "post"}
          PROVE  attempt'[c] < foreign' + Cardinality(Past(c)')
      <3>1. attempt[c] <= foreign + Cardinality(Past(c))
        BY <2>3 DEF Lost
      <3> QED BY <1>0, <2>1, <2>2, <3>1
    <2>4. \A c \in Internal : attempt'[c] \in Nat /\ foreign' + Cardinality(Past(c)') \in Nat
      BY <1>0, <2>1
    <2>5. NeverExhausted'
      BY <2>1 DEF Lost, NeverExhausted
    <2> QED BY <2>1, <2>3, <2>4, <2>5 DEF Lost
  <1>9. CASE OtherRemove \/ UNCHANGED vars
    <2>1. UNCHANGED <<pc, attempt, pick, foreign>> /\ nets' \subseteq nets
      BY <1>9 DEF OtherRemove, vars
    <2>2. Subnets(nets') \subseteq Subnets(nets) /\ \A c \in Internal : Past(c) \subseteq Past(c)'
      BY <2>1 DEF Subnets, Past
    <2>3. NeverExhausted'
      BY <2>1 DEF Lost, NeverExhausted
    <2> QED BY <1>1, <2>1, <2>2, <2>3 DEF Lost
  <1> QED BY <1>4, <1>5, <1>6, <1>7, <1>8, <1>9 DEF Next, Call

\* Each round of the retry loop is lost to a creation of its own: with as many
\* rounds as others can create subnets the loop never runs out.
THEOREM NeverExhaustedThm == Spec => []NeverExhausted
  <1>1. Init => Lost
    <2> SUFFICES ASSUME Init PROVE Lost
      OBVIOUS
    <2>1. \A c \in Internal : pc[c] = "list" /\ attempt[c] = 0 /\ Past(c) = {}
      BY LibpodAssumption DEF Init, Past
    <2>2. foreign = 0 /\ NeverExhausted
      BY DEF Init, NeverExhausted
    <2> QED BY <2>1, <2>2, FS_EmptySet DEF Lost
  <1>2. Lost => NeverExhausted
    BY DEF Lost
  <1> QED BY <1>1, <1>2, LostStep, TypeCorrect, InformedInvariant, PTL DEF Spec
=============================================================================
