--------------------------- MODULE LibpodNetwork ---------------------------
(***************************************************************************)
(* Network creation through the native Libpod API                           *)
(* (internal/podman/libpod_network.go), called by ensureNetwork of the      *)
(* docker driver: list the networks, choose the first /24 block of          *)
(* 172.16.0.0/12 that overlaps none of them, ask for it with a blackhole    *)
(* route for its gateway, retry when somebody else took it, verify what the *)
(* engine made.  Listing and creating are separate requests, so other       *)
(* creators come in between.                                                *)
(***************************************************************************)
EXTENDS Naturals, FiniteSets

CONSTANTS
    Callers,     \* concurrent creations, each of a network name of its own
    Internal,    \* the callers whose sandbox has a proxy
    Blocks,      \* blocks of the address pool (4096)
    BlockSize,   \* addresses of a block (256)
    Attempts,    \* rounds of the retry loop (32)
    Foreign,     \* subnets other users of the engine may create
    MaxForeign   \* bound: how many networks they create

ASSUME LibpodAssumption ==
    /\ Internal \subseteq Callers
    /\ IsFiniteSet(Callers) /\ "other" \notin Callers
    /\ Blocks \in Nat \ {0} /\ BlockSize \in Nat \ {0} /\ Attempts \in Nat \ {0}
    /\ Foreign \subseteq [addr : Nat, size : Nat \ {0}]
    /\ MaxForeign \in Nat

\* Sizes of prefixes are powers of two: of two sizes one divides the other.
ASSUME PrefixAssumption ==
    \A p \in Foreign : p.size % BlockSize = 0 \/ BlockSize % p.size = 0

VARIABLES
    nets,       \* the engine's networks
    pc,         \* where each call is, and how it ended
    attempt,    \* the round of its retry loop
    pick,       \* the block it chose
    listed,     \* the networks its last listing showed (history)
    foreign     \* networks created by others so far

vars == <<nets, pc, attempt, pick, listed, foreign>>

-----------------------------------------------------------------------------
(* Prefixes.                                                                *)

\* A prefix is an address, whose host bits need not be zero, and a size.
Contains(p, a) == p.addr \div p.size = a \div p.size

\* Mutant: a larger network around the block is not noticed.
OverlapOneSided(a, b) == Contains(a, b.addr)

prefixesOverlap(a, b) == Contains(a, b.addr) \/ Contains(b, a.addr)

\* The engine compares the address ranges.
Base(p) == p.addr - (p.addr % p.size)
Intersect(p, q) == Base(p) < Base(q) + q.size /\ Base(q) < Base(p) + p.size

Block(i) == [addr |-> i * BlockSize, size |-> BlockSize]
Pool == {Block(i) : i \in 0 .. Blocks - 1}

Subnets(ns) == {n.subnet : n \in {m \in ns : m.mode # "plain"}}

Unused(p, ns) == \A q \in Subnets(ns) : ~prefixesOverlap(p, q)

\* Mutant: the search stops one block early.
FirstUnusedShort(start, ns) ==
    LET at(i) == Block((start + i) % Blocks)
        free == {i \in 0 .. Blocks - 2 : Unused(at(i), ns)}
    IN {at(i) : i \in {i \in free : \A j \in free : i <= j}}

\* availableNetworkSubnet: from a start given by the hash of the name (and of
\* the round), once around the pool.  None when all are in use.
FirstUnused(start, ns) ==
    LET at(i) == Block((start + i) % Blocks)
        free == {i \in 0 .. Blocks - 1 : Unused(at(i), ns)}
    IN {at(i) : i \in {i \in free : \A j \in free : i <= j}}

-----------------------------------------------------------------------------
\* mode: with a proxy "internal", and "isolated" if the gateway has its
\* blackhole route; without one "plain", whose subnet is not from the pool.
Network ==
    [owner : Callers \cup {"other"}, subnet : [addr : Nat, size : Nat \ {0}],
     mode : {"plain", "internal", "isolated", "foreign"}]

Running == {"list", "post", "verify", "remove"}
Ended == {"ok", "err", "full", "exhausted"}

Hashes == 0 .. 2 * Blocks - 1

Goto(c, l) == pc' = [pc EXCEPT ![c] = l]

Init ==
    /\ nets = {}
    /\ pc = [c \in Callers |-> IF c \in Internal THEN "list" ELSE "post"]
    /\ attempt = [c \in Callers |-> 0]
    /\ pick = [c \in Callers |-> Block(0)]
    /\ listed = [c \in Callers |-> {}]
    /\ foreign = 0

\* One GET lists the networks; the choice is made from that answer.
List(c, start) ==
    LET free == FirstUnused(start, nets) IN
    /\ pc[c] = "list"
    /\ listed' = [listed EXCEPT ![c] = nets]
    /\ IF free = {} THEN Goto(c, "full") /\ UNCHANGED pick
       ELSE Goto(c, "post") /\ \E p \in free : pick' = [pick EXCEPT ![c] = p]
    /\ UNCHANGED <<nets, attempt, foreign>>

Taken(c) == c \in Internal /\ \E q \in Subnets(nets) : Intersect(pick[c], q)

\* The network is made; an engine that ignores the route makes it without the
\* blackhole.  The answer may be lost.
Post(c) ==
    /\ pc[c] = "post" /\ ~Taken(c)
    /\ \E m \in IF c \in Internal THEN {"internal", "isolated"} ELSE {"plain"} :
          nets' = nets \cup {[owner |-> c, subnet |-> pick[c], mode |-> m]}
    /\ \/ Goto(c, IF c \in Internal THEN "verify" ELSE "ok")
       \/ Goto(c, "err")
    /\ UNCHANGED <<attempt, pick, listed, foreign>>

\* Mutant: the retry reuses the stale choice.
PostTakenStale(c) ==
    /\ pc[c] = "post" /\ Taken(c)
    /\ attempt' = [attempt EXCEPT ![c] = @ + 1]
    /\ Goto(c, IF attempt[c] + 1 < Attempts THEN "post" ELSE "exhausted")
    /\ UNCHANGED <<nets, pick, listed, foreign>>

\* "subnet ... already used": the next round lists again.
PostTaken(c) ==
    /\ pc[c] = "post" /\ Taken(c)
    /\ attempt' = [attempt EXCEPT ![c] = @ + 1]
    /\ Goto(c, IF attempt[c] + 1 < Attempts THEN "list" ELSE "exhausted")
    /\ UNCHANGED <<nets, pick, listed, foreign>>

Own(c) == {n \in nets : n.owner = c}

\* verify: internal, and every subnet's gateway has a blackhole route.
Verify(c) ==
    /\ pc[c] = "verify"
    /\ Goto(c, IF \E n \in Own(c) : n.mode = "isolated" THEN "ok" ELSE "remove")
    /\ UNCHANGED <<nets, attempt, pick, listed, foreign>>

\* ensureNetwork removes the network it could not verify; the result of the
\* removal is ignored.
Remove(c) ==
    /\ pc[c] = "remove"
    /\ nets' = nets \ Own(c) \/ UNCHANGED nets
    /\ Goto(c, "err")
    /\ UNCHANGED <<attempt, pick, listed, foreign>>

\* A request fails: transport, status, decoding, an engine without blackhole
\* routes.
Fail(c) ==
    /\ pc[c] \in {"list", "post", "verify"}
    /\ Goto(c, IF pc[c] = "verify" THEN "remove" ELSE "err")
    /\ UNCHANGED <<nets, attempt, pick, listed, foreign>>

\* Other users of the engine; the engine keeps them apart too.
OtherCreate(p) ==
    /\ foreign < MaxForeign
    /\ \A q \in Subnets(nets) : ~Intersect(p, q)
    /\ nets' = nets \cup {[owner |-> "other", subnet |-> p, mode |-> "foreign"]}
    /\ foreign' = foreign + 1
    /\ UNCHANGED <<pc, attempt, pick, listed>>

OtherRemove ==
    /\ \E n \in nets : n.owner = "other" /\ nets' = nets \ {n}
    /\ UNCHANGED <<pc, attempt, pick, listed, foreign>>

Call(c) ==
    \/ \E s \in Hashes : List(c, s)
    \/ Post(c) \/ PostTaken(c) \/ Verify(c) \/ Remove(c) \/ Fail(c)

Next ==
    \/ \E c \in Callers : Call(c)
    \/ \E p \in Foreign : OtherCreate(p)
    \/ OtherRemove

Spec == Init /\ [][Next]_vars

-----------------------------------------------------------------------------
(* Properties.                                                              *)

\* Every call is in one of its steps, with a block of the pool.
TypeOK ==
    /\ nets \subseteq Network
    /\ pc \in [Callers -> Running \cup Ended]
    /\ attempt \in [Callers -> 0 .. Attempts]
    /\ pick \in [Callers -> Pool]
    /\ listed \in [Callers -> SUBSET Network]
    /\ foreign \in 0 .. MaxForeign

\* The search once around the pool and prefixesOverlap: a request is refused
\* as taken only because of a network that appeared after the caller's own
\* listing.
OnlyRacesRetry ==
    [][\A c \in Callers :
          attempt'[c] # attempt[c] =>
              \E q \in Subnets(nets \ listed[c]) : Intersect(pick[c], q)]_vars

\* "no unused sandbox subnet is available" is returned only when every block
\* of the pool meets a network that exists.
FullIsTrue ==
    [][\A c \in Callers :
          pc[c] # "full" /\ pc'[c] = "full" =>
              \A p \in Pool : \E q \in Subnets(nets) : Intersect(p, q)]_vars

\* Each round of the retry loop is lost to a creation of its own, so with more
\* rounds than others create subnets "exhausted subnet allocation retries"
\* is never returned.
NeverExhausted ==
    Attempts >= Cardinality(Internal) + MaxForeign =>
        \A c \in Callers : pc[c] # "exhausted"
=============================================================================
