------------------------------- MODULE Shards -------------------------------
(***************************************************************************)
(* The credential bundle (src/secrets/bundle.rs): slot values packed into  *)
(* the Environment Secrets FERRUM_CREDS_BUNDLE[_N], and where a slot goes. *)
(*                                                                         *)
(* A value is its place in the order of generation, so a later value is a  *)
(* larger one; its bytes are left out.  A slot weighs one unit and a       *)
(* secret holds Capacity of them under the soft limit.                     *)
(***************************************************************************)
EXTENDS Integers, FiniteSets, FiniteSetsExt

CONSTANTS
    Slot,       \* credential slots, one per Consumer
    MaxShards,  \* MAX_BUNDLE_SHARDS: the secrets the workflows bind by name
    Capacity,   \* slots that fit a secret below the soft limit
    Hash,       \* [Slot -> Nat], the digest of a slot's name
    MaxValue    \* bound: values generated

ASSUME ShardsAssumption ==
    /\ IsFiniteSet(Slot)
    /\ MaxShards \in Nat \ {0}
    /\ Capacity \in Nat \ {0}
    /\ Hash \in [Slot -> Nat]
    /\ MaxValue \in Nat

Shard   == 0 .. MaxShards - 1
NoShard == MaxShards        \* the first index no workflow binds
Value   == 1 .. MaxValue
NoValue == 0

Bundles == [Shard -> [Slot -> Value \cup {NoValue}]]
Empty   == [sh \in Shard |-> [s \in Slot |-> NoValue]]

Holders(b, s) == {sh \in Shard : b[sh][s] # NoValue}
Kept(b, sh)   == {s \in Slot : b[sh][s] # NoValue}

(* The flat map: shards are merged in ascending order, the last one wins. *)
Merged(b, s) == IF Holders(b, s) = {} THEN NoValue ELSE b[Max(Holders(b, s))][s]

(* A bundle that holds a slot twice does not load. *)
NoSlotTwice(b) == \A s \in Slot : \A x, y \in Holders(b, s) : x = y

HasRoom(b, sh) == Cardinality(Kept(b, sh)) < Capacity

(* The hash target if it has room, else the first shard that does. *)
PickShard(s, b, n) ==
    LET addressable == Min({n, MaxShards})
        target      == Hash[s] % addressable
        open        == {sh \in 0 .. addressable - 1 : HasRoom(b, sh)}
    IN  IF HasRoom(b, target) THEN target
        ELSE IF open = {} THEN NoShard ELSE Min(open)

(***************************************************************************)
(* The shard a slot is written to and the shard count afterwards: where    *)
(* the slot lives already, else the first count with an open shard.        *)
(***************************************************************************)
Grown(s, b, n) ==
    LET first  == Max({n, 1})
        counts == {m \in {first} \cup (first .. MaxShards) : PickShard(s, b, m) # NoShard}
    IN  IF counts = {} THEN [shard |-> NoShard, count |-> n]
        ELSE [shard |-> PickShard(s, b, Min(counts)), count |-> Min(counts)]

ReserveShard_Rehash(s, b, n) ==     \* mutant: forgets where the slot lives
    Grown(s, b, n)

ReserveShard(s, b, n) ==
    IF Holders(b, s) # {} THEN [shard |-> Min(Holders(b, s)), count |-> n]
    ELSE Grown(s, b, n)

=============================================================================
