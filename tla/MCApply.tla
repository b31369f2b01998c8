------------------------------ MODULE MCApply ------------------------------
(* Small instances of Apply for TLC. *)
EXTENDS Apply, TLC

CONSTANTS ka, kb, kc, n1, n2, a, b, old

(* `old` is a row stored before a normalization rule: /backup shows it as a. *)
MCNorm    == (a :> a) @@ (b :> b) @@ (old :> a)
(* b has every field of a, and an optional one the gateway filled in. *)
MCCarried == {<<c, c>> : c \in {a, b, old}} \cup {<<a, b>>}

OneNs == (ka :> n1) @@ (kb :> n1)
ProxyAndConsumer   == (ka :> "Proxy") @@ (kb :> "Consumer")
ProxyAndPlugin     == (ka :> "Proxy") @@ (kb :> "PluginConfig")

NoFilter == {{}}
Doc(x, y) == (ka :> x) @@ (kb :> y)
Some      == {a, Undeclared}
AllDocs   == {Doc(x, y) : x, y \in Some}

Stored(c)   == [content |-> c, spec |-> Unowned]
EmptyView   == {[k \in Key |-> NoRow]}
LegacyViews == EmptyView \cup {(ka :> Stored(old)) @@ (kb :> NoRow)}

(* An exclusive namespace somebody already filled: a proxy and its plugin. *)
ProxyUsesPlugin == {<<ka, kb>>}
FullViews       == {Doc(Stored(a), Stored(b))}

(* Two namespaces, the first with an upstream and a proxy. *)
TwoNs         == (ka :> n1) @@ (kb :> n1) @@ (kc :> n2)
ThreeKinds    == (ka :> "Upstream") @@ (kb :> "Proxy") @@ (kc :> "Consumer")
ScopedFilters == {{}, {n1}}
ScopedViews   == {(ka :> x) @@ (kb :> NoRow) @@ (kc :> NoRow) : x \in {NoRow, Stored(old)}}
ScopedDocs    == {(ka :> x) @@ (kb :> x) @@ (kc :> y) : x, y \in Some} \cup
                 {(ka :> a) @@ (kb :> Undeclared) @@ (kc :> a)}

(***************************************************************************)
(* Healing.  If apply is run again and again, and from some time on every  *)
(* run (desired, which is empty between runs) deploys the one document,    *)
(* then from some time on every key is live as that document declares it,  *)
(* a row stored before a normalization rule included; what it leaves out   *)
(* is gone, unless a spec owns it or no run manages it.  Other writers and *)
(* faults end by MaxChanges and MaxFaults, not by the formula.             *)
(***************************************************************************)
Settled  == Doc(b, Undeclared)
TwoDocs  == {Settled, Doc(b, a)}
Heals ==
    []<>(pc # "idle") /\ <>[](desired \in {NoDoc, Settled}) =>
        <>[](\A k \in Key : AsDeclared(Settled, k))
=============================================================================
