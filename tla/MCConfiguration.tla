-------------------------- MODULE MCConfiguration --------------------------
(* Small instances of what makes and reads the repository's configuration: *)
(* an import, the assembly of the tree, the credential slots of arrays     *)
(* that are edited, and the override of what blocks it by a pull request.  *)
(* A behaviour is of one part, and the others rest.                        *)
EXTENDS Import

VARIABLE part

-----------------------------------------------------------------------------
(* Import: one identifier per way a file name can go wrong, one leaf per   *)
(* verdict of the gates, a secret in two revisions, two namespaces, and    *)
(* one secret more than the bundle has shards for.                         *)
Res(ns, kind, id, leaf, field, spec, rev) ==
    [ns |-> ns, kind |-> kind, id |-> id, leaf |-> leaf, field |-> field,
     spec |-> spec, rev |-> rev]

Rows == {
    Res("n", "consumers", <<"_", "a">>, "secret", "none", FALSE, 1),
    Res("n", "consumers", <<"_", "a">>, "secret", "none", FALSE, 2),
    Res("n", "consumers", <<"%", "5", "F", "a">>, "open", "none", FALSE, 1),
    Res("n", "plugins", <<"a">>, "review", "none", FALSE, 1),
    Res("n", "upstreams", <<"a">>, "secret", "none", FALSE, 1),
    Res("n", "upstreams", <<"a">>, "userinfo", "none", FALSE, 1),
    Res("m", "upstreams", <<"a">>, "secret", "none", FALSE, 1),
    Res("n", "proxies", <<"a">>, "open", "future", FALSE, 1),
    Res("n", "plugins", <<"s">>, "secret", "none", TRUE, 1),
    Res("m", "consumers", <<"a">>, "sentinel", "none", FALSE, 1)}

KeyOrder == <<
    [ns |-> "m", kind |-> "consumers", id |-> <<"a">>],
    [ns |-> "m", kind |-> "upstreams", id |-> <<"a">>],
    [ns |-> "n", kind |-> "plugins", id |-> <<"a">>],
    [ns |-> "n", kind |-> "plugins", id |-> <<"s">>],
    [ns |-> "n", kind |-> "proxies", id |-> <<"a">>],
    [ns |-> "n", kind |-> "upstreams", id |-> <<"a">>],
    [ns |-> "n", kind |-> "consumers", id |-> <<"%", "5", "F", "a">>],
    [ns |-> "n", kind |-> "consumers", id |-> <<"_", "a">>]>>
Sizes == [k \in {KeyOrder[i] : i \in DOMAIN KeyOrder} |-> 3]

-----------------------------------------------------------------------------
(* Assembly: resources whose directory and namespace field disagree, every *)
(* kind of array, and fragments that spell the same key in different ways. *)
VARIABLES base, over, filter, tree, rest, targets, parts, mesh, gateway, phase
assemblyVars == <<base, over, filter, tree, rest, targets, parts, mesh, gateway, phase>>

NoFields == [k \in {} |-> ""]
One(k, v) == [x \in {k} |-> v]
F(kind, dir, ns, id, fields, list) ==
    [kind |-> kind, dir |-> dir, ns |-> ns, id |-> id, fields |-> fields, list |-> list]
M(name, val) == [name |-> name, val |-> val]
Scoped(p) == [k \in {"scope", "proxy_id"} |-> IF k = "scope" THEN "proxy" ELSE p]

TreeFiles == {
    F("Proxy", "a", "ferrum", "x", NoFields, <<M("p2", ""), M("p2", "")>>),
    F("Proxy", "b", "a", "x", One("backend_scheme", "http"), <<>>),
    F("Proxy", "a", "b", "y", One("listen_port", "1"), <<>>),
    F("PluginConfig", "a", "ferrum", "p1", Scoped("x"), <<>>),
    F("PluginConfig", "a", "ferrum", "p2", Scoped("x"), <<>>),
    F("PluginConfig", "b", "ferrum", "p1", Scoped("x"), <<>>),
    F("Consumer", "a", "ferrum", "c", One("object", "k"), <<>>),
    F("Consumer", "b", "ferrum", "c", NoFields, <<M("1", "k"), M("2", "k")>>),
    F("Upstream", "a", "ferrum", "u", NoFields, <<M("t1", "1"), M("t2", "1")>>),
    F("MeshConfig", "a", "", "core", One("root", "r"), <<M("w", "1"), M("?", "1")>>),
    F("MeshConfig", "a", "", "more", NoFields, <<M("w", "1"), M("?", "1")>>),
    F("MeshConfig", "b", "", "core", One("root", "s"), <<M("w", "2")>>)}

OverlayFiles == {
    F("Proxy", "a", "", "x", One("backend_protocol", "http"), "unset"),
    F("Proxy", "b", "a", "x", One("backend_scheme", "tcp"), <<M("p1", "")>>),
    F("Proxy", "b", "ferrum", "y", One("backend_protocol", "tcp"), "unset"),
    F("Proxy", "a", "ferrum", "x", NoFields, <<M("p3", "")>>),
    F("Proxy", "a", "", "x", [k \in {"backend_scheme", "backend_protocol"} |-> k], "unset"),
    F("Consumer", "b", "", "c", NoFields, <<M("2", "n")>>),
    F("Upstream", "a", "", "u", NoFields, <<M("t2", "2"), M("t3", "2")>>),
    F("MeshConfig", "b", "", "core", One("root", "r"), <<M("w", "1")>>),
    F("Consumer", "a", "", "gone", NoFields, "unset")}

PluginIds == <<"p1", "p2", "p3">>

Assembling == INSTANCE Assembly WITH
    Base <- TreeFiles, Overlay <- OverlayFiles, Namespace <- {"a", "b"}, AllNs <- "all",
    Lexical <- PluginIds, NoName <- "?", NoList <- "unset", MaxBase <- 4, MaxOverlay <- 2
ASSUME MCAssemblyAssumption == Assembling!AssemblyAssumption

-----------------------------------------------------------------------------
(* Slots: a Consumer and a plugin; and two Consumers whose names read the  *)
(* same without escapes (n with a/b, and n/a with b).                      *)
VARIABLES doc, stored, issued, used, changed
slotVars == <<doc, stored, issued, used, changed>>

N(ns, id) == [ns |-> ns, id |-> id]
Secret == {<<[lit |-> <<"s">>]>>}

Slots == INSTANCE SlotIdentity WITH
    Consumer <- {N(<<"n">>, <<"a">>)}, Plugin <- {N(<<"n">>, <<"p">>)},
    Type <- {<<"k">>, <<"j">>}, Leaf <- Secret, MaxEntry <- 4, bundle <- stored
Aliases == INSTANCE SlotIdentity WITH
    Consumer <- {N(<<"n">>, <<"a", "/", "b">>), N(<<"n", "/", "a">>, <<"b">>)},
    Plugin <- {}, Type <- {<<"k">>}, Leaf <- Secret, MaxEntry <- 4, bundle <- stored
ASSUME MCSlotAssumption == Slots!SlotAssumption /\ Aliases!SlotAssumption

-----------------------------------------------------------------------------
(* The override that lets a blocked configuration through: two people, two *)
(* revisions, a label that was taken off and set again, reviews of either  *)
(* revision on two pages, and checkouts that differ from the reviewed      *)
(* commit in one way each.                                                 *)
VARIABLES events, reviews, head, merged, permitted, checkout, turn, pass, page, got,
          pull, approver, review, may, decision, security, before, after,
          cleared, rows, written, coexisted, restored, interference
overrideVars == <<events, reviews, head, merged, permitted, checkout, turn, pass, page,
                  got, pull, approver, review, may, decision, security, before, after,
                  cleared, rows, written, coexisted, restored, interference>>

Ev(w, u) == [what |-> w, by |-> u]
Histories == {<<Ev("labeled", "ann")>>,
              <<Ev("labeled", "ann"), Ev("other", "bob"), Ev("unlabeled", "ann"),
                Ev("labeled", "bob")>>}
Accept(i, u, h) == [id |-> i, by |-> u, commit |-> h, accepts |-> TRUE]
Reviews == {<<Accept(1, "ann", "h2"), Accept(2, "ann", "h1"), Accept(3, "bob", "h2")>>}
Tree(s, i, u) == [committed |-> "src", source |-> s, input |-> i, unknown |-> u,
                  hasMerge |-> TRUE]
Worktrees == {Tree("src", "one", FALSE), Tree("edited", "one", FALSE),
              Tree("src", "two", FALSE), Tree("src", "one", TRUE),
              [Tree("src", "one", FALSE) EXCEPT !.hasMerge = FALSE]}

Overriding == INSTANCE PolicyOverride WITH
    User <- {"ann", "bob"}, Rev <- {"h1", "h2"}, NoUser <- "nobody",
    NoReview <- Accept(0, "nobody", "none"),
    TreeOf <- [h \in {"h1", "h2"} |->
                 [source |-> "src", input |-> IF h = "h1" THEN "one" ELSE "two"]],
    Identity <- {"rule"}, PageSize <- 2, MaxPages <- 3, History <- Histories,
    Reviewed <- Reviews, Checkouts <- Worktrees, MaxCount <- 2, MaxChanges <- 2,
    pc <- turn, pr <- pull, wrote <- written, held <- coexisted, changes <- interference
ASSUME MCOverrideAssumption == Overriding!PolicyOverrideAssumption

-----------------------------------------------------------------------------
ImportRests == live = {} /\ out = Absent /\ Init
AssemblyRests == base = {} /\ over = {} /\ filter = "all" /\ Assembling!Init
OverrideRests ==
    /\ events = <<Ev("labeled", "ann")>>
    /\ head = "h1" /\ merged = FALSE /\ permitted = {}
    /\ checkout = Tree("src", "one", FALSE)
    /\ Overriding!Init

AllInit ==
    \/ part = "import" /\ Init /\ AssemblyRests /\ Slots!Init /\ OverrideRests
    \/ part = "assembly" /\ ImportRests /\ Assembling!Init /\ Slots!Init /\ OverrideRests
    \/ part = "slots" /\ ImportRests /\ AssemblyRests /\ Slots!Init /\ OverrideRests
    \/ part = "aliases" /\ ImportRests /\ AssemblyRests /\ Aliases!Init /\ OverrideRests
    \/ part = "override" /\ ImportRests /\ AssemblyRests /\ Slots!Init /\ Overriding!Init
AllNext ==
    /\ UNCHANGED part
    /\ \/ part = "import" /\ Next /\ UNCHANGED <<assemblyVars, slotVars, overrideVars>>
       \/ part = "assembly" /\ Assembling!Next /\ UNCHANGED <<vars, slotVars, overrideVars>>
       \/ part = "slots" /\ Slots!Next /\ UNCHANGED <<vars, assemblyVars, overrideVars>>
       \/ part = "aliases" /\ Aliases!Next /\ UNCHANGED <<vars, assemblyVars, overrideVars>>
       \/ part = "override" /\ Overriding!Next /\ UNCHANGED <<vars, assemblyVars, slotVars>>
AllSpec == AllInit /\ [][AllNext]_<<vars, assemblyVars, slotVars, overrideVars, part>>

(* Of the slots: nobody is issued a value that was stored for another      *)
(* Consumer, plugin type, entry or leaf: not a retired one behind a        *)
(* position that shifted or grew again, and not through an older spelling  *)
(* (resolve_secrets); two leaves of a document share no name in any        *)
(* spelling; and what was applied resolves again.                          *)
IssuedToItsOwner ==
    /\ part = "slots" => /\ Slots!TypeOK /\ Slots!IssuedToItsOwner /\ Slots!ScanSeesLookups
                         /\ Slots!SteadyResolves
    /\ part = "aliases" => Aliases!TypeOK /\ Aliases!IssuedToItsOwner /\ Aliases!NamesAreApart

(* Of the assembly: which resources are desired does not depend on how     *)
(* files are called, nor do the root and the members of a mesh depend on   *)
(* the order of its fragments (members without an identity may come in     *)
(* another order); an overlay changes what it addresses and nothing else;  *)
(* and the gateway's forms are reached in one normalisation.  Of an        *)
(* import: the shards its secrets are packed into hold what GitHub takes.  *)
DesiredIsDetermined ==
    /\ part = "assembly" => Assembling!DesiredIsSound
    /\ part = "import" => ShardsFit

(* An override is earned: by evidence that held at one moment, for what    *)
(* the run applies, and no further than a reviewer could see.              *)
OverrideIsEarned == part = "override" => Overriding!OverrideIsEarned
=============================================================================
