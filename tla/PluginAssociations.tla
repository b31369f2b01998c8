------------------------- MODULE PluginAssociations -------------------------
(***************************************************************************)
(* How an incremental apply writes plugin configs and the proxies that     *)
(* name them (Preconditions and update_proxy_after_plugins,                *)
(* apply/api_target.rs).  The gateway keeps the associations in step with  *)
(* a plugin's scope by itself, and a plugin's tag does not cover them.     *)
(*                                                                         *)
(* One run over one namespace whose proxies all exist; creates of proxies  *)
(* are in BatchCreate, lost answers in Apply.                              *)
(***************************************************************************)
EXTENDS Integers

CONSTANTS
    Plugin, Proxy,
    Gone, Global, Group,    \* scopes beside the proxies themselves
    Scopes,                 \* [Plugin -> scopes the instance uses]
    MaxChanges,             \* bound on the writes of others
    MaxFaults               \* bound on the writes that fail

NoOp == "none"
Scope == {Gone, Global, Group} \cup Proxy
AssociationsAssumption ==
    /\ {Gone, Global, Group} \cap Proxy = {}
    /\ Gone # Global /\ Gone # Group /\ Global # Group
    /\ Plugin \cap Proxy = {} /\ NoOp \notin Plugin \cup Proxy
    /\ Scopes \in [Plugin -> SUBSET Scope]
    /\ MaxChanges \in Nat /\ MaxFaults \in Nat

VARIABLES
    scope, assoc,           \* the gateway's plugins, and what proxies name
    pver, xver,             \* stored versions, behind the tags
    enforces,               \* the build checks expected_proxy_ids
    wantScope, wantAssoc,   \* the repository
    planScope, planAssoc,   \* the backup the plan came from
    updates, proxies, deletes,          \* planned operations left
    pc, cur, tag,
    written, touched,       \* written_plugins, changed_proxy_associations
    failedPlugins, writesFailed, stale,
    seen,                   \* ghost: associations in the last backup re-read
    changes, faults

gateway == <<scope, assoc, pver, xver, enforces>>
repository == <<wantScope, wantAssoc>>
plan == <<planScope, planAssoc>>
ops == <<updates, proxies, deletes>>
outcome == <<failedPlugins, writesFailed, stale>>
vars == <<gateway, repository, plan, ops, pc, cur, tag, written, touched, outcome,
          seen, changes, faults>>

Of(p, as) == {x \in Proxy : <<p, x>> \in as}
Names(x, as) == {p \in Plugin : <<p, x>> \in as}

-----------------------------------------------------------------------------
(* The gateway.                                                            *)

(* What a scope leaves of a plugin's associations.                         *)
Kept(p, s, as) ==
    CASE s = Group -> Of(p, as)
      [] s \in Proxy -> {s}
      [] OTHER -> {}
Rescope(p, s) ==
    /\ scope' = [scope EXCEPT ![p] = s] /\ pver' = [pver EXCEPT ![p] = @ + 1]
    /\ LET k == Kept(p, s, assoc)
       IN  /\ assoc' = {a \in assoc : a[1] # p} \cup ({p} \X k)
           /\ xver' = [x \in Proxy |-> IF (x \in Of(p, assoc)) # (x \in k)
                                       THEN xver[x] + 1 ELSE xver[x]]
    /\ UNCHANGED enforces
Rename(x, ps) ==
    /\ assoc' = {a \in assoc : a[2] # x} \cup (ps \X {x})
    /\ xver' = [xver EXCEPT ![x] = @ + 1] /\ UNCHANGED <<scope, pver, enforces>>
Attachable(p, x) == scope[p] \in {Group, x}

(* Scopes and associations that agree.                                     *)
Coherent(s, as) ==
    \A p \in Plugin : /\ s[p] \in {Gone, Global} => Of(p, as) = {}
                      /\ s[p] \in Proxy => Of(p, as) = {s[p]}

-----------------------------------------------------------------------------

Init ==
    /\ scope \in [Plugin -> Scope] /\ \A p \in Plugin : scope[p] \in Scopes[p]
    /\ assoc \in SUBSET (Plugin \X Proxy) /\ Coherent(scope, assoc)
    /\ wantScope \in [Plugin -> Scope] /\ \A p \in Plugin : wantScope[p] \in Scopes[p]
    /\ wantAssoc \in SUBSET (Plugin \X Proxy) /\ Coherent(wantScope, wantAssoc)
    /\ enforces \in BOOLEAN
    /\ pver = [p \in Plugin |-> 0] /\ xver = [x \in Proxy |-> 0]
    /\ planScope = scope /\ planAssoc = assoc
    /\ updates = {p \in Plugin : wantScope[p] \notin {Gone, scope[p]}}
    /\ proxies = {x \in Proxy : Names(x, wantAssoc) # Names(x, assoc)}
    /\ deletes = {p \in Plugin : wantScope[p] = Gone /\ scope[p] # Gone}
    /\ pc = "next" /\ cur = NoOp /\ tag = 0 /\ written = {} /\ touched = {}
    /\ failedPlugins = {} /\ writesFailed = FALSE /\ stale = FALSE
    /\ seen = assoc /\ changes = 0 /\ faults = 0

Planned(p) == Of(p, planAssoc) \cup Of(p, wantAssoc)
(* The update lets the gateway detach the plugin from other proxies.       *)
Retargets(p) == wantScope[p] # Group /\ wantScope[p] # planScope[p]
NotedWrite(p) == wantScope[p] \in Proxy \/ Retargets(p)

Unplanned_None(p, kept) == {}   \* mutant: no re-read of the references
Unplanned(p, kept) == Of(p, assoc) \ (Planned(p) \cup kept)
Keeps(p) == IF p \in deletes THEN {} ELSE {wantScope[p]} \cap Proxy

(* A proxy is compared without the associations the run's writes rewrote.  *)
Comparable(x, as) == Names(x, as) \ written
PluginAsPlanned(p) == scope[p] = planScope[p]
ProxyAsPlanned(x) == Comparable(x, assoc) = Comparable(x, planAssoc)

-----------------------------------------------------------------------------
(* The run: one operation after the other.                                 *)

Still == UNCHANGED <<repository, plan, changes>>
Finish == /\ pc' = "next" /\ cur' = NoOp /\ tag' = 0
          /\ updates' = updates \ {cur} /\ proxies' = proxies \ {cur}
          /\ deletes' = deletes \ {cur} /\ Still
(* Plugins before proxies, deletes last and only if every write succeeded. *)
Turn == IF updates # {} THEN updates ELSE IF proxies # {} THEN proxies ELSE deletes
Choose ==
    /\ pc = "next" /\ ~stale /\ Turn # {}
    /\ Turn = deletes => ~writesFailed
    /\ cur' \in Turn
    /\ pc' = IF cur' \in Plugin /\ wantScope[cur'] # Gone /\ planScope[cur'] = Gone
             THEN "create" ELSE "read"
    /\ UNCHANGED <<gateway, ops, tag, written, touched, outcome, seen, faults>> /\ Still

Fail == /\ failedPlugins' = IF cur \in updates THEN failedPlugins \cup {cur} ELSE failedPlugins
        /\ writesFailed' = (writesFailed \/ cur \notin deletes)
Refused == /\ Fail /\ stale' = TRUE /\ Finish
           /\ UNCHANGED <<gateway, written, touched, seen, faults>>
Failing == /\ faults < MaxFaults /\ faults' = faults + 1 /\ Fail /\ Finish
           /\ UNCHANGED <<gateway, written, touched, stale, seen>>
(* Targets before and after: the proxies the gateway attached or detached. *)
Wrote == /\ written' = IF NotedWrite(cur) THEN written \cup {cur} ELSE written
         /\ touched' = touched \cup ({planScope[cur], wantScope[cur]} \cap Proxy)

CreatePlugin ==
    /\ pc = "create"
    /\ \/ /\ scope[cur] = Gone /\ Rescope(cur, wantScope[cur]) /\ Wrote /\ Finish
          /\ UNCHANGED <<outcome, seen, faults>>
       \/ scope[cur] # Gone /\ Fail /\ Finish
          /\ UNCHANGED <<gateway, written, touched, stale, seen, faults>>
       \/ Failing

(* The conditional read: tag and content together.                         *)
ReadPlugin ==
    /\ pc = "read" /\ cur \in Plugin
    /\ IF scope[cur] = Gone /\ cur \in deletes
         THEN Finish /\ UNCHANGED <<gateway, written, touched, outcome, seen, faults>>
       ELSE IF scope[cur] = Gone \/ ~PluginAsPlanned(cur) THEN Refused
       ELSE   /\ tag' = pver[cur] /\ Still
              /\ pc' = IF cur \in deletes \/ Retargets(cur) THEN "reread" ELSE "write"
              /\ UNCHANGED <<gateway, ops, cur, written, touched, outcome, seen, faults>>

(* A fresh backup must show no proxy outside the plan at the plugin.       *)
RereadReferences ==
    /\ pc = "reread"
    /\ IF Unplanned(cur, Keeps(cur)) # {} THEN Refused
       ELSE /\ pc' = "write" /\ seen' = assoc /\ Still
            /\ UNCHANGED <<gateway, ops, cur, tag, written, touched, outcome, faults>>

Detached == Of(cur, assoc) \ Kept(cur, wantScope[cur], assoc)
ExpectedHolds == enforces => Detached \subseteq Planned(cur)
WritePlugin ==
    /\ pc = "write" /\ cur \in Plugin
    /\ \/ /\ tag = pver[cur] /\ ExpectedHolds
          /\ Rescope(cur, wantScope[cur]) /\ Finish
          /\ IF cur \in deletes THEN UNCHANGED <<written, touched>> ELSE Wrote
          /\ UNCHANGED <<outcome, seen, faults>>
       \/ ~(tag = pver[cur] /\ ExpectedHolds) /\ Refused
       \/ Failing

(* A proxy whose plugin failed is not written.  Otherwise it is read, and  *)
(* needs no write if the plugin writes already brought it there.           *)
ReadProxy ==
    /\ pc = "read" /\ cur \in Proxy
    /\ IF Names(cur, wantAssoc) \cap failedPlugins # {}
         THEN Fail /\ Finish /\ UNCHANGED <<gateway, written, touched, stale, seen, faults>>
       ELSE IF ~ProxyAsPlanned(cur) THEN Refused
       ELSE IF cur \in touched /\ Names(cur, assoc) = Names(cur, wantAssoc)
         THEN Finish /\ UNCHANGED <<gateway, written, touched, outcome, seen, faults>>
       ELSE   /\ pc' = "write" /\ tag' = xver[cur] /\ Still
              /\ UNCHANGED <<gateway, ops, cur, written, touched, outcome, seen, faults>>
ProxyWritten ==
    /\ pc = "write" /\ cur \in Proxy /\ tag = xver[cur]
    /\ \A p \in Names(cur, wantAssoc) : Attachable(p, cur)
    /\ Rename(cur, Names(cur, wantAssoc)) /\ Finish
    /\ UNCHANGED <<written, touched, outcome, seen, faults>>
ProxyRefused ==
    /\ pc = "write" /\ cur \in Proxy
    /\ \/ tag # xver[cur] /\ Refused
       \/ (\E p \in Names(cur, wantAssoc) : ~Attachable(p, cur)) /\ Fail /\ Finish
          /\ UNCHANGED <<gateway, written, touched, stale, seen, faults>>
       \/ Failing

Over == pc = "next" /\ (stale \/ Turn = {} \/ (Turn = deletes /\ writesFailed))

-----------------------------------------------------------------------------

Change == /\ ~Over /\ changes < MaxChanges /\ changes' = changes + 1
          /\ UNCHANGED <<repository, plan, ops, pc, cur, tag, written, touched, outcome,
                         seen, faults>>
Attach == Change /\ \E p \in Plugin, x \in Proxy :
              <<p, x>> \notin assoc /\ Attachable(p, x) /\ Rename(x, Names(x, assoc) \cup {p})
Detach == Change /\ \E p \in Plugin, x \in Proxy :
              <<p, x>> \in assoc /\ Rename(x, Names(x, assoc) \ {p})
Retarget == Change /\ \E p \in Plugin : \E s \in Scopes[p] \ {scope[p]} : Rescope(p, s)

Done == Over /\ UNCHANGED vars
Run == \/ Choose \/ CreatePlugin \/ ReadPlugin \/ RereadReferences \/ WritePlugin
       \/ ReadProxy \/ ProxyWritten \/ ProxyRefused
Next == Run \/ Attach \/ Detach \/ Retarget \/ Done
Spec == Init /\ [][Next]_vars

-----------------------------------------------------------------------------
(* Properties.                                                             *)

TypeOK ==
    /\ scope \in [Plugin -> Scope] /\ assoc \subseteq Plugin \X Proxy
    /\ updates \cup deletes \subseteq Plugin /\ proxies \subseteq Proxy
    /\ pc \in {"next", "create", "read", "reread", "write"}
    /\ cur \in Plugin \cup Proxy \cup {NoOp} /\ tag \in Nat
    /\ written \cup failedPlugins \subseteq Plugin /\ touched \subseteq Proxy
    /\ writesFailed \in BOOLEAN /\ stale \in BOOLEAN
    /\ seen \subseteq Plugin \X Proxy
    /\ changes \in 0..MaxChanges /\ faults \in 0..MaxFaults

(* The run detaches a plugin only from proxies its plan accounts for; a    *)
(* gateway that does not check the set itself leaves open just the time    *)
(* between the re-read and the write.                                      *)
NoUnplannedDetach ==
    [][Run => \A a \in assoc \ assoc' :
          \/ a[2] \in Planned(a[1]) \/ a[1] \in written
          \/ ~enforces /\ a \notin seen]_vars

(* A proxy's list is written only over associations that are as planned,   *)
(* beside those of the plugins the run itself retargeted: a gateway that   *)
(* keeps a group's associations keeps the ones others made, too.           *)
NoRevertedAssociation ==
    [][ProxyWritten => \A p \in Plugin :
          wantScope[p] \in {Gone, Group}
              => (<<p, cur>> \in assoc <=> <<p, cur>> \in planAssoc)]_vars

(* Undisturbed, a run establishes what is declared in one go: the effects  *)
(* of its own plugin writes do not make its proxy writes stale.            *)
CalmRunSettles ==
    Over /\ changes = 0 /\ faults = 0 => scope = wantScope /\ assoc = wantAssoc

(* A run detaches a plugin only from proxies its plan accounts for, writes *)
(* no proxy's list over associations others made, and settles them in one  *)
(* go when nobody disturbs it.                                             *)
AssociationsAreKept ==
    /\ NoUnplannedDetach /\ NoRevertedAssociation
    /\ []TypeOK /\ []CalmRunSettles
=============================================================================
