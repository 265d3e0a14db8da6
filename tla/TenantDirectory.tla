--------------------------- MODULE TenantDirectory ---------------------------
(***************************************************************************)
(* What the provisioner promises about tenants, with no word about the     *)
(* dozens of Docker calls it takes to keep the promise:                     *)
(*                                                                         *)
(*   - a tenant becomes live (has an active registry row) only when every  *)
(*     part of it exists that it cannot do without;                        *)
(*   - nothing takes a part away from a domain that is not live, unless it *)
(*     is made again;                                                      *)
(*   - nothing adds a part to a domain that is live;                       *)
(*   - a tenant stops being live only when no part of it is left;          *)
(*   - a tenant may be disowned: nothing is promised about it from then on, *)
(*     but what becomes of it changes no other tenant.                      *)
(*                                                                         *)
(* TenantLifecycle implements it (Directory!Spec there).                   *)
(***************************************************************************)

CONSTANTS Names,    \* the names that tenants may be hosted under
          Parts,    \* the containers, volumes, ... one tenant is made of
          Optional, \* those it may be live without
          Remade    \* those that may be made twice while it is built

VARIABLES live,     \* the names with an active registry row
          parts,    \* the parts that exist, per name
          disowned  \* the names nothing is promised about

vars == <<live, parts, disowned>>

TypeOK ==
    /\ live \in SUBSET Names
    /\ parts \in [Names -> SUBSET Parts]
    /\ disowned \in SUBSET Names

Init ==
    /\ live = {}
    /\ parts = [n \in Names |-> {}]
    /\ disowned \in SUBSET Names

OnlyChanges(n) == parts' = [parts EXCEPT ![n] = parts'[n]]

Build(n) ==
    /\ n \notin live
    /\ parts[n] \ Remade \subseteq parts'[n] /\ parts'[n] \subseteq Parts
    /\ OnlyChanges(n)
    /\ UNCHANGED live

GoLive(n) ==
    /\ n \notin live
    /\ Parts \ Optional \subseteq parts[n]
    /\ live' = live \cup {n}
    /\ UNCHANGED parts

Dismantle(n) ==
    /\ n \in live
    /\ parts'[n] \subseteq parts[n]
    /\ OnlyChanges(n)
    /\ UNCHANGED live

Retire(n) ==
    /\ n \in live
    /\ parts[n] = {}
    /\ live' = live \ {n}
    /\ UNCHANGED parts

Keep(n) == Build(n) \/ GoLive(n) \/ Dismantle(n) \/ Retire(n)

(* Anything may become of n, and of n only.                                 *)
Stray(n) ==
    /\ parts'[n] \subseteq Parts
    /\ OnlyChanges(n)
    /\ live' \ {n} = live \ {n}

Disown(n) ==
    /\ disowned' = disowned \cup {n}
    /\ UNCHANGED <<live, parts>>

Next ==
    \E n \in Names :
        \/ n \notin disowned /\ Keep(n) /\ UNCHANGED disowned
        \/ n \in disowned /\ Stray(n) /\ UNCHANGED disowned
        \/ Disown(n)

Spec == Init /\ [][Next]_vars
=============================================================================
