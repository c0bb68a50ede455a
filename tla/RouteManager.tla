---------------------------- MODULE RouteManager ----------------------------
(***************************************************************************)
(* internal/bus/routes.go over internal/pmxcfs/members.go: every 5 s the   *)
(* routes of the embedded NATS server are reconciled with the peers that   *)
(* /etc/pve/.members lists as online, read through a cache of 2 s.         *)
(***************************************************************************)
EXTENDS Integers

CONSTANTS
  Nodes,        \* the nodes of the cluster, each with an address of its own
  Self,         \* this node
  Static,       \* nodes named by the static routes
  MaxChanges,   \* bound on the changes of .members
  MaxFailures   \* bound on the failures of a read or of ReloadOptions

ASSUME RouteAssumption == /\ Self \in Nodes /\ Static \subseteq Nodes
                          /\ MaxChanges \in Nat /\ MaxFailures \in Nat

VARIABLES
  members,      \* members[n]: "online", "offline", "noip" (online, no address
                \* yet) or "absent" (not in the nodelist)
  cache,        \* the Reader's members, or None
  fresh,        \* was the cache loaded less than 2 s ago?
  due,          \* has the ticker fired, or the manager just started?
  last,         \* the peers of the last successful reload, {} for the key ""
  routes,       \* the Routes of natsOpts, which the server was given
  changes, failures

vars == <<members, cache, fresh, due, last, routes, changes, failures>>

Status == {"online", "offline", "noip", "absent"}
None == [n \in {} |-> "absent"]

\* Mutant: the node is its own peer.
AddressesWithSelf(m) == {n \in DOMAIN m : m[n] = "online"}

\* What Peers and the filter of applyRoutes leave: the others that are online
\* and have an address.
Addresses(m) == {n \in DOMAIN m \ {Self} : m[n] = "online"}

\* The daemon has read the members at startup, for its own name and address, or
\* found the file missing.
Init == /\ members \in [Nodes -> Status] /\ members[Self] = "online"
        /\ cache \in {None, members}
        /\ fresh = (cache # None)
        /\ due = TRUE
        /\ last = {}
        /\ routes = Static
        /\ changes = 0 /\ failures = 0

\* pmxcfs rewrites the file, atomically.  A node is online for itself.
MembersChange(n) ==
  /\ n # Self /\ changes < MaxChanges
  /\ \E s \in Status \ {members[n]} : members' = [members EXCEPT ![n] = s]
  /\ changes' = changes + 1
  /\ UNCHANGED <<cache, fresh, due, last, routes, failures>>

\* The next tick comes 3 s after the cache has expired.
Tick == /\ ~due
        /\ due' = TRUE
        /\ fresh' = FALSE
        /\ UNCHANGED <<members, cache, last, routes, changes, failures>>

\* Mutant: a cache, however old, is used for ever.
ReadForever(m) == /\ m = IF cache # None THEN cache ELSE members
                  /\ cache' = m
                  /\ fresh' = TRUE

\* Members: the cache while it is fresh, else the file.
Read(m) == /\ m = IF fresh THEN cache ELSE members
           /\ cache' = m
           /\ fresh' = TRUE

\* The file cannot be read or parsed: the routes stay until the next tick.
ReadFails == /\ due /\ ~fresh
             /\ failures < MaxFailures
             /\ failures' = failures + 1
             /\ due' = FALSE
             /\ UNCHANGED <<members, cache, fresh, last, routes, changes>>

\* The peers are those of the last reload.
SameKey == /\ due
             /\ \E m \in {cache, members} : Read(m) /\ Addresses(m) = last
             /\ due' = FALSE
             /\ UNCHANGED <<members, last, routes, changes, failures>>

Reload == /\ due
          /\ \E m \in {cache, members} : /\ Read(m)
                                         /\ Addresses(m) # last
                                         /\ last' = Addresses(m)
                                         /\ routes' = Addresses(m) \cup Static
          /\ due' = FALSE
          /\ UNCHANGED <<members, changes, failures>>

\* Mutant: the key is remembered although ReloadOptions fails.
ReloadFailsRemembered ==
  /\ due
  /\ failures < MaxFailures
  /\ \E m \in {cache, members} : /\ Read(m) /\ Addresses(m) # last
                                 /\ last' = Addresses(m)
  /\ failures' = failures + 1
  /\ due' = FALSE
  /\ UNCHANGED <<members, routes, changes>>

\* ReloadOptions fails: neither the key nor the options are kept.
ReloadFails == /\ due
               /\ failures < MaxFailures
               /\ \E m \in {cache, members} : Read(m) /\ Addresses(m) # last
               /\ failures' = failures + 1
               /\ due' = FALSE
               /\ UNCHANGED <<members, last, routes, changes>>

ApplyRoutes == ReadFails \/ SameKey \/ Reload \/ ReloadFails

Next == (\E n \in Nodes : MembersChange(n)) \/ Tick \/ ApplyRoutes

Spec == Init /\ [][Next]_vars
-----------------------------------------------------------------------------
TypeOK == /\ members \in [Nodes -> Status]
          /\ cache \in [Nodes -> Status] \cup {None}
          /\ fresh \in BOOLEAN /\ due \in BOOLEAN
          /\ last \subseteq Nodes \ {Self} /\ routes \subseteq Nodes
          /\ changes \in 0..MaxChanges /\ failures \in 0..MaxFailures

(* The key that decides whether to reload describes the routes in use, so a  *)
(* reload is never skipped while it is needed, and static routes survive.    *)
KeyDescribesRoutes == routes = last \cup Static
=============================================================================
