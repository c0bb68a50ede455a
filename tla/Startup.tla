------------------------------ MODULE Startup ------------------------------
(***************************************************************************)
(* runDaemon of main.go up to a server that is ready, with the reader of   *)
(* internal/pmxcfs/members.go and the loader of internal/tlsutil/loader.go *)
(* that it uses, composed with the route manager that the server then      *)
(* runs.  pmxcfs is mounted late, certificates are renewed file by file,   *)
(* and systemd starts again a daemon that has failed, but not one that was *)
(* stopped.                                                                *)
(***************************************************************************)
EXTENDS RouteManager

CONSTANTS
  MaxAttempts,  \* reads of .members for the name of the cluster, 20
  MaxRenewals,  \* bound on the renewals of the certificate
  MaxStops      \* bound on the crashes and stops of the daemon

ASSUME StartupAssumption == /\ MaxAttempts \in Nat \ {0}
                            /\ MaxRenewals \in Nat /\ MaxStops \in Nat

VARIABLES
  \* the node
  pmxcfs,       \* "unmounted", or with a .members that is "unnamed" or holds
                \* the name of the cluster, "named"
  certFile,     \* the renewal that each of the two files is from
  keyFile,
  \* the daemon
  stage,        \* "down", "detect", "node", "cert", "key", "address", "serve"
                \* or "up"
  attempt,
  cluster,      \* the name it goes by: "none" yet, "named" or "standalone"
  cert,         \* the certificate being loaded
  served,       \* the certificate and the key that the listeners use
  \* systemd
  wanted,       \* is the daemon to run, so that it is started if it does not?
  stops,
  \* history
  late          \* was the name of the cluster missing when the daemon began?

mounted == pmxcfs # "unmounted"

host   == <<pmxcfs, certFile, keyFile>>
daemon == <<stage, attempt, cluster, cert, served, late>>
routing == <<cache, fresh, due, last, routes>>
systemd == <<wanted, stops>>
startupVars == <<vars, host, daemon, systemd>>

Stages == {"down", "detect", "node", "cert", "key", "address", "serve", "up"}
NoPair == [cert |-> -1, key |-> -1]

StartupInit == /\ Init /\ cache = None
               /\ pmxcfs \in {"unmounted", "unnamed", "named"}
               /\ certFile = 0 /\ keyFile = 0
               /\ stage = "down" /\ attempt = 0
               /\ cluster = "none" /\ cert = -1 /\ served = NoPair
               /\ late = FALSE /\ wanted = TRUE /\ stops = 0

(* The node (external) *)

Mount == /\ ~mounted /\ pmxcfs' \in {"unnamed", "named"}
         /\ UNCHANGED <<vars, certFile, keyFile, daemon, systemd>>

Name == /\ pmxcfs = "unnamed" /\ pmxcfs' = "named"
        /\ UNCHANGED <<vars, certFile, keyFile, daemon, systemd>>

\* A renewal writes the key, then the certificate.
RenewKey == /\ keyFile = certFile /\ keyFile < MaxRenewals
            /\ keyFile' = keyFile + 1
            /\ UNCHANGED <<vars, pmxcfs, certFile, daemon, systemd>>

RenewCert == /\ certFile # keyFile
             /\ certFile' = keyFile
             /\ UNCHANGED <<vars, pmxcfs, keyFile, daemon, systemd>>

(* The daemon *)

Goto(s) == stage' = s

\* The process is gone, and with it what it knew.
Exit == /\ Goto("down") /\ attempt' = 0
        /\ cluster' = "none" /\ cert' = -1 /\ served' = NoPair
        /\ late' = FALSE
        /\ cache' = None /\ fresh' = FALSE /\ due' = TRUE
        /\ last' = {} /\ routes' = Static

\* The daemon crashes, or the whole node.  It is still wanted:
\* Restart=on-failure and WantedBy=multi-user.target.
Crash == /\ stage # "down" /\ stops < MaxStops
         /\ stops' = stops + 1
         /\ pmxcfs' \in {pmxcfs, "unmounted"}
         /\ Exit
         /\ UNCHANGED <<members, changes, failures, certFile, keyFile, wanted>>

\* The daemon is stopped or restarted, or is because pve-cluster is (PartOf).  A
\* stop ends without an error, so that Restart=on-failure does not undo it, and
\* a start of pve-cluster is not passed on.
Stop == /\ wanted /\ stops < MaxStops
        /\ wanted' \in BOOLEAN /\ stops' = stops + 1
        /\ pmxcfs' \in {pmxcfs, "unmounted"}
        /\ Exit
        /\ UNCHANGED <<members, changes, failures, certFile, keyFile>>

\* An operator starts it again, or the next boot does.
Start == /\ ~wanted
         /\ wanted' = TRUE
         /\ pmxcfs' \in {pmxcfs, "unmounted"}
         /\ UNCHANGED <<vars, certFile, keyFile, daemon, stops>>

\* RestartSec has passed, or the daemon has just been started.
Exec == /\ stage = "down" /\ wanted
        /\ Goto("detect")
        /\ attempt' = 1
        /\ late' = (pmxcfs # "named")
        /\ UNCHANGED <<vars, host, cluster, cert, served, systemd>>

\* Two seconds pass.
CacheExpires == /\ stage # "down" /\ fresh
                /\ fresh' = FALSE
                /\ UNCHANGED <<members, cache, due, last, routes, changes, failures,
                               host, daemon, systemd>>

\* Members, of the reader, returns m or fails.
Members(m)   == (fresh \/ mounted) /\ Read(m) /\ UNCHANGED failures
MembersFails == /\ ~fresh
                /\ UNCHANGED <<cache, fresh>>
                /\ \/ ~mounted /\ UNCHANGED failures
                   \/ mounted /\ failures < MaxFailures /\ failures' = failures + 1

Starts == UNCHANGED <<members, due, last, routes, changes, host, late, systemd>>

\* Mutant: the name is not asked for again.
DetectFailsOnce == /\ stage = "detect" /\ MembersFails
                   /\ cluster' = "standalone" /\ Goto("node") /\ attempt' = 0
                   /\ UNCHANGED <<cert, served>>
                   /\ Starts

\* Mutant: one attempt too many.
DetectFailsLate == /\ stage = "detect" /\ MembersFails
                   /\ IF attempt <= MaxAttempts
                        THEN attempt' = attempt + 1 /\ UNCHANGED <<stage, cluster>>
                        ELSE cluster' = "standalone" /\ Goto("node") /\ attempt' = 0
                   /\ UNCHANGED <<cert, served>>
                   /\ Starts

\* detectClusterName: a name that is missing from the file is missing for good,
\* a file that cannot be read is tried again.
DetectReads == /\ stage = "detect" /\ Members(members)
               /\ cluster' = IF pmxcfs = "named" THEN "named" ELSE "standalone"
               /\ Goto("node") /\ attempt' = 0
               /\ UNCHANGED <<cert, served>>
               /\ Starts
DetectFails == /\ stage = "detect" /\ MembersFails
               /\ IF attempt < MaxAttempts
                    THEN attempt' = attempt + 1 /\ UNCHANGED <<stage, cluster>>
                    ELSE cluster' = "standalone" /\ Goto("node") /\ attempt' = 0
               /\ UNCHANGED <<cert, served>>
               /\ Starts

\* LocalNodeName falls back on /etc/hostname, which is the same name.
NodeName == /\ stage = "node"
            /\ MembersFails \/ \E m \in {cache, members} : Members(m)
            /\ Goto("cert")
            /\ UNCHANGED <<attempt, cluster, cert, served>>
            /\ Starts

\* NewLoader: the CA and the certificate are read, then the key.
LoadCert == /\ stage = "cert" /\ mounted
            /\ cert' = certFile
            /\ Goto("key")
            /\ UNCHANGED <<cache, fresh, failures, attempt, cluster, served>>
            /\ Starts

\* Mutant: the key is not compared with the certificate.
LoadKeyUnchecked == /\ stage = "key" /\ mounted
                    /\ served' = [cert |-> cert, key |-> keyFile]
                    /\ Goto("address")
                    /\ UNCHANGED <<cache, fresh, failures, attempt, cluster, cert>>
                    /\ Starts

LoadKey == /\ stage = "key" /\ mounted
           /\ keyFile = cert
           /\ served' = [cert |-> cert, key |-> keyFile]
           /\ Goto("address")
           /\ UNCHANGED <<cache, fresh, failures, attempt, cluster, cert>>
           /\ Starts

\* A key of another certificate.
Mismatch == stage = "key" /\ keyFile # cert

\* Mutant: that is waited out, without a new attempt.
LoadFailsWaits == Mismatch /\ UNCHANGED startupVars

\* A file that is missing, that cannot be read or parsed, or that does not go with
\* the others ends the daemon.
LoadFails == /\ stage \in {"cert", "key"}
             /\ \/ (~mounted \/ Mismatch) /\ UNCHANGED failures
                \/ failures < MaxFailures /\ failures' = failures + 1
             /\ Exit
             /\ UNCHANGED <<members, changes, host, systemd>>

\* resolveAdvertise: LocalIP reads the members; without an address the server
\* advertises none.
Address == /\ stage = "address"
           /\ MembersFails \/ \E m \in {cache, members} : Members(m)
           /\ Goto("serve")
           /\ UNCHANGED <<attempt, cluster, cert, served>>
           /\ Starts

\* Start of the server: it has the static routes, and its route manager runs.
Serve == /\ stage = "serve"
         /\ Goto("up")
         /\ UNCHANGED <<vars, host, attempt, cluster, cert, served, late, systemd>>

ServeFails == /\ stage = "serve" /\ failures < MaxFailures
              /\ failures' = failures + 1
              /\ Exit
              /\ UNCHANGED <<members, changes, host, systemd>>

RunDaemon == \/ Exec \/ DetectReads \/ DetectFails \/ NodeName
             \/ LoadCert \/ LoadKey \/ LoadFails \/ Address \/ Serve \/ ServeFails

\* The route manager, while the server is up.
RouteTick   == stage = "up" /\ Tick /\ UNCHANGED <<host, daemon, systemd>>
RouteUpdate == stage = "up" /\ ApplyRoutes /\ UNCHANGED <<host, daemon, systemd>>

MembersRewritten == /\ \E n \in Nodes : MembersChange(n)
                    /\ UNCHANGED <<host, daemon, systemd>>

StartupNext == \/ Mount \/ Name \/ RenewKey \/ RenewCert \/ MembersRewritten
               \/ Crash \/ Stop \/ Start \/ CacheExpires \/ RunDaemon \/ RouteTick \/ RouteUpdate

StartupSpec == StartupInit /\ [][StartupNext]_startupVars

(* pmxcfs is mounted some time and a renewal is finished; systemd starts a   *)
(* daemon that is wanted, and the daemon goes on.  The name of the cluster   *)
(* need not ever appear, and one that was stopped need not be started.       *)
FairStartupSpec == /\ StartupSpec
                   /\ WF_startupVars(Mount) /\ WF_startupVars(RenewCert)
                   /\ WF_startupVars(RunDaemon)
                   /\ WF_startupVars(RouteTick) /\ WF_startupVars(RouteUpdate)
-----------------------------------------------------------------------------
StartupTypeOK ==
  /\ pmxcfs \in {"unmounted", "unnamed", "named"}
  /\ certFile \in 0..MaxRenewals /\ keyFile \in certFile..certFile + 1
  /\ stage \in Stages /\ attempt \in 0..MaxAttempts
  /\ cluster \in {"none", "named", "standalone"}
  /\ cert \in -1..MaxRenewals
  /\ served \in {NoPair} \cup [cert : 0..MaxRenewals, key : 0..MaxRenewals]
  /\ late \in BOOLEAN
  /\ wanted \in BOOLEAN /\ stops \in 0..MaxStops

(* loader.go:44: although the files are read one after another while         *)
(* `pvecm updatecerts` writes them, a daemon that serves has a certificate   *)
(* and the key that belongs to it, of a renewal that was in the files.       *)
PairIsOne == stage \in {"address", "serve", "up"}
               => served.cert = served.key /\ served.cert \in 0..certFile

(* main.go:241: a daemon that begins when .members is there and names the    *)
(* cluster goes by that name, although reads fail (fewer than MaxAttempts)   *)
(* meanwhile: only one that is early calls itself standalone.                *)
NamedUnlessEarly == cluster = "standalone" => late

(* docs/ARCHITECTURE.md:119: whatever fails while the daemon starts, a mount *)
(* that is late, a renewal that is under way, a file or a port, some start   *)
(* succeeds, and the daemon stays, unless it was stopped and is not started. *)
ComesUp == <>[](wanted => stage = "up")

(* Once .members is stable, the routes of a daemon that was not stopped      *)
(* become, and stay, the static ones and those to every online peer with an  *)
(* address, in spite of stale caches and failed reads and reloads before     *)
(* (routes.go:47).                                                           *)
Converges == <>[](wanted => routes = Addresses(members) \cup Static)

(* docs/ARCHITECTURE.md:123: a renewal is picked up by a daemon that runs.   *)
RenewalServed ==
  stage = "up" /\ served.cert # certFile ~> served.cert = certFile \/ stage # "up"
=============================================================================
