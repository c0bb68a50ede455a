---------------------------- MODULE StartupProofs ----------------------------
(***************************************************************************)
(* What holds of the routes and of the startup of the daemon for every     *)
(* cluster, every number of attempts, renewals, failures and stops.        *)
(***************************************************************************)
EXTENDS StartupInv, TLAPS

(* The peers in a list of members are other nodes.                           *)
LEMMA AddressesAreOthers ==
  ASSUME NEW m \in [Nodes -> Status] \cup {None}
  PROVE  Addresses(m) \subseteq Nodes \ {Self}
BY DEF Addresses, None

(* What the reader returns, it has cached: the members, or nothing.          *)
LEMMA ReadType ==
  ASSUME TypeOK, NEW m \in {cache, members}, Read(m)
  PROVE  /\ m \in [Nodes -> Status] \cup {None}
         /\ cache' \in [Nodes -> Status] \cup {None}
         /\ fresh' \in BOOLEAN
BY DEF TypeOK, Read
-----------------------------------------------------------------------------
(* The route manager on its own *)

(* At its start the manager has no key, and only the static routes are in use. *)
LEMMA RoutesInit == Init => TypeOK /\ KeyDescribesRoutes
<1> SUFFICES ASSUME Init PROVE TypeOK /\ KeyDescribesRoutes
  OBVIOUS
<1> USE RouteAssumption
<1>1. cache \in [Nodes -> Status] \cup {None}
  BY DEF Init
<1>2. fresh \in BOOLEAN /\ due \in BOOLEAN
  BY DEF Init
<1> QED BY <1>1, <1>2 DEF Init, TypeOK, KeyDescribesRoutes

(* One reconciliation, whatever it reads and however it ends.                *)
LEMMA ApplyRoutesKeeps ==
  ASSUME TypeOK, KeyDescribesRoutes, ApplyRoutes
  PROVE  TypeOK' /\ KeyDescribesRoutes'
<1> USE RouteAssumption
<1>1. failures < MaxFailures => failures + 1 \in 0..MaxFailures
  BY DEF TypeOK
<1>2. CASE ReadFails
  BY <1>1, <1>2 DEF ReadFails, TypeOK, KeyDescribesRoutes
<1>3. CASE SameKey
  BY <1>3, ReadType DEF SameKey, TypeOK, KeyDescribesRoutes
<1>4. CASE Reload
  <2>1. PICK m \in {cache, members} :
          Read(m) /\ last' = Addresses(m) /\ routes' = Addresses(m) \cup Static
    BY <1>4 DEF Reload
  <2>2. Addresses(m) \subseteq Nodes \ {Self}
    BY <2>1, ReadType, AddressesAreOthers
  <2>3. cache' \in [Nodes -> Status] \cup {None} /\ fresh' \in BOOLEAN
    BY <2>1, ReadType
  <2> QED BY <1>4, <2>1, <2>2, <2>3 DEF Reload, TypeOK, KeyDescribesRoutes
<1>5. CASE ReloadFails
  BY <1>1, <1>5, ReadType DEF ReloadFails, TypeOK, KeyDescribesRoutes
<1> QED BY <1>2, <1>3, <1>4, <1>5 DEF ApplyRoutes

(* .members is rewritten, or the ticker fires: neither touches the routes.   *)
LEMMA MembersChangeKeeps ==
  ASSUME TypeOK, KeyDescribesRoutes, NEW n \in Nodes, MembersChange(n)
  PROVE  TypeOK' /\ KeyDescribesRoutes'
<1>1. members' \in [Nodes -> Status] /\ changes' \in 0..MaxChanges
  BY RouteAssumption DEF MembersChange, TypeOK
<1> QED BY <1>1 DEF MembersChange, TypeOK, KeyDescribesRoutes

(* The ticker fires, and the cache has expired by then.                       *)
LEMMA TickKeeps ==
  ASSUME TypeOK, KeyDescribesRoutes, Tick
  PROVE  TypeOK' /\ KeyDescribesRoutes'
BY DEF Tick, TypeOK, KeyDescribesRoutes

(* Steps of the startup that leave the route manager alone.                  *)
LEMMA RoutesUnchanged ==
  ASSUME TypeOK, KeyDescribesRoutes, UNCHANGED vars
  PROVE  TypeOK' /\ KeyDescribesRoutes'
BY DEF vars, TypeOK, KeyDescribesRoutes

(* For every cluster: the key that decides whether to reload describes the   *)
(* routes in use, whatever the cache holds and whichever reload fails.       *)
THEOREM RoutesMatchKey == Spec => [](TypeOK /\ KeyDescribesRoutes)
<1>1. TypeOK /\ KeyDescribesRoutes /\ [Next]_vars => TypeOK' /\ KeyDescribesRoutes'
  BY ApplyRoutesKeeps, MembersChangeKeeps, TickKeeps, RoutesUnchanged DEF Next
<1> QED BY <1>1, RoutesInit, PTL DEF Spec
-----------------------------------------------------------------------------
(* The startup *)

(* A daemon that is down satisfies the invariant.                            *)
LEMMA UpInit == StartupInit => UpInv
<1> SUFFICES ASSUME StartupInit PROVE UpInv
  OBVIOUS
<1> USE RouteAssumption, StartupAssumption
<1>1. TypeOK /\ KeyDescribesRoutes
  BY RoutesInit DEF StartupInit
<1>2. StartupTypeOK
  <2>1. /\ certFile \in 0..MaxRenewals /\ keyFile \in certFile..certFile + 1
        /\ cert \in -1..MaxRenewals
        /\ attempt \in 0..MaxAttempts /\ wanted \in BOOLEAN /\ stops \in 0..MaxStops
    BY DEF StartupInit
  <2> QED BY <2>1 DEF StartupInit, StartupTypeOK, Stages
<1>3. /\ RenewalsAreBounded /\ RunsIfWanted /\ LoadedWasThere /\ PairIsOne
      /\ DetectCounts /\ StandaloneIsExcused
  BY DEF StartupInit, RenewalsAreBounded, RunsIfWanted, LoadedWasThere, PairIsOne,
         DetectCounts, StandaloneIsExcused
<1> QED BY <1>1, <1>2, <1>3 DEF UpInv

(* What happens to the node takes nothing back: mounting, naming, and the    *)
(* renewals, of which the daemon has loaded one that was there.              *)
LEMMA NodeKeeps ==
  ASSUME UpInv, Mount \/ Name \/ RenewKey \/ RenewCert
  PROVE  UpInv'
<1> USE StartupAssumption
<1>1. /\ TypeOK /\ KeyDescribesRoutes /\ StartupTypeOK /\ RenewalsAreBounded
      /\ RunsIfWanted /\ LoadedWasThere /\ PairIsOne /\ DetectCounts
      /\ StandaloneIsExcused
  BY DEF UpInv
<1>2. UNCHANGED <<vars, daemon, systemd>>
  BY DEF Mount, Name, RenewKey, RenewCert
<1>3. UNCHANGED <<stage, attempt, cluster, cert, served, late, wanted, stops, failures>>
  BY <1>2 DEF vars, daemon, systemd
<1>4. TypeOK' /\ KeyDescribesRoutes'
  BY <1>1, <1>2, RoutesUnchanged
<1>5. /\ certFile' \in 0..MaxRenewals /\ keyFile' \in certFile'..certFile' + 1
      /\ keyFile' <= MaxRenewals /\ certFile' >= certFile
  BY <1>1 DEF Mount, Name, RenewKey, RenewCert, StartupTypeOK, RenewalsAreBounded
<1>6. pmxcfs' \in {"unmounted", "unnamed", "named"} /\ (pmxcfs = "named" => pmxcfs' = "named")
  BY <1>1 DEF Mount, Name, RenewKey, RenewCert, StartupTypeOK, mounted
<1>7. StartupTypeOK' /\ RenewalsAreBounded' /\ RunsIfWanted'
  BY <1>1, <1>3, <1>5, <1>6 DEF StartupTypeOK, RenewalsAreBounded, RunsIfWanted
<1>8. LoadedWasThere' /\ PairIsOne'
  BY <1>1, <1>3, <1>5 DEF LoadedWasThere, PairIsOne, StartupTypeOK
<1>9. DetectCounts' /\ StandaloneIsExcused'
  BY <1>1, <1>3, <1>6 DEF DetectCounts, StandaloneIsExcused
<1> QED BY <1>4, <1>7, <1>8, <1>9 DEF UpInv

(* What the route manager does, or does not do, to the rest.                 *)
LEMMA RoutingKeeps ==
  ASSUME UpInv, UNCHANGED <<host, daemon, systemd>>, TypeOK', KeyDescribesRoutes',
         failures' >= failures
  PROVE  UpInv'
<1>1. /\ UNCHANGED <<pmxcfs, certFile, keyFile, stage, attempt, cluster, cert, served, late>>
      /\ UNCHANGED <<wanted, stops>>
  BY DEF host, daemon, systemd
<1>2. failures \in Nat /\ failures' \in Nat
  BY RouteAssumption DEF UpInv, TypeOK
<1>3. /\ StartupTypeOK' /\ RenewalsAreBounded' /\ RunsIfWanted'
      /\ LoadedWasThere' /\ PairIsOne'
  BY <1>1 DEF UpInv, StartupTypeOK, RenewalsAreBounded, RunsIfWanted, LoadedWasThere, PairIsOne
<1>4. DetectCounts'
  BY <1>1, <1>2, StartupAssumption DEF UpInv, DetectCounts
<1>5. StandaloneIsExcused'
  BY <1>1, <1>2, StartupAssumption DEF UpInv, StandaloneIsExcused
<1> QED BY <1>3, <1>4, <1>5 DEF UpInv

(* A daemon that ends knows nothing; the files stay.                         *)
LEMMA ExitKeeps ==
  ASSUME UpInv, Exit, UNCHANGED <<members, changes, certFile, keyFile>>,
         failures' \in 0..MaxFailures, wanted' \in BOOLEAN, stops' \in 0..MaxStops,
         pmxcfs' \in {"unmounted", "unnamed", "named"}
  PROVE  UpInv'
<1> USE RouteAssumption, StartupAssumption
<1>1. /\ stage' = "down" /\ attempt' = 0 /\ cluster' = "none" /\ cert' = -1
      /\ served' = NoPair /\ late' = FALSE
      /\ cache' = None /\ fresh' = FALSE /\ due' = TRUE /\ last' = {} /\ routes' = Static
  BY DEF Exit, Goto
<1>2. TypeOK' /\ KeyDescribesRoutes'
  BY <1>1 DEF UpInv, TypeOK, KeyDescribesRoutes
<1>3. attempt' \in 0..MaxAttempts /\ cert' \in -1..MaxRenewals
  BY <1>1
<1>4. StartupTypeOK' /\ RenewalsAreBounded'
  BY <1>1, <1>3 DEF UpInv, StartupTypeOK, RenewalsAreBounded, Stages
<1>5. RunsIfWanted' /\ LoadedWasThere' /\ PairIsOne' /\ DetectCounts' /\ StandaloneIsExcused'
  BY <1>1 DEF RunsIfWanted, LoadedWasThere, PairIsOne, DetectCounts, StandaloneIsExcused
<1> QED BY <1>2, <1>4, <1>5 DEF UpInv

(* A read of the members, or its failure, on the way up.                     *)
LEMMA ReaderKeeps ==
  ASSUME TypeOK, KeyDescribesRoutes, Starts,
         \/ MembersFails
         \/ \E m \in {cache, members} : Members(m)
         \/ UNCHANGED <<cache, fresh, failures>>
  PROVE  /\ TypeOK' /\ KeyDescribesRoutes'
         /\ failures' \in Nat /\ failures \in Nat /\ failures' >= failures
<1> USE RouteAssumption
<1>1. UNCHANGED <<members, due, last, routes, changes>>
  BY DEF Starts
<1>2. failures' \in 0..MaxFailures /\ failures \in 0..MaxFailures /\ failures' >= failures
  BY DEF MembersFails, Members, TypeOK
<1>3. cache' \in [Nodes -> Status] \cup {None} /\ fresh' \in BOOLEAN
  BY ReadType DEF MembersFails, Members, TypeOK
<1> QED BY <1>1, <1>2, <1>3 DEF TypeOK, KeyDescribesRoutes

(* The stages after the name of the cluster is settled.                      *)
LEMMA StageKeeps ==
  ASSUME UpInv, Starts,
         \/ MembersFails
         \/ \E m \in {cache, members} : Members(m)
         \/ UNCHANGED <<cache, fresh, failures>>,
         UNCHANGED <<attempt, cluster>>,
         stage # "down", stage' \in Stages \ {"down", "detect"},
         cert' \in -1..MaxRenewals,
         served' \in {NoPair} \cup [cert : 0..MaxRenewals, key : 0..MaxRenewals],
         LoadedWasThere', PairIsOne'
  PROVE  UpInv'
<1>1. UNCHANGED <<pmxcfs, certFile, keyFile, late, wanted, stops>>
  BY DEF Starts, host, systemd
<1>2. TypeOK' /\ KeyDescribesRoutes' /\ failures' \in Nat /\ failures \in Nat /\ failures' >= failures
  BY ReaderKeeps DEF UpInv
<1>3. StartupTypeOK' /\ RenewalsAreBounded' /\ RunsIfWanted'
  BY <1>1 DEF UpInv, StartupTypeOK, RenewalsAreBounded, RunsIfWanted
<1>4. DetectCounts' /\ StandaloneIsExcused'
  BY <1>1, <1>2, StartupAssumption DEF UpInv, DetectCounts, StandaloneIsExcused
<1> QED BY <1>2, <1>3, <1>4 DEF UpInv

(* detectClusterName: an attempt is only used up when .members could not be  *)
(* read, and a file that is there from the start can only fail to be read.   *)
LEMMA DetectKeeps ==
  ASSUME UpInv, DetectReads \/ DetectFails
  PROVE  UpInv'
<1> USE StartupAssumption
<1>1. /\ stage = "detect" /\ Starts /\ UNCHANGED <<cert, served>>
      /\ Members(members) \/ MembersFails
  BY DEF DetectReads, DetectFails
<1>2. UNCHANGED <<pmxcfs, certFile, keyFile, late, wanted, stops>>
  BY <1>1 DEF Starts, host, systemd
<1>3. TypeOK' /\ KeyDescribesRoutes' /\ failures' \in Nat /\ failures \in Nat /\ failures' >= failures
  BY <1>1, ReaderKeeps DEF UpInv
<1>4. /\ cluster = "none" /\ attempt \in 1..MaxAttempts
      /\ ~late => pmxcfs = "named" /\ attempt <= failures + 1
  BY <1>1 DEF UpInv, DetectCounts
<1>5. ~late /\ MembersFails => failures' = failures + 1
  BY <1>4 DEF MembersFails, mounted
<1>6. CASE \/ DetectReads
           \/ MembersFails /\ attempt = MaxAttempts /\ cluster' = "standalone"
                /\ stage' = "node" /\ attempt' = 0
  <2>1. /\ stage' = "node" /\ attempt' = 0 /\ cluster' \in {"named", "standalone"}
        /\ cluster' = "standalone" => late \/ failures' >= MaxAttempts
    BY <1>3, <1>4, <1>5, <1>6 DEF DetectReads, Goto
  <2>2. StartupTypeOK' /\ RenewalsAreBounded' /\ RunsIfWanted'
    BY <1>1, <1>2, <2>1 DEF UpInv, StartupTypeOK, RenewalsAreBounded, RunsIfWanted, Stages
  <2>3. LoadedWasThere' /\ PairIsOne' /\ DetectCounts' /\ StandaloneIsExcused'
    BY <1>2, <2>1 DEF LoadedWasThere, PairIsOne, DetectCounts, StandaloneIsExcused
  <2> QED BY <1>3, <2>2, <2>3 DEF UpInv
<1>7. CASE MembersFails /\ attempt < MaxAttempts /\ attempt' = attempt + 1
             /\ UNCHANGED <<stage, cluster>>
  <2>1. /\ attempt' \in 1..MaxAttempts
        /\ ~late => attempt' <= failures' + 1
    <3>1. attempt' \in 1..MaxAttempts
      BY <1>4, <1>7
    <3>2. ASSUME ~late PROVE attempt' <= failures' + 1
      <4>1. failures' = failures + 1 /\ attempt <= failures + 1
        BY <1>4, <1>5, <1>7, <3>2
      <4> QED BY <1>3, <1>4, <1>7, <4>1
    <3> QED BY <3>1, <3>2
  <2>2. StartupTypeOK' /\ RenewalsAreBounded' /\ RunsIfWanted'
    BY <1>1, <1>2, <1>7, <2>1 DEF UpInv, StartupTypeOK, RenewalsAreBounded, RunsIfWanted
  <2>3. LoadedWasThere' /\ PairIsOne' /\ DetectCounts' /\ StandaloneIsExcused'
    BY <1>1, <1>2, <1>4, <1>7, <2>1
       DEF LoadedWasThere, PairIsOne, DetectCounts, StandaloneIsExcused
  <2> QED BY <1>3, <2>2, <2>3 DEF UpInv
<1>8. DetectFails => attempt < MaxAttempts \/ attempt = MaxAttempts
  BY <1>4
<1> QED BY <1>6, <1>7, <1>8 DEF DetectFails, Goto

(* The stages of a start, and its ends.                                      *)
LEMMA RunDaemonKeeps ==
  ASSUME UpInv, RunDaemon
  PROVE  UpInv'
<1> USE RouteAssumption, StartupAssumption
<1>1. /\ cert \in -1..MaxRenewals /\ certFile \in 0..MaxRenewals
      /\ keyFile \in certFile..certFile + 1 /\ keyFile <= MaxRenewals
      /\ served \in {NoPair} \cup [cert : 0..MaxRenewals, key : 0..MaxRenewals]
      /\ failures \in 0..MaxFailures /\ wanted \in BOOLEAN /\ stops \in 0..MaxStops
      /\ pmxcfs \in {"unmounted", "unnamed", "named"}
      /\ LoadedWasThere /\ PairIsOne
  BY DEF UpInv, StartupTypeOK, RenewalsAreBounded, TypeOK
<1>2. Starts => UNCHANGED <<certFile, keyFile>>
  BY DEF Starts, host
<1>3. CASE Exec
  <2>1. /\ stage = "down" /\ wanted
        /\ stage' = "detect" /\ attempt' = 1 /\ late' = (pmxcfs # "named")
        /\ UNCHANGED <<pmxcfs, certFile, keyFile, cluster, cert, served, wanted, stops, failures>>
    BY <1>3 DEF Exec, Goto, host, vars, systemd
  <2>2. TypeOK' /\ KeyDescribesRoutes'
    BY <1>3, RoutesUnchanged DEF UpInv, Exec
  <2>3. attempt' \in 0..MaxAttempts /\ late' \in BOOLEAN
    BY <2>1
  <2>4. StartupTypeOK' /\ RenewalsAreBounded' /\ RunsIfWanted'
    BY <2>1, <2>3 DEF UpInv, StartupTypeOK, RenewalsAreBounded, RunsIfWanted, Stages
  <2>5. LoadedWasThere' /\ PairIsOne'
    BY <2>1 DEF LoadedWasThere, PairIsOne
  <2>6. cluster' = "none" /\ attempt' \in 1..MaxAttempts /\ attempt' <= failures' + 1
    BY <1>1, <2>1 DEF UpInv, DetectCounts
  <2>7. ~late' => pmxcfs' = "named"
    BY <2>1
  <2>8. DetectCounts' /\ StandaloneIsExcused'
    BY <2>6, <2>7 DEF DetectCounts, StandaloneIsExcused
  <2> QED BY <2>2, <2>4, <2>5, <2>8 DEF UpInv
<1>4. CASE DetectReads \/ DetectFails
  BY <1>4, DetectKeeps
<1>5. CASE NodeName
  <2>1. /\ stage = "node" /\ stage' = "cert" /\ Starts /\ UNCHANGED <<attempt, cluster, cert, served>>
        /\ MembersFails \/ \E m \in {cache, members} : Members(m)
    BY <1>5 DEF NodeName, Goto
  <2>2. LoadedWasThere' /\ PairIsOne'
    BY <2>1 DEF LoadedWasThere, PairIsOne
  <2> QED BY <1>1, <2>1, <2>2, StageKeeps DEF Stages
<1>6. CASE LoadCert
  <2>1. /\ stage = "cert" /\ stage' = "key" /\ cert' = certFile /\ Starts
        /\ UNCHANGED <<cache, fresh, failures, attempt, cluster, served>>
    BY <1>6 DEF LoadCert, Goto
  <2>2. LoadedWasThere' /\ PairIsOne'
    BY <1>1, <1>2, <2>1 DEF LoadedWasThere, PairIsOne
  <2>3. cert' \in -1..MaxRenewals
    BY <1>1, <2>1
  <2> QED BY <1>1, <2>1, <2>2, <2>3, StageKeeps DEF Stages
<1>7. CASE LoadKey
  <2>1. /\ stage = "key" /\ stage' = "address" /\ keyFile = cert /\ Starts
        /\ served' = [cert |-> cert, key |-> keyFile]
        /\ UNCHANGED <<cache, fresh, failures, attempt, cluster, cert>>
    BY <1>7 DEF LoadKey, Goto
  <2>2. cert \in 0..certFile
    BY <1>1, <2>1 DEF LoadedWasThere
  <2>3. LoadedWasThere' /\ PairIsOne'
    BY <1>2, <2>1, <2>2 DEF LoadedWasThere, PairIsOne
  <2>4. served' \in [cert : 0..MaxRenewals, key : 0..MaxRenewals]
    BY <1>1, <2>1, <2>2
  <2> QED BY <1>1, <2>1, <2>3, <2>4, StageKeeps DEF Stages
<1>8. CASE LoadFails
  <2>1. failures' \in 0..MaxFailures
    BY <1>1, <1>8 DEF LoadFails
  <2> QED BY <1>1, <1>8, <2>1, ExitKeeps DEF LoadFails, host, systemd
<1>9. CASE Address
  <2>1. /\ stage = "address" /\ stage' = "serve" /\ Starts
        /\ UNCHANGED <<attempt, cluster, cert, served>>
        /\ MembersFails \/ \E m \in {cache, members} : Members(m)
    BY <1>9 DEF Address, Goto
  <2>2. LoadedWasThere' /\ PairIsOne'
    BY <1>1, <1>2, <2>1 DEF LoadedWasThere, PairIsOne
  <2> QED BY <1>1, <2>1, <2>2, StageKeeps DEF Stages
<1>10. CASE Serve
  <2>1. /\ stage = "serve" /\ stage' = "up"
        /\ UNCHANGED <<vars, host, attempt, cluster, cert, served, late, systemd>>
    BY <1>10 DEF Serve, Goto
  <2>2. UNCHANGED <<members, cache, fresh, due, last, routes, changes, failures>>
    BY <2>1 DEF vars
  <2>3. Starts /\ UNCHANGED <<cache, fresh, failures, certFile, keyFile>>
    BY <2>1, <2>2 DEF Starts, host
  <2>4. LoadedWasThere' /\ PairIsOne'
    BY <1>1, <2>1, <2>3 DEF LoadedWasThere, PairIsOne
  <2> QED BY <1>1, <2>1, <2>3, <2>4, StageKeeps DEF Stages
<1>11. CASE ServeFails
  <2>1. failures' \in 0..MaxFailures
    BY <1>1, <1>11 DEF ServeFails
  <2> QED BY <1>1, <1>11, <2>1, ExitKeeps DEF ServeFails, host, systemd
<1> QED BY <1>3, <1>4, <1>5, <1>6, <1>7, <1>8, <1>9, <1>10, <1>11 DEF RunDaemon

(* A daemon that is not wanted does not run, so that nothing it relies on is *)
(* taken from it when it is started.                                         *)
LEMMA StartKeeps ==
  ASSUME UpInv, Start
  PROVE  UpInv'
<1> USE RouteAssumption, StartupAssumption
<1>1. /\ stage = "down" /\ UNCHANGED <<vars, certFile, keyFile, daemon, stops>>
      /\ wanted' = TRUE /\ pmxcfs' \in {"unmounted", "unnamed", "named"}
  BY DEF Start, UpInv, StartupTypeOK, RunsIfWanted
<1>2. UNCHANGED <<certFile, keyFile, stage, attempt, cluster, cert, served, late, stops, failures>>
  BY <1>1 DEF vars, daemon
<1>3. TypeOK' /\ KeyDescribesRoutes'
  BY <1>1, RoutesUnchanged DEF UpInv
<1>4. StartupTypeOK' /\ RenewalsAreBounded' /\ RunsIfWanted'
  BY <1>1, <1>2 DEF UpInv, StartupTypeOK, RenewalsAreBounded, RunsIfWanted
<1>5. LoadedWasThere' /\ PairIsOne' /\ DetectCounts' /\ StandaloneIsExcused'
  BY <1>1, <1>2 DEF UpInv, LoadedWasThere, PairIsOne, DetectCounts, StandaloneIsExcused
<1> QED BY <1>3, <1>4, <1>5 DEF UpInv

(* Every step of the startup, of its surroundings and of the routes keeps it. *)
LEMMA UpStep == UpInv /\ [StartupNext]_startupVars => UpInv'
<1> SUFFICES ASSUME UpInv, [StartupNext]_startupVars PROVE UpInv'
  OBVIOUS
<1> USE RouteAssumption, StartupAssumption
<1>1. TypeOK /\ KeyDescribesRoutes /\ failures \in 0..MaxFailures
  BY DEF UpInv, TypeOK
<1>2. CASE Mount \/ Name \/ RenewKey \/ RenewCert
  BY <1>2, NodeKeeps
<1>3. CASE MembersRewritten
  <2>1. PICK n \in Nodes : MembersChange(n)
    BY <1>3 DEF MembersRewritten
  <2>2. failures' = failures
    BY <2>1 DEF MembersChange
  <2> QED BY <1>1, <1>3, <2>1, <2>2, MembersChangeKeeps, RoutingKeeps DEF MembersRewritten
<1>4. CASE Crash \/ Stop
  <2>1. /\ wanted' \in BOOLEAN /\ stops' \in 0..MaxStops
        /\ pmxcfs' \in {"unmounted", "unnamed", "named"}
    BY <1>4 DEF Crash, Stop, UpInv, StartupTypeOK
  <2> QED BY <1>1, <1>4, <2>1, ExitKeeps DEF Crash, Stop
<1>10. CASE Start
  BY <1>10, StartKeeps
<1>5. CASE CacheExpires
  <2>1. TypeOK' /\ KeyDescribesRoutes' /\ failures' = failures
    BY <1>1, <1>5 DEF CacheExpires, TypeOK, KeyDescribesRoutes
  <2> QED BY <1>1, <1>5, <2>1, RoutingKeeps DEF CacheExpires
<1>6. CASE RunDaemon
  BY <1>6, RunDaemonKeeps
<1>7. CASE RouteTick
  <2>1. failures' = failures
    BY <1>7 DEF RouteTick, Tick
  <2> QED BY <1>1, <1>7, <2>1, TickKeeps, RoutingKeeps DEF RouteTick
<1>8. CASE RouteUpdate
  <2>1. failures' >= failures
    BY <1>1, <1>8 DEF RouteUpdate, ApplyRoutes, ReadFails, SameKey, Reload, ReloadFails
  <2> QED BY <1>1, <1>8, <2>1, ApplyRoutesKeeps, RoutingKeeps DEF RouteUpdate
<1>9. CASE UNCHANGED startupVars
  <2>1. UNCHANGED <<vars, host, daemon, systemd>>
    BY <1>9 DEF startupVars
  <2>2. failures' = failures
    BY <2>1 DEF vars
  <2> QED BY <1>1, <2>1, <2>2, RoutesUnchanged, RoutingKeeps
<1> QED BY <1>2, <1>3, <1>4, <1>5, <1>6, <1>7, <1>8, <1>9, <1>10 DEF StartupNext

(* The invariant holds of every behaviour of the node and the daemon.        *)
LEMMA UpInvariant == StartupSpec => []UpInv
  BY UpInit, UpStep, PTL DEF StartupSpec

(* Type correctness of the daemon, from its start to a server that is up.    *)
THEOREM StartupTypes == StartupSpec => [](TypeOK /\ StartupTypeOK)
<1>1. UpInv => TypeOK /\ StartupTypeOK
  BY DEF UpInv
<1> QED BY <1>1, UpInvariant, PTL

(* So the members, the cache, the key and the routes are what applyRoutes    *)
(* takes them for, however often the daemon is started again (TypeOK).       *)
THEOREM RouteTypes == StartupSpec => []TypeOK
<1>1. TypeOK /\ StartupTypeOK => TypeOK
  OBVIOUS
<1> QED BY <1>1, StartupTypes, PTL

(* Across starts, failures and stops of the daemon too, the key describes    *)
(* the routes that the server has (KeyDescribesRoutes).                      *)
THEOREM RoutesMatchKeyAcrossStarts == StartupSpec => []KeyDescribesRoutes
<1>1. UpInv => KeyDescribesRoutes
  BY DEF UpInv
<1> QED BY <1>1, UpInvariant, PTL

(* For any number of renewals, whenever they come between the reads of the   *)
(* two files: a daemon that serves has a pair of one renewal (PairIsOne).    *)
THEOREM ServedPairIsOne == StartupSpec => []PairIsOne
<1>1. UpInv => PairIsOne
  BY DEF UpInv
<1> QED BY <1>1, UpInvariant, PTL

(* A daemon that calls itself standalone began before .members had the name  *)
(* of the cluster, or could not read it as often as it tries.                *)
THEOREM StandaloneHasItsExcuse == StartupSpec => []StandaloneIsExcused
<1>1. UpInv => StandaloneIsExcused
  BY DEF UpInv
<1> QED BY <1>1, UpInvariant, PTL

(* So if reads fail less often than that, only a daemon that is early does.  *)
THEOREM NamedWhenOnTime ==
  ASSUME MaxFailures < MaxAttempts
  PROVE  StartupSpec => []NamedUnlessEarly
<1>1. UpInv => NamedUnlessEarly
  BY RouteAssumption, StartupAssumption
     DEF UpInv, TypeOK, StandaloneIsExcused, NamedUnlessEarly
<1> QED BY <1>1, UpInvariant, PTL
=============================================================================
