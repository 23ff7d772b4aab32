-------------------------- MODULE DoltServicesProofs --------------------------
(***************************************************************************)
(* Proofs about DoltServices, and about the daemon it extends: for any     *)
(* number of projects, starts and faults, and whatever the ports are.      *)
(*                                                                         *)
(* DaemonInv is the daemon's inductive invariant.  A step of the context   *)
(* leaves the daemon alone, except that something may go wrong in it, or   *)
(* it is a step of the daemon: so DaemonInv is shown once, and holds of    *)
(* DoltDaemon's Spec and of DoltServices' SSpec alike.                     *)
(***************************************************************************)
EXTENDS DoltServices, TLAPS

\* The counters are functions of the project.
Counters ==
  /\ tries \in [Projects -> Nat]
  /\ starts \in [Projects -> Nat]
  /\ faults \in [Projects -> Nat]

\* The statements of _init_sql are counted from 0, and no further than there are any.
SqlInSteps ==
  \A p \in Projects :
    /\ pc[p] = "sql" => created[p] /\ sql[p] < InitSql
    /\ ~created[p] => sql[p] = 0

\* No two servers hold one port.
OneHolder ==
  \A s, t \in listening : Port[s.of] = Port[t.of] => s = t

\* As long as nothing got tangled, one process at a time has changed the configuration:
\* it has kept the name that was there, until it has put it back.
NameKept ==
  ~tangled =>
    /\ \A p, q \in Projects : Configured(p) /\ Configured(q) => p = q
    /\ \A p \in Projects :
         /\ Configured(p) /\ pc[p] # "unmail" => kept[p].name = original.name
         /\ pc[p] = "unmail" => config.name = original.name

DaemonInv ==
  /\ TypeOK /\ Counters
  /\ SqlInSteps
  /\ OneHolder
  /\ NoStrayServer
  /\ NameKept /\ NameReverted

\* No other project is configured to use p's port.
OwnPort(p) == \A q \in Projects : Port[q] = Port[p] => q = p

\* UpIsServed, of one project
UpServed(p) == pc[p] = "up" => Holders(Port[p]) # {} /\ sql[p] = InitSql

\* The workbench runs within the life of the daemon.
UiWithin ==
  \A p \in Projects :
    /\ ui[p] \notin {"before", "after"} => pc[p] = "up"
    /\ ui[p] = "after" => pc[p] \in {"up", "unname", "unmail"}

\* A container mounts the connection store of its own project.
Mounted ==
  \A c \in DOMAIN containers :
    \E s \in K!State :
      containers[c] = [state |-> s, ports |-> UiPorts,
                       volumes |-> K!PreparedVolumes(<<K!Mount(Store, StoreOf[c.of], "rw")>>)]

UiTypeOK ==
  /\ DOMAIN containers \subseteq Container
  /\ ui \in [Projects -> UiPhase]
  /\ leaked \subseteq Container

ServicesInv ==
  /\ DaemonInv
  /\ UiTypeOK
  /\ Mounted
  /\ UiWithin
  /\ NoStrayContainer

-----------------------------------------------------------------------------
(* The steps of a process of the daemon. *)

\* The ways a process ends without deinitialize() are one: Abandon.
LEMMA EndsAbandoned ==
  ASSUME NEW p \in Projects, TimesOut(p) \/ CommandFails(p) \/ Kill(p)
  PROVE  /\ pc[p] # "off" /\ Abandon(p)
         /\ UNCHANGED faults \/ Fault(p)
BY DEF TimesOut, CommandFails, Kill, Starting

\* A fault is counted, and not beyond the bound.
LEMMA FaultCounted ==
  ASSUME TypeOK, Counters, NEW p \in Projects, UNCHANGED faults \/ Fault(p)
  PROVE  /\ faults' \in [Projects -> Nat]
         /\ \A q \in Projects : faults'[q] \in 0..MaxFaults[q]
<1>1. CASE UNCHANGED faults
  BY <1>1 DEF TypeOK, Counters
<1>2. CASE Fault(p)
  <2>1. faults \in [Projects -> Nat] /\ MaxFaults \in [Projects -> Nat]
    BY DaemonAssumption DEF Counters
  <2>2. faults' = [faults EXCEPT ![p] = @ + 1] /\ faults[p] < MaxFaults[p]
    BY <1>2 DEF Fault
  <2>3. \A q \in Projects : faults[q] \in 0..MaxFaults[q]
    BY DEF TypeOK
  <2>4. \A q \in Projects : faults'[q] = IF q = p THEN faults[q] + 1 ELSE faults[q]
    BY <2>1, <2>2
  <2> QED
    BY <2>1, <2>2, <2>3, <2>4
<1> QED
  BY <1>1, <1>2

\* A step of the daemon, as a disjunction over what a process does
LEMMA DaemonCases ==
  ASSUME NEW p \in Projects,
         Start(p) \/ Initializing(p) \/ Serving(p) \/ Failing(p) \/ Deinitializing(p)
  PROVE  \/ Start(p) \/ SetName(p) \/ SetEmail(p) \/ InitRepo(p) \/ InitStatement(p)
         \/ Spawn(p) \/ CheckSucceeds(p) \/ ConnectSucceeds(p)
         \/ \E s \in servers : s \in Server /\ (Listens(s) \/ Exits(s))
         \/ TryFails(p)
         \/ Abandon(p) /\ pc[p] # "off" /\ (UNCHANGED faults \/ Fault(p))
         \/ Terminate(p) \/ RevertName(p) \/ RevertEmail(p)
<1>1. CASE Start(p) \/ Initializing(p) \/ Deinitializing(p)
  BY <1>1 DEF Initializing, Deinitializing
<1>2. CASE Failing(p)
  BY <1>2, EndsAbandoned DEF Failing
<1>3. CASE Serving(p)
  <2>1. PICK n \in 1..MaxStarts[p] :
          Listens([of |-> p, start |-> n]) \/ Exits([of |-> p, start |-> n])
    BY <1>3 DEF Serving
  <2>2. [of |-> p, start |-> n] \in Server
    BY DaemonAssumption DEF Server
  <2> QED
    BY <2>1, <2>2 DEF Listens, Exits
<1> QED
  BY <1>1, <1>2, <1>3

\* The types are kept.
LEMMA DaemonTypes ==
  ASSUME DaemonInv, NEW p \in Projects,
         Start(p) \/ Initializing(p) \/ Serving(p) \/ Failing(p) \/ Deinitializing(p)
  PROVE  TypeOK' /\ Counters'
<1> USE DaemonAssumption DEF DaemonInv, TypeOK, Counters, Go, machine, history, Config, Value,
                             Starting, Server, Child
<1>1. CASE Start(p)
  BY <1>1 DEF Start
<1>2. CASE SetName(p)
  BY <1>2 DEF SetName
<1>3. CASE SetEmail(p)
  BY <1>3 DEF SetEmail
<1>4. CASE InitRepo(p)
  BY <1>4 DEF InitRepo
<1>5. CASE InitStatement(p)
  BY <1>5 DEF InitStatement, SqlInSteps
<1>6. CASE Spawn(p)
  BY <1>6 DEF Spawn
<1>7. CASE CheckSucceeds(p)
  BY <1>7 DEF CheckSucceeds
<1>8. CASE ConnectSucceeds(p)
  BY <1>8 DEF ConnectSucceeds
<1>9. CASE \E s \in servers : s \in Server /\ (Listens(s) \/ Exits(s))
  BY <1>9 DEF Listens, Exits, Holders, OneHolder
<1>10. CASE TryFails(p)
  BY <1>10 DEF TryFails, Retries
<1>11. CASE Abandon(p) /\ pc[p] # "off" /\ (UNCHANGED faults \/ Fault(p))
  BY <1>11, FaultCounted DEF Abandon, Nothing
<1>12. CASE Terminate(p)
  BY <1>12 DEF Terminate
<1>13. CASE RevertName(p)
  BY <1>13 DEF RevertName
<1>14. CASE RevertEmail(p)
  BY <1>14 DEF RevertEmail, Nothing
<1> QED
  BY <1>1, <1>2, <1>3, <1>4, <1>5, <1>6, <1>7, <1>8, <1>9, <1>10, <1>11, <1>12, <1>13, <1>14,
     DaemonCases

\* The statements are counted, and a port has one holder at most.
LEMMA DaemonCounts ==
  ASSUME DaemonInv, NEW p \in Projects,
         Start(p) \/ Initializing(p) \/ Serving(p) \/ Failing(p) \/ Deinitializing(p)
  PROVE  SqlInSteps' /\ OneHolder'
<1> USE DaemonAssumption DEF DaemonInv, TypeOK, SqlInSteps, Go, machine, history, Starting
<1>1. CASE InitRepo(p)
  BY <1>1 DEF InitRepo, OneHolder
<1>2. CASE InitStatement(p)
  BY <1>2 DEF InitStatement, OneHolder
<1>3. CASE \E s \in servers : s \in Server /\ (Listens(s) \/ Exits(s))
  BY <1>3 DEF Listens, Exits, Holders, OneHolder
<1>4. CASE Abandon(p) /\ pc[p] # "off" /\ (UNCHANGED faults \/ Fault(p))
  BY <1>4 DEF Abandon, OneHolder
<1>5. CASE Terminate(p)
  BY <1>5 DEF Terminate, OneHolder
<1>6. CASE Start(p) \/ SetName(p) \/ SetEmail(p) \/ Spawn(p)
  BY <1>6 DEF Start, SetName, SetEmail, Spawn, OneHolder
<1>7. CASE CheckSucceeds(p) \/ ConnectSucceeds(p) \/ TryFails(p)
  BY <1>7 DEF CheckSucceeds, ConnectSucceeds, TryFails, OneHolder
<1>8. CASE RevertName(p) \/ RevertEmail(p)
  BY <1>8 DEF RevertName, RevertEmail, OneHolder
<1> QED
  BY <1>1, <1>2, <1>3, <1>4, <1>5, <1>6, <1>7, <1>8, DaemonCases

\* No step leaves a server behind: a process that ends either has terminated its server,
\* or abandons it, and one that starts has a number of its own.
LEMMA DaemonLeavesNothing ==
  ASSUME DaemonInv, NEW p \in Projects,
         Start(p) \/ Initializing(p) \/ Serving(p) \/ Failing(p) \/ Deinitializing(p)
  PROVE  NoStrayServer'
<1> USE DEF Go, machine, history
<1>t. /\ pc \in [Projects -> Starting \union {"off", "up", "unname", "unmail"}]
      /\ starts \in [Projects -> Nat]
      /\ \A s \in servers : s.of \in Projects
  BY DEF DaemonInv, TypeOK, Counters, Server
<1>i. NoStrayServer
  BY DEF DaemonInv
<1>u. ASSUME servers' \subseteq servers, UNCHANGED <<starts, abandoned>>,
             \A s \in servers' : Served(s.of) /\ s = Child(s.of) => Served(s.of)'
      PROVE  NoStrayServer'
  BY <1>i, <1>u DEF NoStrayServer, Child
<1>1. CASE Start(p)
  BY <1>1, <1>t, <1>i DEF Start, NoStrayServer, Served, Child
<1>2. CASE SetName(p) \/ SetEmail(p) \/ InitRepo(p) \/ InitStatement(p)
  <2>1. /\ UNCHANGED <<servers, starts, abandoned>>
        /\ \A q \in Projects : q # p => pc'[q] = pc[q]
        /\ pc[p] \in {"name", "email", "repo", "sql"}
    BY <1>2, <1>t DEF SetName, SetEmail, InitRepo, InitStatement
  <2>2. \A q \in Projects : Served(q) => Served(q)'
    BY <2>1 DEF Served
  <2> QED
    BY <1>t, <1>u, <2>1, <2>2
<1>3. CASE Spawn(p)
  BY <1>3, <1>t, <1>i DEF Spawn, NoStrayServer, Served, Child
<1>4. CASE CheckSucceeds(p) \/ ConnectSucceeds(p) \/ TryFails(p)
  <2>1. /\ UNCHANGED <<servers, starts, abandoned>>
        /\ \A q \in Projects : q # p => pc'[q] = pc[q]
        /\ pc'[p] \in {"check", "connect", "up"}
    BY <1>4, <1>t DEF CheckSucceeds, ConnectSucceeds, TryFails
  <2>2. \A q \in Projects : Served(q) => Served(q)'
    BY <2>1 DEF Served
  <2> QED
    BY <1>t, <1>u, <2>1, <2>2
<1>5. CASE \E s \in servers : s \in Server /\ (Listens(s) \/ Exits(s))
  <2>1. servers' \subseteq servers /\ UNCHANGED <<starts, abandoned, pc>>
    BY <1>5 DEF Listens, Exits
  <2> QED
    BY <1>u, <2>1 DEF Served
<1>6. CASE Abandon(p) /\ pc[p] # "off" /\ (UNCHANGED faults \/ Fault(p))
  <2>1. /\ UNCHANGED <<servers, starts>>
        /\ \A q \in Projects : q # p => pc'[q] = pc[q]
        /\ abandoned' = abandoned \union ({Child(p)} \intersect servers)
    BY <1>6, <1>t DEF Abandon
  <2>2. ASSUME NEW s \in servers'
        PROVE  (Served(s.of)' /\ s = Child(s.of)') \/ s \in abandoned'
    <3>1. s \in servers /\ s.of \in Projects
      BY <1>t, <2>1
    <3>2. CASE s.of = p
      BY <1>i, <2>1, <3>1, <3>2 DEF NoStrayServer
    <3>3. CASE s.of # p
      BY <1>i, <2>1, <3>1, <3>3 DEF NoStrayServer, Served, Child
    <3> QED
      BY <3>2, <3>3
  <2> QED
    BY <2>2 DEF NoStrayServer
<1>7. CASE Terminate(p)
  <2>1. /\ servers' = servers \ {Child(p)} /\ UNCHANGED <<starts, abandoned>>
        /\ \A q \in Projects : q # p => pc'[q] = pc[q]
    BY <1>7, <1>t DEF Terminate
  <2>2. \A s \in servers' : Served(s.of) /\ s = Child(s.of) => Served(s.of)'
    BY <1>t, <2>1 DEF Served
  <2> QED
    BY <1>u, <2>1, <2>2
<1>8. CASE RevertName(p) \/ RevertEmail(p)
  <2>1. /\ UNCHANGED <<servers, starts, abandoned>>
        /\ \A q \in Projects : q # p => pc'[q] = pc[q]
        /\ pc[p] \in {"unname", "unmail"}
    BY <1>8, <1>t DEF RevertName, RevertEmail
  <2>2. \A q \in Projects : Served(q) => Served(q)'
    BY <2>1 DEF Served
  <2> QED
    BY <1>t, <1>u, <2>1, <2>2
<1> QED
  BY <1>1, <1>2, <1>3, <1>4, <1>5, <1>6, <1>7, <1>8, DaemonCases

\* The name of the user is kept and put back.
LEMMA DaemonKeepsName ==
  ASSUME DaemonInv, NEW p \in Projects,
         Start(p) \/ Initializing(p) \/ Serving(p) \/ Failing(p) \/ Deinitializing(p)
  PROVE  NameKept' /\ NameReverted'
<1>k. ASSUME UNCHANGED <<config, kept, tangled, original>>,
             \A q \in Projects : /\ Configured(q)' <=> Configured(q)
                                 /\ pc'[q] = "unmail" <=> pc[q] = "unmail"
      PROVE  NameKept' /\ NameReverted'
  BY <1>k DEF DaemonInv, NameKept, NameReverted
<1>n. /\ NameKept /\ NameReverted
      /\ pc \in [Projects -> Starting \union {"off", "up", "unname", "unmail"}]
      /\ kept \in [Projects -> Config] /\ config \in Config /\ original \in Config
  BY DEF DaemonInv, TypeOK
<1>1. CASE SetName(p)
  <2>1. /\ kept' = [kept EXCEPT ![p].name = config.name] /\ pc' = [pc EXCEPT ![p] = "email"]
        /\ tangled' = (tangled \/ \E q \in Projects \ {p} : Configured(q))
        /\ pc[p] = "name" /\ original' = original
    BY <1>1 DEF SetName, Go
  <2>2. ~Configured(p)
    BY <2>1 DEF Configured
  <2>3. ASSUME ~tangled'
        PROVE  /\ ~tangled /\ \A q \in Projects : ~Configured(q)
               /\ config.name = original.name
    BY <1>n, <2>1, <2>2, <2>3 DEF NameReverted
  <2>4. kept'[p].name = config.name
    BY <1>n, <2>1 DEF Config
  <2>5. \A q \in Projects : q # p => pc'[q] = pc[q] /\ kept'[q] = kept[q]
    BY <1>n, <2>1
  <2>6. Configured(p)' /\ \A q \in Projects : q # p => (Configured(q)' <=> Configured(q))
    BY <1>n, <2>1, <2>5 DEF Configured
  <2> QED
    BY <1>n, <2>1, <2>3, <2>4, <2>5, <2>6 DEF NameKept, NameReverted, Configured
<1> USE DEF DaemonInv, TypeOK, Config, Go, machine, history, Starting, NameKept, NameReverted,
            Configured
<1>2. CASE SetEmail(p)
  BY <1>2 DEF SetEmail
<1>3. CASE Abandon(p) /\ pc[p] # "off" /\ (UNCHANGED faults \/ Fault(p))
  BY <1>3 DEF Abandon
<1>4. CASE RevertName(p)
  BY <1>4 DEF RevertName
<1>5. CASE RevertEmail(p)
  BY <1>5 DEF RevertEmail
<1>6. CASE Start(p) \/ InitRepo(p) \/ InitStatement(p) \/ Spawn(p) \/ Terminate(p)
  <2>1. UNCHANGED <<config, kept, tangled, original>>
    BY <1>6 DEF Start, InitRepo, InitStatement, Spawn, Terminate
  <2>2. /\ \A q \in Projects : q # p => pc'[q] = pc[q]
        /\ \/ pc[p] = "off" /\ pc'[p] = "name"
           \/ /\ pc[p] \in {"repo", "sql", "spawn", "up"}
              /\ pc'[p] \in {"sql", "spawn", "check", "unname"}
    BY <1>6, <1>n DEF Start, InitRepo, InitStatement, Spawn, Terminate
  <2> QED
    BY <1>k, <2>1, <2>2
<1>7. CASE CheckSucceeds(p) \/ ConnectSucceeds(p) \/ TryFails(p)
  BY <1>7 DEF CheckSucceeds, ConnectSucceeds, TryFails
<1>8. CASE \E s \in servers : s \in Server /\ (Listens(s) \/ Exits(s))
  BY <1>8 DEF Listens, Exits
<1> QED
  BY <1>1, <1>2, <1>3, <1>4, <1>5, <1>6, <1>7, <1>8, DaemonCases

\* A project whose port is its own stays served as long as it is up: only its own process
\* terminates a server that has the port, and no statement of _init_sql is undone.
LEMMA DaemonServes ==
  ASSUME DaemonInv, NEW p \in Projects,
         Start(p) \/ Initializing(p) \/ Serving(p) \/ Failing(p) \/ Deinitializing(p),
         NEW q \in Projects, OwnPort(q), UpServed(q)
  PROVE  UpServed(q)'
<1> USE DaemonAssumption DEF DaemonInv, TypeOK, Go, machine, history, Starting, UpServed, Holders
<1>1. CASE InitStatement(p)
  BY <1>1 DEF InitStatement
<1>2. CASE ConnectSucceeds(p)
  BY <1>2 DEF ConnectSucceeds, Answers, OwnPort, Server
<1>3. CASE \E s \in servers : s \in Server /\ (Listens(s) \/ Exits(s))
  BY <1>3 DEF Listens, Exits
<1>4. CASE Abandon(p) /\ pc[p] # "off" /\ (UNCHANGED faults \/ Fault(p))
  BY <1>4 DEF Abandon
<1>5. CASE Terminate(p)
  BY <1>5 DEF Terminate, OwnPort, Child
<1>6. CASE Start(p) \/ SetName(p) \/ SetEmail(p) \/ InitRepo(p) \/ Spawn(p)
  BY <1>6 DEF Start, SetName, SetEmail, InitRepo, Spawn
<1>7. CASE CheckSucceeds(p) \/ TryFails(p)
  BY <1>7 DEF CheckSucceeds, TryFails
<1>8. CASE RevertName(p) \/ RevertEmail(p)
  BY <1>8 DEF RevertName, RevertEmail
<1> QED
  BY <1>1, <1>2, <1>3, <1>4, <1>5, <1>6, <1>7, <1>8, DaemonCases

-----------------------------------------------------------------------------
(* The daemon's inductive invariant, by itself and under the services. *)

LEMMA DaemonStarts == Init => DaemonInv
<1> SUFFICES ASSUME Init PROVE DaemonInv
  OBVIOUS
<1> USE DaemonAssumption DEF Init
<1>1. TypeOK /\ Counters
  <2>1. Nothing \in Config
    BY DEF Config, Value, Nothing
  <2>2. created \in [Projects -> BOOLEAN] /\ sql \in [Projects -> 0..InitSql]
    BY <2>1
  <2>3. kept \in [Projects -> Config]
    BY <2>1
  <2>4. \A p \in Projects : tries[p] = 0 /\ starts[p] = 0 /\ faults[p] = 0
    OBVIOUS
  <2>5. 0 \in 0..(SqlRetries + ConnectRetries)
    OBVIOUS
  <2>6. \A p \in Projects : 0 \in 0..MaxStarts[p] /\ 0 \in 0..MaxFaults[p]
    OBVIOUS
  <2>7. Counters
    BY DEF Counters
  <2> QED
    BY <2>2, <2>3, <2>4, <2>5, <2>6, <2>7 DEF TypeOK
<1>2. SqlInSteps /\ OneHolder /\ NoStrayServer
  BY DEF SqlInSteps, OneHolder, NoStrayServer
<1>3. NameKept /\ NameReverted
  BY DEF NameKept, NameReverted, Configured
<1> QED
  BY <1>1, <1>2, <1>3 DEF DaemonInv

LEMMA DaemonStep ==
  ASSUME DaemonInv, NEW p \in Projects,
         Start(p) \/ Initializing(p) \/ Serving(p) \/ Failing(p) \/ Deinitializing(p)
  PROVE  DaemonInv'
<1>1. TypeOK' /\ Counters'
  BY DaemonTypes
<1>2. SqlInSteps' /\ OneHolder'
  BY DaemonCounts
<1>3. NoStrayServer'
  BY DaemonLeavesNothing
<1>4. NameKept' /\ NameReverted'
  BY DaemonKeepsName
<1> QED
  BY <1>1, <1>2, <1>3, <1>4 DEF DaemonInv

\* What does not touch the daemon, at most counts a fault.
LEMMA DaemonRests ==
  ASSUME DaemonInv, NEW p \in Projects,
         UNCHANGED <<machine, pc, kept, tries, starts, history>>,
         UNCHANGED faults \/ Fault(p)
  PROVE  DaemonInv'
<1> USE DEF machine, history
<1>1. TypeOK' /\ Counters'
  <2>1. /\ faults' \in [Projects -> Nat]
        /\ \A q \in Projects : faults'[q] \in 0..MaxFaults[q]
    BY FaultCounted DEF DaemonInv
  <2> QED
    BY <2>1 DEF DaemonInv, TypeOK, Counters
<1>2. SqlInSteps' /\ OneHolder'
  BY DEF DaemonInv, SqlInSteps, OneHolder
<1>3. NoStrayServer'
  BY DEF DaemonInv, NoStrayServer, Served, Child
<1>4. NameKept' /\ NameReverted'
  BY DEF DaemonInv, NameKept, NameReverted, Configured
<1> QED
  BY <1>1, <1>2, <1>3, <1>4 DEF DaemonInv

LEMMA DaemonStutters ==
  ASSUME DaemonInv, UNCHANGED daemonVars
  PROVE  DaemonInv'
<1> USE DEF daemonVars
<1>1. TypeOK' /\ Counters'
  BY DEF DaemonInv, TypeOK, Counters
<1>2. SqlInSteps' /\ OneHolder'
  BY DEF DaemonInv, SqlInSteps, OneHolder
<1>3. NoStrayServer'
  BY DEF DaemonInv, NoStrayServer, Served, Child
<1>4. NameKept' /\ NameReverted'
  BY DEF DaemonInv, NameKept, NameReverted, Configured
<1> QED
  BY <1>1, <1>2, <1>3, <1>4 DEF DaemonInv

\* The daemon's invariant, without the services
THEOREM DaemonInvariant == Spec => []DaemonInv
<1>1. Init => DaemonInv
  BY DaemonStarts
<1>2. DaemonInv /\ [Next]_daemonVars => DaemonInv'
  BY DaemonStep, DaemonStutters DEF Next
<1> QED
  BY <1>1, <1>2, PTL DEF Spec

-----------------------------------------------------------------------------
(* The services. *)

\* What a step of the services is to the daemon
LEMMA ServicesCases ==
  ASSUME NEW p \in Projects,
         \/ SInitializing(p) \/ SServing(p) \/ SFailing(p) \/ SDeinitializing(p)
         \/ UiUp(p) \/ UiDown(p) \/ UiAccidents(p)
  PROVE  \/ Start(p) \/ Initializing(p) \/ Serving(p) \/ Failing(p) \/ Deinitializing(p)
         \/ /\ UNCHANGED <<machine, pc, kept, tries, starts, history>>
            /\ UNCHANGED faults \/ Fault(p)
<1>1. CASE SInitializing(p) \/ SServing(p) \/ SFailing(p) \/ SDeinitializing(p)
  BY <1>1 DEF SInitializing, SServing, SFailing, SDeinitializing
<1>2. CASE UiUp(p)
  BY <1>2 DEF UiUp, WriteStore, CreateContainer, StartContainer, FollowLogs, daemonVars,
              machine, history
<1>3. CASE UiDown(p)
  BY <1>3 DEF UiDown, StopContainer, RemoveContainer, daemonVars, machine, history
<1>4. CASE UiAccidents(p)
  BY <1>4 DEF UiAccidents, StartRefused, UiFails, StopFails, ContainerExits, RunRaises
<1> QED
  BY <1>1, <1>2, <1>3, <1>4

\* The daemon's invariant holds under the services ...
LEMMA ServicesKeepDaemon ==
  ASSUME DaemonInv, [SNext]_serviceVars
  PROVE  DaemonInv'
<1>1. CASE UNCHANGED serviceVars
  BY <1>1, DaemonStutters DEF serviceVars
<1>2. ASSUME NEW p \in Projects,
             \/ SInitializing(p) \/ SServing(p) \/ SFailing(p) \/ SDeinitializing(p)
             \/ UiUp(p) \/ UiDown(p) \/ UiAccidents(p)
      PROVE  DaemonInv'
  BY <1>2, ServicesCases, DaemonStep, DaemonRests
<1> QED
  BY <1>1, <1>2 DEF SNext

\* ... and so does what a project whose port is its own relies on.
LEMMA ServicesKeepServing ==
  ASSUME DaemonInv, [SNext]_serviceVars, NEW q \in Projects, OwnPort(q), UpServed(q)
  PROVE  UpServed(q)'
<1>1. CASE UNCHANGED serviceVars
  BY <1>1 DEF serviceVars, daemonVars, UpServed, Holders
<1>2. ASSUME NEW p \in Projects,
             \/ SInitializing(p) \/ SServing(p) \/ SFailing(p) \/ SDeinitializing(p)
             \/ UiUp(p) \/ UiDown(p) \/ UiAccidents(p)
      PROVE  UpServed(q)'
  <2>1. CASE Start(p) \/ Initializing(p) \/ Serving(p) \/ Failing(p) \/ Deinitializing(p)
    BY <2>1, DaemonServes
  <2>2. CASE UNCHANGED <<machine, pc, kept, tries, starts, history>>
    BY <2>2 DEF machine, UpServed, Holders
  <2> QED
    BY <1>2, <2>1, <2>2, ServicesCases
<1> QED
  BY <1>1, <1>2 DEF SNext

\* The types of the workbench's state
LEMMA UiTypes ==
  ASSUME ServicesInv, [SNext]_serviceVars
  PROVE  UiTypeOK'
<1> USE DEF ServicesInv, UiTypeOK
<1>1. CASE UNCHANGED serviceVars
  BY <1>1 DEF serviceVars
<1>2. ASSUME NEW p \in Projects PROVE Own(p) \in Container
  BY <1>2 DEF DaemonInv, Counters, Own, Child, Container, Server
<1>3. ASSUME NEW p \in Projects, SInitializing(p) \/ SServing(p) PROVE UiTypeOK'
  BY <1>3 DEF SInitializing, SServing
<1>4. ASSUME NEW p \in Projects, SFailing(p) \/ SDeinitializing(p) PROVE UiTypeOK'
  BY <1>2, <1>4 DEF SFailing, SDeinitializing, Ui, UiPhase
<1>5. ASSUME NEW p \in Projects, UiUp(p) PROVE UiTypeOK'
  <2>1. CASE WriteStore(p) \/ FollowLogs(p)
    BY <2>1 DEF WriteStore, FollowLogs, Ui, UiPhase
  <2>2. CASE CreateContainer(p)
    BY <1>2, <2>2 DEF CreateContainer, K!Create, Ui, UiPhase
  <2>3. CASE StartContainer(p)
    BY <2>3 DEF StartContainer, K!StartCreated, Ui, UiPhase
  <2> QED
    BY <1>5, <2>1, <2>2, <2>3 DEF UiUp
<1>6. ASSUME NEW p \in Projects, UiDown(p) PROVE UiTypeOK'
  BY <1>6 DEF UiDown, StopContainer, RemoveContainer, K!StopBackend, K!Remove, Ui, UiPhase
<1>7. ASSUME NEW p \in Projects, UiAccidents(p) PROVE UiTypeOK'
  <2>1. CASE StartRefused(p) \/ UiFails(p) \/ StopFails(p)
    BY <1>2, <2>1 DEF StartRefused, UiFails, StopFails, RunRaises, Ui, UiPhase
  <2>2. CASE ContainerExits(p)
    BY <2>2 DEF ContainerExits, K!Exit
  <2> QED
    BY <1>7, <2>1, <2>2 DEF UiAccidents
<1> QED
  BY <1>1, <1>3, <1>4, <1>5, <1>6, <1>7 DEF SNext

\* A container is created with the mount of its project, and only its state changes.
LEMMA MountedKept ==
  ASSUME ServicesInv, [SNext]_serviceVars
  PROVE  Mounted'
<1> DEFINE V(c) == K!PreparedVolumes(<<K!Mount(Store, StoreOf[c.of], "rw")>>)
           Fits(x, c) == \E s \in K!State : x = [state |-> s, ports |-> UiPorts, volumes |-> V(c)]
<1>1. \A c \in DOMAIN containers : Fits(containers[c], c)
  BY DEF ServicesInv, Mounted
<1>2. ASSUME \A c \in DOMAIN containers' : Fits(containers'[c], c)
      PROVE  Mounted'
  BY <1>2 DEF Mounted
<1>3. ASSUME NEW x, NEW c, Fits(x, c), NEW s \in K!State
      PROVE  Fits([x EXCEPT !.state = s], c)
  BY <1>3
<1>4. {"created", "running", "exited"} \subseteq K!State
  BY DEF K!State
<1>5. ASSUME NEW p \in Projects, CreateContainer(p)
      PROVE  \A c \in DOMAIN containers' : Fits(containers'[c], c)
  <2>1. /\ DOMAIN containers' = DOMAIN containers \union {Own(p)}
        /\ containers'[Own(p)] = [state |-> "created", ports |-> UiPorts, volumes |-> V(Own(p))]
        /\ \A c \in DOMAIN containers : c # Own(p) => containers'[c] = containers[c]
    BY <1>5 DEF CreateContainer, K!Create, Own, Child
  <2>2. Fits(containers'[Own(p)], Own(p))
    BY <1>4, <2>1
  <2> HIDE DEF Fits
  <2> QED
    BY <1>1, <2>1, <2>2
<1> HIDE DEF Fits
<1>6. ASSUME NEW c, NEW s \in {"running", "exited"},
             containers' = [containers EXCEPT ![c].state = s]
      PROVE  \A x \in DOMAIN containers' : Fits(containers'[x], x)
  <2>1. /\ DOMAIN containers' = DOMAIN containers
        /\ \A x \in DOMAIN containers :
             containers'[x] = IF x = c THEN [containers[x] EXCEPT !.state = s] ELSE containers[x]
    BY <1>6
  <2> QED
    BY <1>1, <1>3, <1>4, <1>6, <2>1
<1>7. CASE containers' = containers
  BY <1>1, <1>2, <1>7
<1>8. ASSUME NEW p \in Projects,
             \/ SInitializing(p) \/ SServing(p) \/ SFailing(p) \/ SDeinitializing(p)
      PROVE  Mounted'
  BY <1>7, <1>8 DEF SInitializing, SServing, SFailing, SDeinitializing
<1>9. ASSUME NEW p \in Projects, UiUp(p) PROVE Mounted'
  <2>1. CASE StartContainer(p)
    BY <1>2, <1>6, <2>1 DEF StartContainer, K!StartCreated
  <2> QED
    BY <1>2, <1>5, <1>7, <1>9, <2>1 DEF UiUp, WriteStore, FollowLogs
<1>10. ASSUME NEW p \in Projects, UiDown(p) PROVE Mounted'
  <2>1. CASE StopContainer(p)
    BY <1>2, <1>6, <2>1 DEF StopContainer, K!StopBackend
  <2>2. CASE RemoveContainer(p)
    <3>1. /\ DOMAIN containers' \subseteq DOMAIN containers
          /\ \A x \in DOMAIN containers' : containers'[x] = containers[x]
      BY <2>2 DEF RemoveContainer, K!Remove
    <3> QED
      BY <1>1, <1>2, <3>1
  <2> QED
    BY <1>10, <2>1, <2>2 DEF UiDown
<1>11. ASSUME NEW p \in Projects, UiAccidents(p) PROVE Mounted'
  <2>1. CASE ContainerExits(p)
    BY <1>2, <1>6, <2>1 DEF ContainerExits, K!Exit
  <2> QED
    BY <1>7, <1>11, <2>1 DEF UiAccidents, StartRefused, UiFails, StopFails, RunRaises
<1> QED
  BY <1>7, <1>8, <1>9, <1>10, <1>11 DEF SNext, serviceVars

\* The workbench is up only while the daemon is, and is over before the daemon goes down.
LEMMA UiWithinKept ==
  ASSUME ServicesInv, [SNext]_serviceVars
  PROVE  UiWithin'
<1> USE DEF UiWithin, Ui
<1>t. /\ UiWithin /\ ui \in [Projects -> UiPhase]
      /\ pc \in [Projects -> Starting \union {"off", "up", "unname", "unmail"}]
  BY DEF ServicesInv, UiTypeOK, DaemonInv, TypeOK
<1>1. CASE UNCHANGED serviceVars
  BY <1>t, <1>1 DEF serviceVars, daemonVars
<1>2. ASSUME NEW p \in Projects, SInitializing(p) \/ SServing(p) PROVE UiWithin'
  <2>1. CASE Serving(p)
    BY <1>t, <1>2, <2>1 DEF SInitializing, SServing, Serving, Listens, Exits
  <2>2. CASE Start(p) \/ Initializing(p)
    <3>1. /\ \A q \in Projects : q # p => pc'[q] = pc[q]
          /\ pc[p] \notin {"up", "unname", "unmail"}
      BY <1>t, <2>2 DEF Start, Initializing, SetName, SetEmail, InitRepo, InitStatement, Spawn,
                        CheckSucceeds, ConnectSucceeds, Go
    <3>2. ui' = ui
      BY <1>2 DEF SInitializing, SServing
    <3>3. ui[p] = "before"
      BY <1>t, <3>1
    <3> QED
      BY <1>t, <3>1, <3>2, <3>3
  <2> QED
    BY <1>2, <2>1, <2>2 DEF SInitializing, SServing
<1>3. ASSUME NEW p \in Projects, SFailing(p) PROVE UiWithin'
  <2>1. CASE pc'[p] = "off"
    <3>1. \A q \in Projects : q # p => pc'[q] = pc[q]
      BY <1>t, <1>3, EndsAbandoned DEF SFailing, Failing, TryFails, Abandon, Go
    <3>2. ui' = [ui EXCEPT ![p] = "before"]
      BY <1>3, <2>1 DEF SFailing
    <3> QED
      BY <1>t, <3>1, <3>2
  <2>2. CASE pc'[p] # "off"
    <3>1. pc' = pc
      BY <1>t, <1>3, <2>2, EndsAbandoned DEF SFailing, Failing, TryFails, Abandon, Go
    <3> QED
      BY <1>t, <1>3, <2>2, <3>1 DEF SFailing
  <2> QED
    BY <2>1, <2>2
<1>4. ASSUME NEW p \in Projects, SDeinitializing(p) PROVE UiWithin'
  <2>1. /\ \A q \in Projects : q # p => pc'[q] = pc[q]
        /\ pc'[p] \in {"unname", "unmail", "off"}
    BY <1>t, <1>4 DEF SDeinitializing, Deinitializing, Terminate, RevertName, RevertEmail, Go
  <2>2. /\ \A q \in Projects : q # p => ui'[q] = ui[q]
        /\ ui[p] = "after" /\ ui'[p] = IF pc'[p] = "off" THEN "before" ELSE "after"
    BY <1>t, <1>4 DEF SDeinitializing
  <2> QED
    BY <1>t, <2>1, <2>2
<1>5. ASSUME NEW p \in Projects, UiUp(p) \/ UiDown(p) \/ UiAccidents(p) PROVE UiWithin'
  <2>1. pc' = pc /\ (ui' = ui \/ (pc[p] = "up" /\ \E x \in UiPhase : ui' = [ui EXCEPT ![p] = x]))
    <3>1. CASE UiUp(p)
      BY <1>t, <3>1 DEF UiUp, WriteStore, CreateContainer, StartContainer, FollowLogs,
                        daemonVars, UiPhase
    <3>2. CASE UiDown(p)
      BY <1>t, <3>2 DEF UiDown, StopContainer, RemoveContainer, daemonVars, UiPhase
    <3>3. CASE UiAccidents(p)
      BY <1>t, <3>3 DEF UiAccidents, StartRefused, UiFails, StopFails, ContainerExits, RunRaises,
                        UiPhase
    <3> QED
      BY <1>5, <3>1, <3>2, <3>3
  <2> QED
    BY <1>t, <2>1
<1> QED
  BY <1>1, <1>2, <1>3, <1>4, <1>5 DEF SNext

\* No step loses the handle of a container that is not accounted for.
LEMMA ContainersAccounted ==
  ASSUME ServicesInv, [SNext]_serviceVars
  PROVE  NoStrayContainer'
<1> USE DEF Ui, Own
<1>t. /\ NoStrayContainer /\ UiWithin /\ ui \in [Projects -> UiPhase]
      /\ \A c \in DOMAIN containers : c.of \in Projects
      /\ \A p \in Projects : Own(p).of = p
      /\ starts \in [Projects -> Nat]
      /\ pc \in [Projects -> Starting \union {"off", "up", "unname", "unmail"}]
  BY DEF ServicesInv, UiTypeOK, DaemonInv, TypeOK, Counters, Container, Server, Child
<1>1. CASE UNCHANGED serviceVars
  BY <1>t, <1>1 DEF serviceVars, daemonVars, NoStrayContainer, Child
<1>2. ASSUME NEW p \in Projects, SInitializing(p) \/ SServing(p) PROVE NoStrayContainer'
  <2>1. CASE Start(p)
    <3>1. ui[p] = "before" /\ \A q \in Projects : q # p => starts'[q] = starts[q]
      BY <1>t, <2>1 DEF Start, UiWithin
    <3>2. UNCHANGED <<containers, ui, leaked>>
      BY <1>2 DEF SInitializing, SServing
    <3> QED
      BY <1>t, <3>1, <3>2 DEF NoStrayContainer, Child
  <2>2. CASE Initializing(p) \/ Serving(p)
    <3>1. UNCHANGED starts
      BY <2>2 DEF Initializing, SetName, SetEmail, InitRepo, InitStatement, Spawn,
                  CheckSucceeds, ConnectSucceeds, Serving, Listens, Exits, machine, history
    <3>2. UNCHANGED <<containers, ui, leaked>>
      BY <1>2 DEF SInitializing, SServing
    <3> QED
      BY <1>t, <3>1, <3>2 DEF NoStrayContainer, Child
  <2> QED
    BY <1>2, <2>1, <2>2 DEF SInitializing, SServing
<1>3. ASSUME NEW p \in Projects, SFailing(p) PROVE NoStrayContainer'
  <2>1. UNCHANGED <<starts, containers>>
    BY <1>3, EndsAbandoned DEF SFailing, Failing, TryFails, Abandon
  <2>2. CASE pc'[p] = "off"
    <3>1. /\ ui' = [ui EXCEPT ![p] = "before"]
          /\ leaked' = leaked \union ({Own(p)} \intersect DOMAIN containers)
      BY <1>3, <2>2 DEF SFailing
    <3> QED
      BY <1>t, <2>1, <3>1 DEF NoStrayContainer, Child
  <2>3. CASE pc'[p] # "off"
    BY <1>t, <1>3, <2>1, <2>3 DEF SFailing, NoStrayContainer, Child
  <2> QED
    BY <2>2, <2>3
<1>4. ASSUME NEW p \in Projects, SDeinitializing(p) PROVE NoStrayContainer'
  <2>1. UNCHANGED <<starts, containers, leaked>>
    BY <1>4 DEF SDeinitializing, Deinitializing, Terminate, RevertName, RevertEmail, machine,
                history
  <2>2. /\ \A q \in Projects : q # p => ui'[q] = ui[q]
        /\ ui[p] = "after"
    BY <1>t, <1>4 DEF SDeinitializing
  <2> QED
    BY <1>t, <2>1, <2>2 DEF NoStrayContainer, Child
<1>5. ASSUME NEW p \in Projects, UiUp(p) PROVE NoStrayContainer'
  <2>1. UNCHANGED <<starts, leaked>> /\ \A q \in Projects : q # p => ui'[q] = ui[q]
    BY <1>t, <1>5 DEF UiUp, WriteStore, CreateContainer, StartContainer, FollowLogs, daemonVars
  <2>2. ui'[p] \in {"create", "start", "follow", "running"}
    BY <1>t, <1>5 DEF UiUp, WriteStore, CreateContainer, StartContainer, FollowLogs
  <2>3. ui[p] # "after"
    BY <1>5 DEF UiUp, WriteStore, CreateContainer, StartContainer, FollowLogs
  <2>4. DOMAIN containers' \subseteq DOMAIN containers \union {Own(p)}
    BY <1>5 DEF UiUp, WriteStore, CreateContainer, StartContainer, FollowLogs, K!Create,
                K!StartCreated
  <2> QED
    BY <1>t, <2>1, <2>2, <2>3, <2>4 DEF NoStrayContainer, Child
<1>6. ASSUME NEW p \in Projects, UiDown(p) PROVE NoStrayContainer'
  <2>1. UNCHANGED <<starts, leaked>> /\ \A q \in Projects : q # p => ui'[q] = ui[q]
    BY <1>t, <1>6 DEF UiDown, StopContainer, RemoveContainer, daemonVars
  <2>2. CASE StopContainer(p)
    BY <1>t, <2>1, <2>2 DEF StopContainer, K!StopBackend, NoStrayContainer, Child
  <2>3. CASE RemoveContainer(p)
    <3>1. DOMAIN containers' = DOMAIN containers \ {Own(p)}
      BY <2>3 DEF RemoveContainer, K!Remove
    <3> QED
      BY <1>t, <2>1, <3>1 DEF NoStrayContainer, Child
  <2> QED
    BY <1>6, <2>2, <2>3 DEF UiDown
<1>7. ASSUME NEW p \in Projects, UiAccidents(p) PROVE NoStrayContainer'
  <2>1. CASE StartRefused(p) \/ UiFails(p) \/ StopFails(p)
    <3>1. /\ UNCHANGED <<starts, containers>>
          /\ ui' = [ui EXCEPT ![p] = "after"]
          /\ leaked \union ({Own(p)} \intersect DOMAIN containers) \subseteq leaked'
      BY <2>1 DEF StartRefused, UiFails, StopFails, RunRaises
    <3> QED
      BY <1>t, <3>1 DEF NoStrayContainer, Child
  <2>2. CASE ContainerExits(p)
    <3>1. DOMAIN containers' = DOMAIN containers /\ UNCHANGED <<starts, ui, leaked>>
      BY <2>2 DEF ContainerExits, K!Exit
    <3> QED
      BY <1>t, <3>1 DEF NoStrayContainer, Child
  <2> QED
    BY <1>7, <2>1, <2>2 DEF UiAccidents
<1> QED
  BY <1>1, <1>2, <1>3, <1>4, <1>5, <1>6, <1>7 DEF SNext

-----------------------------------------------------------------------------
(* The theorems. *)

\* The services' invariant: the daemon's, and that the workbench is up only while the
\* daemon is and every container is somebody's.
THEOREM ServicesInvariant == SSpec => []ServicesInv
<1>1. SInit => ServicesInv
  <2> SUFFICES ASSUME SInit PROVE ServicesInv
    OBVIOUS
  <2>1. DaemonInv
    BY DaemonStarts DEF SInit
  <2>2. containers = [c \in {} |-> [state |-> "created", ports |-> {}, volumes |-> <<>>]]
    BY DEF SInit, K!Init
  <2>3. DOMAIN containers = {}
    BY <2>2
  <2>4. UiTypeOK /\ UiWithin
    BY <2>3 DEF SInit, UiTypeOK, UiWithin, UiPhase
  <2>5. Mounted /\ NoStrayContainer
    BY <2>3 DEF Mounted, NoStrayContainer
  <2> QED
    BY <2>1, <2>4, <2>5 DEF ServicesInv
<1>2. ServicesInv /\ [SNext]_serviceVars => ServicesInv'
  <2> SUFFICES ASSUME ServicesInv, [SNext]_serviceVars PROVE ServicesInv'
    OBVIOUS
  <2>1. DaemonInv'
    BY ServicesKeepDaemon DEF ServicesInv
  <2>2. UiTypeOK' /\ Mounted'
    BY UiTypes, MountedKept
  <2>3. UiWithin' /\ NoStrayContainer'
    BY UiWithinKept, ContainersAccounted
  <2> QED
    BY <2>1, <2>2, <2>3 DEF ServicesInv
<1> QED
  BY <1>1, <1>2, PTL DEF SSpec

\* The state of daemon, workbench and containers has its types.
THEOREM ServicesTyped == SSpec => []STypeOK
<1>1. ServicesInv => STypeOK
  <2> SUFFICES ASSUME ServicesInv PROVE STypeOK
    OBVIOUS
  <2>1. ASSUME NEW c \in DOMAIN containers
        PROVE  containers[c].state \in K!State /\ containers[c].ports = UiPorts
    <3> DEFINE v == K!PreparedVolumes(<<K!Mount(Store, StoreOf[c.of], "rw")>>)
    <3>1. PICK s \in K!State : containers[c] = [state |-> s, ports |-> UiPorts, volumes |-> v]
      BY <2>1 DEF ServicesInv, Mounted
    <3> HIDE DEF v
    <3> QED
      BY <3>1
  <2> QED
    BY <2>1 DEF STypeOK, ServicesInv, DaemonInv, UiTypeOK
<1> QED
  BY <1>1, ServicesInvariant, PTL

\* deinitialize() leaves nothing on the machine, neither a server nor a container, unless
\* something went wrong with it.
THEOREM NothingLeftHolds == SSpec => []NothingLeft
<1>1. ServicesInv => NothingLeft
  BY DEF ServicesInv, DaemonInv, NothingLeft
<1> QED
  BY <1>1, ServicesInvariant, PTL

\* The user's name is back, once no process has it changed, unless two had at once or one
\* ended without reverting it.
THEOREM NameRevertedHolds == SSpec => []NameReverted
<1>1. ServicesInv => NameReverted
  BY DEF ServicesInv, DaemonInv
<1> QED
  BY <1>1, ServicesInvariant, PTL

\* A project that shares its port with none is served as long as it is up, by a server on a
\* database that was set up to the end; and so is its workbench.
THEOREM OwnPortServed ==
  ASSUME NEW p \in Projects, OwnPort(p)
  PROVE  SSpec => [](/\ UpServed(p)
                     /\ ui[p] \notin {"before", "after"} => pc[p] = "up" /\ Answers(p))
<1>1. SInit => UpServed(p)
  BY DEF SInit, Init, UpServed
<1>2. ServicesInv /\ UpServed(p) /\ [SNext]_serviceVars => UpServed(p)'
  BY ServicesKeepServing DEF ServicesInv
<1>3. ServicesInv /\ UpServed(p) =>
        (ui[p] \notin {"before", "after"} => pc[p] = "up" /\ Answers(p))
  <2> SUFFICES ASSUME ServicesInv, UpServed(p), ui[p] \notin {"before", "after"}
               PROVE  pc[p] = "up" /\ Answers(p)
    OBVIOUS
  <2>1. pc[p] = "up"
    BY DEF ServicesInv, UiWithin
  <2>2. PICK s \in Holders(Port[p]) : sql[p] = InitSql
    BY <2>1 DEF UpServed
  <2>3. s.of \in Projects /\ Port[s.of] = Port[p]
    BY <2>2 DEF Holders, ServicesInv, DaemonInv, TypeOK, Server
  <2>4. s.of = p
    BY <2>3 DEF OwnPort
  <2> QED
    BY <2>1, <2>2, <2>4 DEF Answers
<1> QED
  BY <1>1, <1>2, <1>3, ServicesInvariant, PTL DEF SSpec

\* If every project has a port of its own, no program and no workbench ever talks to a
\* server that is not there.
THEOREM ServersAnswerHolds ==
  ASSUME \A p \in Projects : OwnPort(p)
  PROVE  SSpec => []ServersAnswer
<1> DEFINE AllServed == \A p \in Projects : UpServed(p)
<1>1. SInit => AllServed
  BY DEF SInit, Init, UpServed
<1>2. ServicesInv /\ AllServed /\ [SNext]_serviceVars => AllServed'
  <2> SUFFICES ASSUME ServicesInv, AllServed, [SNext]_serviceVars, NEW q \in Projects
               PROVE  UpServed(q)'
    OBVIOUS
  <2> QED
    BY ServicesKeepServing DEF ServicesInv
<1>3. ServicesInv /\ AllServed => ServersAnswer
  <2> SUFFICES ASSUME ServicesInv, AllServed PROVE ServersAnswer
    OBVIOUS
  <2>1. UpIsServed
    BY DEF UpIsServed, UpServed
  <2>2. ASSUME NEW p \in Projects, ui[p] \notin {"before", "after"}
        PROVE  pc[p] = "up" /\ Answers(p)
    <3>1. pc[p] = "up"
      BY <2>2 DEF ServicesInv, UiWithin
    <3>2. sql[p] = InitSql /\ Holders(Port[p]) # {}
      BY <2>1, <3>1 DEF UpIsServed
    <3>3. PICK s \in Holders(Port[p]) : TRUE
      BY <3>2
    <3>4. s.of \in Projects /\ Port[s.of] = Port[p]
      BY <3>3 DEF Holders, ServicesInv, DaemonInv, TypeOK, Server
    <3>5. s.of = p
      BY <3>4 DEF OwnPort
    <3> QED
      BY <3>1, <3>2, <3>3, <3>5 DEF Answers
  <2> QED
    BY <2>1, <2>2 DEF ServersAnswer, UiHasServer
<1> HIDE DEF AllServed
<1> QED
  BY <1>1, <1>2, <1>3, ServicesInvariant, PTL DEF SSpec

=============================================================================
