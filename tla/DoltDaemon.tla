------------------------------ MODULE DoltDaemon ------------------------------
(***************************************************************************)
(* The component that runs `dolt sql-server` for a program                 *)
(* (thinking_executor_data/dolt/daemon.py), with the polling of its health *)
(* check (thinking_services/polling.py) and the subprocesses behind it     *)
(* (processes.py).                                                         *)
(*                                                                         *)
(* Several projects run on one machine, one process each at a time.  They  *)
(* share the user's global Dolt configuration, which initialize() changes  *)
(* and deinitialize() changes back.  A project's data directory outlives   *)
(* its processes, and so may a server: it runs in a session of its own, and*)
(* nobody calls deinitialize() if initialize() raised or the process was   *)
(* killed.                                                                 *)
(***************************************************************************)
EXTENDS Naturals, FiniteSets

CONSTANTS
  Projects,
  Port,            \* project |-> the port of its server
  Originals,       \* what the user's configuration may be
  InitSql,         \* the number of statements in _init_sql
  SqlRetries,      \* retries of the CLI check
  ConnectRetries,  \* retries of the PyMySQL check
  MaxStarts,       \* bound: project |-> its processes
  MaxFaults        \* bound: project |-> what goes wrong in them

Value == {"unset", "user", "mail", "dolt", "dolt@localhost"}

Config == [name : Value, email : Value]

ASSUME DaemonAssumption ==
  /\ Originals \subseteq Config
  /\ InitSql \in Nat \ {0} /\ SqlRetries \in Nat \ {0} /\ ConnectRetries \in Nat \ {0}
  /\ MaxStarts \in [Projects -> Nat] /\ MaxFaults \in [Projects -> Nat]

VARIABLES
  created,    \* project |-> whether .dolt exists in its data directory
  sql,        \* project |-> how many statements of _init_sql were executed
  config,     \* dolt config --global
  servers,    \* the server processes that are alive
  listening,  \* those of them that hold the port of their project
  pc,         \* project |-> where its process stands in initialize() or deinitialize()
  kept,       \* project |-> _dolt_user and _dolt_email
  tries,      \* project |-> failed tries of the check that polls
  starts,     \* project |-> how many processes it has had
  faults,     \* project |-> what went wrong in them
  \* History:
  original,   \* what the user's configuration was
  tangled,    \* a process ended without changing it back, or two changed it at once
  abandoned   \* servers whose process was killed, or failed to start

daemonVars == <<created, sql, config, servers, listening, pc, kept, tries, starts,
                faults, original, tangled, abandoned>>

Nothing == [name |-> "unset", email |-> "unset"]

Server == [of : Projects, start : Nat]

Child(p) == [of |-> p, start |-> starts[p]]

\* The phases between a first change of the configuration and the last one back.
Configured(p) == pc[p] \in
  {"email", "repo", "sql", "spawn", "check", "connect", "up", "unname", "unmail"}

Served(p) == pc[p] \in {"check", "connect", "up"}

Starting == {"name", "email", "repo", "sql", "spawn", "check", "connect"}

Holders(port) == {s \in listening : Port[s.of] = port}

\* Mutant of Answers: the PyMySQL check is as useless as the CLI's.
AnswersAnything(p) == Holders(Port[p]) # {}

\* Mutant of Answers: only the process's own server will do.
AnswersItself(p) == Child(p) \in Holders(Port[p]) /\ sql[p] = InitSql

\* Whichever server has the port has a database and a user of the names that p uses.
Answers(p) == \E s \in Holders(Port[p]) : sql[s.of] = InitSql

Fault(p) == faults[p] < MaxFaults[p] /\ faults' = [faults EXCEPT ![p] = @ + 1]

Go(p, phase) == pc' = [pc EXCEPT ![p] = phase]

machine == <<created, sql, config, servers, listening>>
history == <<original, tangled, abandoned>>

-----------------------------------------------------------------------------
Init ==
  /\ created = [p \in Projects |-> FALSE]
  /\ sql = [p \in Projects |-> 0]
  /\ config \in Originals
  /\ servers = {}
  /\ listening = {}
  /\ pc = [p \in Projects |-> "off"]
  /\ kept = [p \in Projects |-> Nothing]
  /\ tries = [p \in Projects |-> 0]
  /\ starts = [p \in Projects |-> 0]
  /\ faults = [p \in Projects |-> 0]
  /\ original = config
  /\ tangled = FALSE
  /\ abandoned = {}

\* A process is started; initialize() makes the data directory, if it has to, and asks
\* for the version of the executable.
Start(p) ==
  /\ pc[p] = "off" /\ starts[p] < MaxStarts[p]
  /\ starts' = [starts EXCEPT ![p] = @ + 1]
  /\ Go(p, "name")
  /\ UNCHANGED <<machine, kept, tries, faults, history>>

\* _reconfigure, the name: what was set is kept and replaced.
SetName(p) ==
  /\ pc[p] = "name"
  /\ kept' = [kept EXCEPT ![p].name = config.name]
  /\ config' = [config EXCEPT !.name = "dolt"]
  /\ tangled' = (tangled \/ \E q \in Projects \ {p} : Configured(q))
  /\ Go(p, "email")
  /\ UNCHANGED <<created, sql, servers, listening, tries, starts, faults, original, abandoned>>

\* ... and the e-mail address, for which the code asks for user.name once more.
SetEmail(p) ==
  /\ pc[p] = "email"
  /\ kept' = [kept EXCEPT ![p].email = config.name]
  /\ config' = [config EXCEPT !.email = "dolt@localhost"]
  /\ Go(p, "repo")
  /\ UNCHANGED <<created, sql, servers, listening, tries, starts, faults, history>>

\* _init_repo; the SQL statements are executed only if the repository is new.
InitRepo(p) ==
  /\ pc[p] = "repo"
  /\ Go(p, IF created[p] THEN "spawn" ELSE "sql")
  /\ created' = [created EXCEPT ![p] = TRUE]
  /\ UNCHANGED <<sql, config, servers, listening, kept, tries, starts, faults, history>>

\* One statement of _init_sql
InitStatement(p) ==
  /\ pc[p] = "sql"
  /\ sql' = [sql EXCEPT ![p] = @ + 1]
  /\ Go(p, IF sql[p] + 1 = InitSql THEN "spawn" ELSE "sql")
  /\ UNCHANGED <<created, config, servers, listening, kept, tries, starts, faults, history>>

\* _start
Spawn(p) ==
  /\ pc[p] = "spawn"
  /\ servers' = servers \union {Child(p)}
  /\ tries' = [tries EXCEPT ![p] = 0]
  /\ Go(p, "check")
  /\ UNCHANGED <<created, sql, config, listening, kept, starts, faults, history>>

-----------------------------------------------------------------------------
\* The server, external: it gets its port, or exits if another one has it.
Listens(s) ==
  /\ s \in servers
  /\ Holders(Port[s.of]) = {}
  /\ listening' = listening \union {s}
  /\ UNCHANGED <<created, sql, config, servers, pc, kept, tries, starts, faults, history>>

Exits(s) ==
  /\ s \in servers
  /\ Holders(Port[s.of]) \notin {{}, {s}}
  /\ servers' = servers \ {s}
  /\ UNCHANGED <<created, sql, config, listening, pc, kept, tries, starts, faults, history>>

-----------------------------------------------------------------------------
\* _healthcheck is two polls.  The first asks the CLI, which answers in any directory.
CheckSucceeds(p) ==
  /\ pc[p] = "check"
  /\ tries' = [tries EXCEPT ![p] = 0]
  /\ Go(p, "connect")
  /\ UNCHANGED <<machine, kept, starts, faults, history>>

\* The second connects to the database, as the user of _init_sql.
ConnectSucceeds(p) ==
  /\ pc[p] = "connect"
  /\ Answers(p)
  /\ tries' = [tries EXCEPT ![p] = 0]
  /\ Go(p, "up")
  /\ UNCHANGED <<machine, kept, starts, faults, history>>

Retries(p) == IF pc[p] = "check" THEN SqlRetries ELSE ConnectRetries

\* One try of poll() fails, and it steps back.
TryFails(p) ==
  /\ pc[p] \in {"check", "connect"}
  /\ pc[p] = "connect" => ~Answers(p)
  /\ tries[p] + 1 < Retries(p)
  /\ tries' = [tries EXCEPT ![p] = @ + 1]
  /\ UNCHANGED <<machine, pc, kept, starts, faults, history>>

\* Whoever connects finds a database without the schema, or without the user.
Half(p) == created[p] /\ sql[p] < InitSql /\ pc[p] # "sql"

Hopeless(p) == pc[p] = "connect" /\ Half(p)

\* The process ends without deinitialize() of the daemon.
Abandon(p) ==
  /\ Go(p, "off")
  /\ kept' = [kept EXCEPT ![p] = Nothing]
  /\ tries' = [tries EXCEPT ![p] = 0]
  /\ tangled' = (tangled \/ Configured(p))
  /\ abandoned' = abandoned \union ({Child(p)} \intersect servers)
  /\ UNCHANGED <<machine, starts, original>>

\* The last try fails, poll() raises.
TimesOut(p) ==
  /\ pc[p] \in {"check", "connect"}
  /\ pc[p] = "connect" => ~Answers(p)
  /\ tries[p] + 1 = Retries(p)
  /\ IF Hopeless(p) THEN UNCHANGED faults ELSE Fault(p)
  /\ Abandon(p)

\* A command does not return 0, and the assertion that it does raises.
CommandFails(p) ==
  /\ pc[p] \in (Starting \ {"check", "connect"}) \union {"unname", "unmail"}
  /\ Fault(p)
  /\ Abandon(p)

\* The process is killed; its server is in another session.
Kill(p) ==
  /\ pc[p] # "off"
  /\ Fault(p)
  /\ Abandon(p)

-----------------------------------------------------------------------------
\* Mutant of Terminate: the process is not waited for, and not terminated either.
TerminateNothing(p) ==
  /\ pc[p] = "up"
  /\ Go(p, "unname")
  /\ UNCHANGED <<machine, kept, tries, starts, faults, history>>

\* deinitialize(): _stop terminates the server, if it is still alive, and waits for it.
Terminate(p) ==
  /\ pc[p] = "up"
  /\ servers' = servers \ {Child(p)}
  /\ listening' = listening \ {Child(p)}
  /\ Go(p, "unname")
  /\ UNCHANGED <<created, sql, config, kept, tries, starts, faults, history>>

\* Mutant of RevertName: it is unset whatever it was.
UnsetName(p) ==
  /\ pc[p] = "unname"
  /\ config' = [config EXCEPT !.name = "unset"]
  /\ Go(p, "unmail")
  /\ UNCHANGED <<created, sql, servers, listening, kept, tries, starts, faults, history>>

\* _deconfigure, in two commands
RevertName(p) ==
  /\ pc[p] = "unname"
  /\ config' = [config EXCEPT !.name = kept[p].name]
  /\ Go(p, "unmail")
  /\ UNCHANGED <<created, sql, servers, listening, kept, tries, starts, faults, history>>

RevertEmail(p) ==
  /\ pc[p] = "unmail"
  /\ config' = [config EXCEPT !.email = kept[p].email]
  /\ kept' = [kept EXCEPT ![p] = Nothing]
  /\ Go(p, "off")
  /\ UNCHANGED <<created, sql, servers, listening, tries, starts, faults, history>>

-----------------------------------------------------------------------------
\* initialize() and the server, as long as nothing goes wrong
Initializing(p) ==
  \/ SetName(p) \/ SetEmail(p) \/ InitRepo(p) \/ InitStatement(p)
  \/ Spawn(p) \/ CheckSucceeds(p) \/ ConnectSucceeds(p)

Serving(p) == \E n \in 1..MaxStarts[p] : LET s == [of |-> p, start |-> n] IN Listens(s) \/ Exits(s)

Deinitializing(p) == Terminate(p) \/ RevertName(p) \/ RevertEmail(p)

Failing(p) == TryFails(p) \/ TimesOut(p) \/ CommandFails(p) \/ Kill(p)

Next == \E p \in Projects :
          Start(p) \/ Initializing(p) \/ Serving(p) \/ Failing(p) \/ Deinitializing(p)

Spec == Init /\ [][Next]_daemonVars

-----------------------------------------------------------------------------
(***************************************************************************)
(* Properties                                                              *)
(***************************************************************************)
TypeOK ==
  /\ created \in [Projects -> BOOLEAN]
  /\ sql \in [Projects -> 0..InitSql]
  /\ config \in Config /\ original \in Config
  /\ servers \subseteq Server /\ abandoned \subseteq Server
  /\ listening \subseteq servers
  /\ pc \in [Projects -> Starting \union {"off", "up", "unname", "unmail"}]
  /\ kept \in [Projects -> Config]
  /\ \A p \in Projects : tries[p] \in 0..(SqlRetries + ConnectRetries)
  /\ \A p \in Projects : starts[p] \in 0..MaxStarts[p] /\ faults[p] \in 0..MaxFaults[p]
  /\ tangled \in BOOLEAN

\* deinitialize() leaves no server, however the configuration fares afterwards: a server
\* is one of a process that is up or coming up, or of one that was abandoned.
NoStrayServer ==
  \A s \in servers : (Served(s.of) /\ s = Child(s.of)) \/ s \in abandoned

\* A program that is up has a server that answers, on a database that was set up to the
\* end, whatever an earlier process died of: that is what the second poll is for.
UpIsServed ==
  \A p \in Projects : pc[p] = "up" => Holders(Port[p]) # {} /\ sql[p] = InitSql

\* What _reconfigure promises (daemon.py:117), of the name: once every process has ended
\* in good order, it is what it was.
NameReverted ==
  (~tangled /\ \A p \in Projects : ~Configured(p)) => config.name = original.name

\* ... and of all that it changes.
ConfigReverted ==
  (~tangled /\ \A p \in Projects : ~Configured(p)) => config = original

\* A project that is started again gets its database, in spite of the servers and the
\* configuration that earlier processes left behind.  There is one exception: if one
\* of them ended between `init` and the last statement, no later one executes the rest.
EventuallyUp == \A p \in Projects : <>(pc[p] = "up" \/ Half(p))

=============================================================================
