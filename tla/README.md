# Verification of thinking-injection

TLA+ models of the program, TLC runs over small instances of them, and TLAPS
proofs for all instances.  Paths are relative to the repository.

    tlc -workers 2 -config executor.cfg MCTaskExecutor.tla   # one run
    tlapm TaskExecutorProofs.tla                             # one module's proofs

`PROJECT.json` lists the runs, the theorems, the hazards of the code and, for
every definition, the lines that it models.

## 1. The system

thinking-injection is a dependency injection container
(`thinking_injection`), a task executor on top of it (`thinking_executor`) and
a data layer that keeps what tasks save in a version-controlled database
(`thinking_executor_data`, on Dolt).  A program registers types with a context;
inside of the context's lifecycle it submits tasks to the executor.  It may be
killed at any time.  Started again, it submits the same tasks, and the executor
skips those STEPs that are on record.

| Component | State | Operations | Hard behaviour |
| --- | --- | --- | --- |
| task executor `thinking_executor/executor.py` | stack of frames, `latest_step`, skip flag; persistent table of records | `execute`, `skip_executed_stages`, `initialize`, `deinitialize` | every way out of a task, at any depth; death of the process between two writes; a counter shared by parent and child |
| session manager `thinking_executor/session.py` | persistent runtime sessions, global `LastSession`; open context session | `inject_requirements`, `initialize`, `deinitialize`, `mark_invoked_step` | death between two writes; a start that fails and is tried again |
| consistency callback `thinking_executor_data/common/consistency.py` | none of its own | reactions to STEPs and STAGEs being skipped, invoked, finished; to new runtime sessions | one of several calls fails; the callback of a task raises while the task fails |
| versioning `common/versioning.py`, `dolt/sqlalchemy/versioning.py` | branches, active branch, working sets | `ensure_empty_branch`, `checkout`, `commit`, `rollback` | branches that an earlier process left; deleting the current branch is refused |
| writability `common/writability.py` | RO or RW | `allow_writing`, `disallow_writing`, `require_writing` | must go back to RO on every way out |
| callbacks `thinking_programming/callbacks.py`, `outcome.py` | delegates | composite delivery | results are dropped, one delegate raises |
| context lifecycle `thinking_injection/lifecycle.py`, `context/simple.py` | instances, entered lifecycles | make, inject, initialize, deinitialize, reset | any of these raises, and others must still happen, in reverse order |
| type registry `thinking_injection/registry/simple.py`, `common/dependencies.py` | known types, dependencies, implementations, forced primaries | `register`, `remove`, `clone`, `type_index`, `prerequisites`, `order` | long sequences of calls; each changes the descriptors of other types |
| configurable context `thinking_injection/context/configurable` | two contexts; phases and configurators | `register`, `remove`, `lifecycle` | three kinds of configurators change the same primaries, in an order that types and names decide |
| injection `context/simple.py`, `common/dependencies.py`, `invoker/` | instances of a lifecycle; the index that the loopback is bound to | `invoke`, `instance`, reading annotations | two lifecycles of one context, or of its clones, that overlap; annotations of every shape |
| Dolt daemon `dolt/daemon.py`, `polling.py`, `thinking_services/processes.py` | server process, its port, data directory, the user's global configuration | `initialize`, health check, `deinitialize` | a process that dies leaves its server, which survives it; two projects share configuration and ports; a health check that times out |
| workbench `dolt/ui.py`, `containers/docker_client.py` | a container, its ports | `initialize`, `deinitialize` | a container that was created, but whose handle was never returned |
| Dolt repositories `dolt/sqlalchemy/storage.py` | entities | `save`, `find`, `delete`, creation of schemas | a missing table is created and the call repeated, in the middle of a STEP, with iterators that are used up |
| records and coordinates `executor_model.py`, `data/tiny_schema.py`, `serialization.py` | documents of a JSON file | lookup by text, `parse`, `serialize`, `deserialize` | different keys with one text; keys that are read back as other ones |
| reflection `thinking_reflection/` | sets of discovered types, filled by decorators at import | reading types | none: nothing takes entries away |

How they interact: the context calls `initialize` and `deinitialize` of the
session manager, the executor and the daemon, in the order of their
dependencies.  The executor calls the callbacks synchronously, inside of
`execute()`; the consistency callback calls versioning and writability, the
session manager notes the invoked step.  What a callback raises is raised in
the executor, at that point of `execute()`.  There are no threads; what is
concurrent is the death of the process, the two stores, TinyDB and Dolt,
that are not written atomically, the daemon's server, and other projects on the same machine.

What makes each component correct:

- executor: one record of each STEP however often the program is restarted;
  coordinates that are never handed out twice; a `latest_step` that is never
  ahead of the program; flags restored on every way out.
- data layer: whoever runs after a STEP sees its data; a STEP sees no leftovers
  of failed ones; what is committed stays; nothing is writable outside of STEPs;
  no failure leaves the program unable to ever complete.
- sessions: killed sessions are recognised at the next start; nothing is taken
  for sanitized that is not; history is not overwritten.
- lifecycle: dependencies are up for as long as somebody may use them; calls
  come in pairs; the lifecycle ends.
- injection: who is invoked gets what its annotations say, of the lifecycle it belongs to.
- callbacks: every delegate is told of every end, unless one raises; all events are told forwards, but for the end of a session, which
  is told backwards; no Result before the record.
- records: what is read is what was written; whichever texts collide, no STEP has two records.
- daemon and workbench: no server or container is left unless something went wrong; whoever is up is
  served; the user's configuration comes back; restarts get a project up.
- repositories: what was saved is there, what was deleted is not; no half of a STEP is committed.
- registry and configurators: registries are consistent, whatever was done with
  them in which order; an index answers what `order()` asks; each kind of
  configurator gets what it is there for.

## 2. Modules

| Module | What it is | Code |
| --- | --- | --- |
| `TaskExecutor` | state machine of the executor under an arbitrary program and arbitrary callbacks | `executor.py` |
| `StepLog` | abstract: the program's STEPs are logged in order, once each | what the executor promises |
| `VersionedData` | actions of the versioning and writability managers on one database | `versioning.py` (both), `writability.py`, `storage.py` |
| `ConsistentExecution` | composition: `TaskExecutor` running one given program, with the consistency callback driving `VersionedData` | `consistency.py` |
| `SessionManager` | processes, context sessions and the TinyDB file | `session.py`, `globals_manager.py`, `consistency.py:27` |
| `DependencyOrder` | abstract: components are up or down, after and before what they require | what the context promises |
| `ContextLifecycle` | one lifecycle of an index, anything may raise | `lifecycle.py`, `context/simple.py` |
| `TypeRegistry` | a registry as a value: its operations as operators, and what is consistent | `registry/simple.py`, `dependencies.py` |
| `ConfigurableContext` | state machine of a context whose lifecycles run configurators on a clone | `context/configurable` |
| `TypeIndexes` | indexes of a registry as values: `without()`, unions | `registry/simple.py`, `delegating.py` |
| `InjectionPoints` | which dependencies a signature declares, and which signatures are refused | `dependencies.py` |
| `InstanceIndexes` | state machine of two lifecycles of a context and its clones, and of invocations in them | `context/simple.py`, `invoker/contextful.py` |
| `DoltDaemon` | state machine of the daemons of several projects on one machine | `daemon.py`, `polling.py`, `processes.py` |
| `DockerContainers` | what the docker client does with containers | `docker_client.py` |
| `DoltServices` | the daemons with their workbenches, one lifecycle around both | `ui.py`, `lifecycle.py` |
| `DoltRepository` | STEPs that save, read and delete entities of types that are declared at any time, on the branches of `VersionedData` | `storage.py`, `consistency.py` |
| `TaskCoordinates` | coordinates, the text they have, and what is read from it | `executor_model.py` |
| `CompositeCallbacks` | which delegates hear an event, and in which order | `callbacks.py`, `outcome.py` |
| `RecordedExecution` | `TaskExecutor` with records found by text, and several delegates | `executor.py`, `callbacks/executor.py`, `tiny_schema.py` |
| `Serialization` | `serialize()`, the JSON file, `deserialize()` | `serialization.py` |
| `SessionRecords` | the documents that the tables of `SessionManager` are | `session_model.py`, `globals_manager.py`, `tiny_schema.py` |
| `MCTaskExecutor`, `MCConsistentExecution`, `MCConfigurableContext`, `MCInstanceIndexes`, `MCDoltServices`, `MCRecordedExecution`, `MCSessionRecords` | instances for TLC | |
| `TaskExecutorProofs`, `ConsistentExecutionProofs`, `RecordedExecutionProofs`, `SessionManagerProofs`, `ContextLifecycleProofs`, `TypeRegistryProofs`, `DoltServicesProofs`, `DoltRepositoryProofs` | theorems | |

**TaskExecutor.** `stack` is the `ExecutionFrame`s, `latest` and `skipStages`
are the fields of those names, `records` is the table.  `phase` says where the
innermost `execute()` stands, so that each callback, the body and the insertion
of the record are steps of their own; `Crash` may come between any two.  `Skip`
and `Run` are the two branches of `execute()`; `Finished`, `Handled` and
`HandlerRaises` are the three ways to the `finally` of `run()`, which is
`Leave`.  User code is unrestricted: a body submits any task, catches or does
not catch, opens and leaves scopes.  Exceptions are of four kinds, because
`run()` treats them differently: ordinary ones, `ToBeContinuedException`,
`KeyboardInterrupt`, and `SystemExit`, which it does not catch.  A parent's counter
advances in the `finally`, so `CoordinatesAgree` is about code that reads the
same number at two places and two times.

**ConsistentExecution.** Extends `TaskExecutor`, restricts user code to
submitting the tasks of `Program`, and pairs each of its actions with what
the callback does at this moment: `CSkip` with `checkout`, `CFinished` with
`commit` and `disallow_writing`, `CHandled` with `rollback` and
`disallow_writing`.  `on_step_invoked` makes four calls and is four actions
(`EnsureDeleted`, `EnsureCreated`, `CheckedOut`, `WritingAllowed`, with `todo` as
the program counter).  Any call may raise, before or after it took effect.  A STEP
saves one piece of data, named after the STEP: that is all that the properties
need to tell data apart.  `Steps` is the program once more, as the sequence of its STEPs; `StepsAssumption` says that it is
just that: what `Program` submits (`ProgramSteps`), by position.

**VersionedData.** Dolt is external; the model has what `versioning.py` relies on.  A branch
has a HEAD and a working set per connection; the SQL transaction is never committed,
so what was not `DOLT_COMMIT`ted goes with the connection, and a new connection
starts on main.

**SessionManager.** `table` and `lastSid` are the file, everything else dies with the
process.  Each write of `initialize()` is an action; `Kill` may come between any
two.  `leftover` remembers what killed sessions left in the database.

**ContextLifecycle.** Instances are made, injected, initialized, left and
reset one by one, along any topological order of an arbitrary dependency graph (`Order`; with
a cycle or a missing requirement it raises).
Every such call may raise; the actions that follow are those of the nested context managers
of `composite_lifecycle`.  `Missing` stands for a requirement that is not in the index.

**TypeRegistry.** A registry is a function from known types to descriptors.
`Scanned`, what `register()` finds by recursion, is the least set that has
the asked types and is closed under what their members require; that
characterization, not the recursion, is what proofs need.
`Register` links the new types with the known ones, in both directions, as the nested
loops do.  `Clone` registers the known types anew, as the code does; `IsRegistry` types a registry,
`Consistent` is what its operations must preserve.

**ConfigurableContext.** A context's registry may be changed at any time, also
while a lifecycle runs; a lifecycle clones it, lets the configurators change
the clone, phase by phase, and takes its index.  Within a phase all orders are
allowed: in the code, class names decide.  The configurators themselves are given, and so are
not looked for in a context of their own.

**TypeIndexes, InjectionPoints, InstanceIndexes.** An index is a snapshot of a registry, of `TypeRegistry`;
`Without` and the `Union...` operators are what the code derives of it.  `InjectionPoints` reads signatures: an
annotation is a union of members in their order, alone or inside of `list[...]`; members are types, `None`, and at most one generic (`Other`), such as `list[X]`.
The order matters: `isinstance(None, ...)` asks the members one by one and raises at a generic, which `_nonthrowing_isinstance` answers with
False (`AdmitsNone`).  So `None | list[X]` is an optional dependency, on no type there is, and `Optional[list[X]]` a simple one, on
the whole union; `list[X | None]` is collective.  In `InstanceIndexes`, `Make` constructs an index
and binds the loopback, `Enter` and `Exit` are the ends of the lifecycle, and `Invoke` and `Return` the call of a
user's callable by way of the loopback; types are registered and removed in between.  `overlap` remembers that a second
index was constructed while the first one was in use, which is what the loopback cannot take.

**DoltDaemon, DockerContainers, DoltServices.** `pc` of each project is how far `initialize()`, `deinitialize()` or the
process has got; each command is an action.  `created` and `sql` are the data directory, `config` the user's
global configuration, `servers` and `listening` the operating system.  A server gets its port if nobody listens there, and
exits otherwise.  Every command may fail, every poll time out, and the process be killed between any two; each of these is a fault of `MaxFaults`.  `tangled`
and `abandoned` remember what went wrong: that two processes had the configuration at once, and that a process ended
without `deinitialize()`.  `DoltServices` adds the workbench, which goes up after the daemon and down before it.

**DoltRepository.** A branch holds tables and rows.  `Call` is `create_schema_if_needed` around any method: if the table is
missing, the session is rolled back, all tables of the types known by then are created and committed, and the
method is called again.  `Declare` may come at any time, as imports do.  `save()` takes several entities, of which iterators give those in
`once`; the attempt that found no table has taken those in `taken`, and `collect()` gives the retry only the rest (`Again`).  That a row that is
not there can be deleted, and that `delete().all()` raises and does nothing (`DeleteAll`), is as in the code.  `pending`, `gone`, `dropped` and `lost` are what the
STEP saved, deleted, gave to `save()` in vain, and whether it was rolled back; `schema` is what its branch began with.  It is assumed
that entities are of the repository's type, and that the program keeps none from one STEP to another.

**TaskCoordinates, CompositeCallbacks, RecordedExecution.** A key is a number or a sequence of texts between separators; `Written`
joins them, `Parsed` is what comes back: numerals become numbers, separators split a key in two.  `RecordedExecution`
pairs each action of `TaskExecutor` with what the delegates hear at this moment, up to the one that raises, and
takes the lookup by text, and the record that is read, in place of the executor's own (`Found`, `LatestFound`).  `heard` is per frame; `left` is
the frame that was left last; `ran` has the texts of all STEPs that were ever run.

**Serialization, SessionRecords.** A value is a tuple of a kind and a content; a hint is a tuple, too.  `Stored` is
the one thing that JSON does to a representation that matters here: it makes the keys of dicts strings.  The three are
recursive functions on `Value`, the values that nest up to a `Depth`, so that they can be proved about.  An exception is
the value `Raised` at its place, which no object that is persisted contains.  `SessionRecords`
writes down the classes of the session tables with their hints (`FieldHints`) and checks in every state of `SessionManager` that its documents read
back.  Of `str()` of a number (`Text`) it uses that it is a text, and that numbers of context sessions have different ones.

## 3. Runs

States are distinct states.

| Run | Module | Expect | States | Question |
| --- | --- | --- | --- | --- |
| `executor` | MCTaskExecutor | pass | 1,616,252 | Do the executor's invariants survive arbitrary programs, callbacks, and deaths? |
| `records` | MCRecordedExecution | pass | 1,311,363 | Do texts that collide, and delegates that raise, break the records or the order of callbacks? |
| `data_restarts` | MCConsistentExecution | pass | 27,789 | If exceptions end the session: does every completed STEP's data stay visible, is nothing else writable, and does the program complete? |
| `data_caught` | MCConsistentExecution | pass | 1,001,911 | If the program catches and goes on: are STEPs isolated, is no current branch deleted, and does committed data stay? |
| `data_torn` | MCConsistentExecution | violation | | Has every recorded STEP its data? |
| `repository` | DoltRepository | pass | 873,008 | What does the creation of schemas in the middle of STEPs lose, drop, or commit? |
| `session_kills` | MCSessionRecords | pass | 88,428 | Is what a killed session left recognised and rolled back, is nothing taken for sanitized that is not, and do the documents read back? |
| `context` | ContextLifecycle | pass | 39,488 | Wherever something raises: are dependencies up, do calls come in pairs, does the lifecycle end? |
| `registry` | MCConfigurableContext | pass | 210,724 | In every order of registrations, removals and configurators: are registries consistent, and does each configurator get what it is there for? |
| `injection` | MCInstanceIndexes | pass | 2,657,940 | Whatever is registered, and however lifecycles overlap: who gets which instances? |
| `services` | MCDoltServices | pass | 627,610 | Two projects, deaths and failures anywhere: what is left, who is served, and do restarts help? |
| `services_config` | MCDoltServices | violation | | Does the whole configuration come back? |

The passing runs check:

- `executor`: `TypeOK`, `OneRecordPerStep` (the assertion "Database inconsistency!" of
  `executor.py:271`), `LatestInPast`, `CoordinatesAgree`, `SkipFlagScoped`, `PositionAdvances`.
- `records`: `RecordedOnce`, the same assertion about the texts that it compares; `CoordinatesHold`: `ReadBack`, exactly which
  coordinates survive the table, and `AncestryAgrees`, their relations against the stack; `LatestWasRun`, that `latest_step`
  names a branch that exists; `DelegatesTold`: `EndHeard`, `ResultIsRecorded`, `ToldInOrder`.
- `data_restarts`: `CompletedAndClosed`: `CompletedDataVisible` and `WritableOnlyInStep`; `RecordedOrTorn`;
  `ImplementsStepLog`, which is the refinement of `StepLog` under the STEPs of the table;
  `EventuallyComplete`.
- `data_caught`: `StepIsolated`, `NeverDropsCurrent`, `DurableForever`.
- `repository`: `SavedIsKept`: `SavedIsThere`, what was saved is there and what was deleted is not; `LostOnlyToLateTables`, when a STEP is
  undone; `DroppedOnlyByCreation`, when `save()` drops what it was given; `RowsChangeWithSteps`.
- `session_kills`: `MarksAreTrue`: `OpenIsMarked` and `NoFalseSanitized`; `SanitizedBeforeWork`; `HistoryKept`;
  `DocumentsReadBack`: `SessionsReadBack` and `LastSessionReadBack`.
- `context`: `PrerequisitesUp`, `EveryCallPaired`, `NothingSwallowed`, `ImplementsDependencyOrder`, `Ends`.
- `registry`: `RegistriesConsistent`, `RegistrationConfluent`, `PrerequisitesKnown`,
  `ForcedWins`, `ConfiguredResolves`.
- `injection`: `ServedByOwn`; `InvocationsFit`: `ArgumentsFit`, what each annotation of any shape gets, and `InvalidForCause`, which ones get nothing; `IndexesAgree`: `WithoutAgrees` and `UnionAgrees`.
- `services`: `NothingLeft`: `NoStrayServer` and `NoStrayContainer`; `ServersAnswer`: `UpIsServed` and `UiHasServer`;
  `NameReverted`; `UpAndDown`: `EventuallyUp` and `UiEndsDown`.

Every module states the types of its variables (`TypeOK`, `CTypeOK`, `STypeOK`, `RTypeOK`).  These hold in the runs, too; but for
the executor's, no run lists them, because wrong types would show in the other properties.  All of them
are proved.

Each of these properties has a mutant: a plausible bug in one of the mapped definitions,
defined beside it, under which TLC finds the property violated in the same run.

### What the violations show

- `data_torn` (`RecordedDataDurable`).  The record is inserted before the data is committed.  A process that
  dies in between leaves a STEP that every rerun skips although its data is gone
  (`executor.py:229`, `test/executor_data/dolt/test_reruns.py:155`).  `RecordedOrTorn`
  shows that this is the only way to lose data.
- `services_config` (`ConfigReverted`).  `_reconfigure()` asks for `user.name` where it means `user.email`, so that a daemon that stops
  in good order leaves its own user name as the user's e-mail address (`daemon.py:122`).

### What the models do as the code does, and no run checks

- A STEP's branch starts from whichever branch is active.  If a program catches a STEP's failure, the next one's branch lacks the
  failed one's data, and a rerun that skips it takes that data away again (`versioning.py:103`).  `CompletedDataVisible` is
  checked where exceptions end the session.
- If `rollback()` raises and the program catches that, the mode stays RW (`consistency.py:61`).
- `LastSession` is saved before the first context session is persisted.  A process killed in between makes the next
  start raise (`session.py:37`, `NoLastContextRaises`); but that one has saved its own session, which has no context session either, as `LastSession`,
  so every later start raises, too.  Only one that is tried again in the same process succeeds, as its own previous session (`session.py:38`).
  `MarksAreTrue` holds all the while.
- The composite callback drops results, so the sanitized flag of the previous session is never persisted (`callbacks.py:80`, `Sanitize`).
- `lifecycle()` catches `Exception` only, so Ctrl+C reaches `deinitialize()` as no exception, and
  the session counts as sanitized (`lifecycle.py:48`, `Given`); `NothingSwallowed` is about exceptions only.
- A key with `@` in it is written and cannot be read; `"01"` is read as `1` (`executor_model.py:130`, `:135`); `ReadBack` and `LatestWasRun` say exactly when.
  The record of a skipped STEP is read back, too, so `on_step_skipped` checks out a branch that does not exist (`consistency.py:47`).  Keys have no texts
  in the runs of the data layer.
- If a process dies between `dolt init` and the last of the SQL statements, no later one executes the rest, and the
  health check never succeeds (`daemon.py:106`); `EventuallyUp` excepts this case (`Half`).
- If the call that has to create the schema is a `save()` with an iterator, what the first attempt took from it is not saved, and
  no error says so (`dolt/sqlalchemy/storage.py:100`, `Again`).  `SavedIsKept` says that nothing else is dropped, and that nothing is where the schema is complete.
- `delete().all()` has a `self` of its own, which is not the repository, and raises an `AttributeError` (`dolt/sqlalchemy/storage.py:193`, `DeleteAll`).
- "When deleting by ID[s] this should raise if there is no such document", says `common/storage.py:58`; nothing in `dolt/sqlalchemy/storage.py:176` does
  (`Delete`).
- `exist().by_ids()` with an id twice compares the number of rows with that of the ids, and answers that not all exist (`dolt/sqlalchemy/storage.py:156`).
- `delete()` does not require writability (`dolt/sqlalchemy/storage.py:180`); `RowsChangeWithSteps` says that what it deletes outside of STEPs comes back.
- An argument with neither annotation nor default value is accepted, and the call raises, although an exception is there to refuse it
  (`common/dependencies.py:217`, `:244`); `Refused` and `CallRaises` do as the code does.
- `Optional[list[X]]` and `None | list[X]` are the same type, and different dependencies (`common/dependencies.py:46`, `AdmitsNone`); neither gets a list.
- An index binds the loopback of its context and its clones, and does not restore it (`context/simple.py:123`); `ServedByOwn` excepts
  lifecycles that overlap.

### Bounds, and why they are enough

- `executor`: one key, tasks nested two deep, two subtasks of each body, one scope per body, three
  records, two sessions.  Two siblings and two levels are what `Precedes` distinguishes;
  one key makes every repetition of a path possible, since positions distinguish tasks,
  and not keys; a third record allows a STAGE to be recorded twice beside a STEP;
  two sessions show restarts with skips.  The
  kinds of exception a body raises are cut down to `tbc`, the one that may be swallowed: `error` comes from the
  machinery anyhow, `interrupt` is handled like `error`, and `exit` appears in
  the data runs.  The proofs have none of these bounds but the ones in the guards, for any value.
- data runs: `MaxRecords` is never reached; three faults let a failure follow a recovery
  that failed; four sessions leave a last one without faults, which `EventuallyComplete` needs.  The program has a
  STAGE in a STAGE and a STEP after them, so that skips restore from a STEP, from a STAGE, and from a STAGE in a skipped
  STAGE.  The violations need less, and use the smaller program.
- sessions: three processes are one that is killed, one that starts after it and one after that; two
  contexts in a process show the retry.  `MaxDepth` is 4, how deep a runtime session nests: a deeper one would add values that no
  table has.
- `context`: four components, one of each kind that the code distinguishes: a Resettable Injectable, an Injectable, an
  Initializable, and a plain value.  The two Injectables require any set of components, themselves, and what is missing:
  all such graphs are initial states, chains of three and cycles among them, and all topological orders are taken.  The
  theorems are about any number of components.
- `registry`: two interfaces, one implementation of one, one of both, that also is a subclass of the first, a client with
  simple and optional and one with collective dependencies, a hint; one configurator of each kind for the same base, one
  fallback whose implementation also implements the base of the others.
- `records`: the keys are `1`, `"1"`, `"01"`, `"1/1"` and `"x@y"`: one of each way in which texts collide or are read as
  something else, alone and below one another.  Two delegates tell order from its reverse; two records and two sessions give
  lookups, skips and reruns.
- `repository`: two entity types, each declared at any time; two ids, so that an iterator
  gives the first attempt one and the retry another; two STEPs, so that branches
  start from main and from one another.
- `injection`: an interface with two implementations and a client; two lifecycles overlap in every way; callables have one
  argument of each form, with `None` and a generic before and after one another and inside of `list[...]`, two, or a keyword-only one.
- `services`: a project that starts three times, with two faults, beside one that starts once: a recovery from a
  recovery that failed, and the other project in the way at any moment.  One statement of SQL is enough for a repository
  that was initialized half-way; the second poll is tried twice, so that a server may come up between the tries.

Deadlock is checked in `registry`, `injection` and `repository`.  The other systems really stop: sessions and processes are bounded, a lifecycle
ends.

### Fairness

`CFairness` is weak fairness of `Progress`, what the program does as long as
nothing goes wrong.  It is synchronous code without waits: the next statement
is executed.  It includes `COpen`: somebody starts a program again that has stopped.
Exceptions, deaths and catches are never fair, and there are at most `MaxFaults` of them: that the
faults end is what "eventually" is conditioned on.  The second conjunct says that a
`with` block is left, which Python guarantees; entering scopes for ever is no progress.
`FairSpec` of `ContextLifecycle` is weak fairness of the next-state relation: each call returns or raises.
`SFairness` of `DoltServices` is weak fairness of each process's next step, of the server's next step (it gets its port or
exits), and of the daemon refusing to start a container whose ports are taken.  Nothing that goes wrong by accident is fair, and there
are at most `MaxFaults` of it in a project.  Each process is one of the operating system's, so fairness is for each of them.
The other models have no liveness property.

## 4. Proofs

Every theorem holds for all values of the constants that satisfy the module's
named assumptions, bounds included.  TLC evaluates the assumptions in the runs.

**TaskExecutorProofs**: `TypeCorrect`, `OneRecordPerStepHolds`, `LatestInPastHolds`,
`CoordinatesAgreeHolds`, `PositionAdvancesHolds`, `SkipFlagScopedHolds`.  None is inductive alone.  That a STEP has one record
follows from `StepNotYetRecorded`: a STEP on the stack that has not been marked is not in the table.  For
that to survive records of other tasks, tasks on the stack need distinct coordinates, which is
`CoordinatesAgree` (each frame's order is its parent's next position), and STEPs
must be leaves (`StepIsLeaf`).  `LatestInPast` needs both of its halves: `latest` is taken from a record
when a STAGE is skipped, and a record takes it from the executor.
`OffForgets` says that nothing is left in memory between sessions.  Lemmas on `Precedes` carry the
order of positions: a position precedes its successor, and what is inside of it is
between them.  `SkipFlagScoped` needs `ScopeInv`, which is about the values that all open scopes of all frames
have saved: the outermost one saved FALSE, every other one TRUE.

**ConsistentExecutionProofs**: `ConsistentInvariant`, `ImplementsExecutor`, `StepIsolatedHolds`, `NeverDropsCurrentHolds`,
`RecordedOrTornHolds`, `DurableForeverHolds`, `WritableOnlyInStepHolds`, `ProgramInvariant`,
`CompletedAndClosedHolds`, `StepLogImplemented`.  Each action of the composition is one of the executor's or
leaves it alone, so `IInv` holds, and `Spec` is implemented.  A program is assumed to be complete: it has a body for the session and for each STAGE that it
submits.  `DataInv` adds to this where the branches are: the active one is of a STEP that is the
running one or past (`BranchInPast`, `BranchBeforeStep`), which needs `LatestInPast`, and which is why nobody ever deletes the current branch;
a branch made for a STEP is clean (`NewBranchClean`); its data is saved before it returns
(`SavedBeforeReturn`), so a commit commits it.  `DurableForever` follows from `StepNotYetRecorded`: a branch is
deleted for a STEP that is to be run, and so is not on record.  `WritableOnlyInStepHolds`, one half of `CompletedAndClosed`,
assumes that the program catches nothing (`MayCatch = FALSE`).  The other half, and the refinement of `StepLog`, are about programs
whose exceptions end the session (`ExceptionsEndSession`: nor is there a `ToBeContinuedException`, which a top-level
task swallows); section 3 says what happens otherwise.  There `Past`, the STEPs of the program before the position of the stack, are
those that are done.  `ProgramInv` says that they are all on record, that the last of them is `latest_step` (which is why a STEP's
branch starts where it should), that the branch has their data (`PastDone`), and the same of what each record was made
with (`RecordsDone`, `DataDone`), which is what a skip restores.  A skipped STAGE may be a record of an earlier session, so this must hold of the
table at any time.  Positions count submissions, so two tasks of the program with the same one are the same (`SameTask`), and
what is between a task's position and its end is submitted inside of it (`BeforeEnd`, `InsideOfTask`).  A STEP is
marked when all before it are and none after it, so `LoggedSteps` is a prefix of `Steps` (`LogIsPrefix`), and marking
it is `Finish`.  `StepsOf` is a recursive function; what one more record does to it is
proved with `Least` (`StepsOfSteps`, `StepsOfGrows`).

**RecordedExecutionProofs**: `RecordedInvariant`, `RecordedOnceHolds`, `CoordinatesHoldAlways`, `LatestWasRunHolds`,
`DelegatesToldHolds`.  It is assumed that keys are closed under reading: they are all ints and all strings, so what is read back
from the text of one is one again.  Records found by text may be others than those found by
coordinates, so `IInv` is proved again for the steps that look one up: reading keeps the numbers of the order, and those are all that `IInv`
compares.  `RecordedOnce` needs `TextNotYetRecorded`, the text-level form of `StepNotYetRecorded`: since a text starts with the
order, tasks with distinct coordinates have distinct texts, whatever their keys.
`LatestInv` says what `latest` is in terms of the STEPs that were run, and lasts because reading what was written a second time changes
nothing (`RereadTwice`).  `PathsNest`, that a frame's path is its parent's and one key, gives the relations between coordinates.
`HeardOfFrames` says what each delegate has heard of each frame, given the phase: of a task in the order of
delegates, of the end of a session in its reverse; with `ExcInFlight`, an exception that is being raised is one, it determines what a frame that is left was told of.
`FlattenSeq` of the community modules is a recursive function; that it exists, and what it
returns, is proved from the least number for which it would not (`Least`, `FlattenDefined`).

**SessionManagerProofs**: `TypeCorrect`, `MarksAreTrueHolds`, `SanitizedBeforeWorkHolds`, `HistoryKeptHolds`.  Two of the clauses carry the
weight.  `LeftoverIsPast`: a killed context session is in the table under the number of a process that is gone, out of reach of
every later `_persist()`; `RollbackDue`: as long as no process tries a start again, the session that
`LastSession` names, or what was read of it, makes the next start roll back, or fail.  A start that fails puts its own session, which
has no context session, in the place of the killed one, and it is there that whoever comes next
fails.  `PersistedBelow`, the file is never ahead of memory, gives `HistoryKept`.

Its second half is about `SessionRecords`: `ScalarsReadBack`, `ListsReadBack`, `DictsReadBack`, `ObjectsReadBack` and
`DocumentsReadBackHolds`, for any bounds, and any depth from 4 on, which is what a runtime session needs.  `Values` is shown to be what
it says by the least depth at which it would not be (`Least`, `ValuesStep`); a value of one depth has parts of the
one below (`Parts`).  `serialize()`, the file and `deserialize()` each ask only for what the calls on the parts return
(`SerializedLocal`, `StoredLocal`, `DeserializedLocal`), so there is such a function at every depth, and the CHOOSE of its definition is
one (`SerializedStep`, `StoredStep`, `DeserializedStep`).  What is written is a value and nests no deeper (`SerializedTyped`, `StoredTyped`).  From
there on a document is followed kind by kind: each of the four theorems says that a value comes back if its parts do, the one on dicts
with the keys that `int()` has to make of strings again (`KeysReadBack`), the one on objects
with the class that the `type_id()` in the data chooses, because no two classes share one and no
field has its name.  `Bounded` is the one addition to the invariant: there are no more processes and context
sessions than numbers with a text.  `SessionRecordsAssumption` says of `Text` what section 2 says;
`StringsAssumption` says of each text that `SessionRecords` writes down that it is a string: TLC evaluates it, and the provers do not know it.

**DoltServicesProofs**: `DaemonInvariant`, `ServicesInvariant`, `NothingLeftHolds`, `NameRevertedHolds`, `OwnPortServed`,
`ServersAnswerHolds`.  `OneHolder`, one process has the configuration unless it is `tangled`, and `NameKept`, what that one remembers as the old
name is the original one, are what `NameReverted` needs; `UiWithin`, the workbench is up within the life of the daemon, is what
`UiHasServer` needs.  A project is served although others come and go if no other one has its
port (`OwnPort`); `ServersAnswerHolds` assumes this of every project.  The code does not enforce it: all
projects have the same port unless they configure another (`daemon.py:32`), and TLC finds `UpIsServed` violated with two that share
one: the first takes the server of the second for its own, which stops it.  The run gives each project a port of its own.

**DoltRepositoryProofs**: `RepositoryInvariant`, `SavedIsKeptHolds`, `RowsChangeWithStepsHolds`, assuming that main is not the name of a
STEP's branch.  `AllOrNone`, a branch has the tables of all types that were known at one time, `RowsHaveTables`, no row is without its
table, and `HeadInWork`, a committed table is there, say when a `Call` finds its table missing, and so what a roll-back leaves: nothing of
what was saved, and none of what was deleted.  `DroppedNotCommitted` keeps what a retry has dropped from coming back with a later roll-back.
`DoneHasTable`, a STEP that has saved or deleted something has the table of it, gives `LostOnlyToLateTables`.

**ContextLifecycleProofs**: `TypeCorrect`, `PrerequisitesUpHolds`, `NothingSwallowedHolds`,
`EveryCallPairedHolds`, `DependencyOrderImplemented`.  The inductive invariant says that what has been called of a
component follows from its place in the order, the stage, and the number of entered lifecycles (`Calls`), and likewise
which instances exist (`Instances`).  `PrefixClosed`, a prefix of a topological order is closed under requirements, then
gives `PrerequisitesUp` and the refinement, by one lemma for entering and one for leaving.  `NothingSwallowed` needs that nobody was
told of anything before the body ended (`UntoldYet`), since the body may end well.

**TypeRegistryProofs**: of `ConfigurableContext`, `TypeCorrect`, `RegistriesConsistentHolds`,
`RegistrationConfluentHolds`, `PrerequisitesKnownHolds`, `ForcedWinsHolds`,
`ConfiguredResolvesHolds`.  `ScannedLeast` is all that is used of `Scanned`.  From it, `RegisterConsistent`,
`RemoveConsistent` and `ForceConsistent` say that the operations preserve consistency, and `RegisterInSteps` that registering
a set and then a type is registering both: the two closures are the same, and a consistent
registry is determined by its types, dependencies and forced primaries (`SameRegistry`).  The invariant adds what each
configurator that ran has made of the clone (`ForcedSoFar`, `FallbacksSoFar`, `DefaultsSoFar`), which lasts because
registering keeps what is forced and takes no implementation away, because a default is set only where there
is no primary, and because no type is registered any more in the phase of the defaults.
Of `InstanceIndexes`, `InstancesInvariant`, `ServedByOwnHolds`, `InvocationsFitHolds`, `IndexesAgreeHold`.  `InstancesInv` says that
the registry, and each index, which is one at some time, is consistent and has nothing forced (`Sound`), and that without overlap the
index that is in use is the one whose loopback is bound (`BoundOnce`), which is `ServedByOwn`.
`InvocationsFit` is a statement on one index and one annotation (`ResolvedFits`, of both halves): what a primary is, it implements (`PrimaryImplements`), and if
one class implements a type it is its primary (`ImplementingOne`), so the shapes are followed one by one.  `WithoutIsRemoved` and
`UnionIsIndex` show what `IndexesAgree` says for any sound registry.

Types are theorems, too: `TypeCorrect`, `ConsistentTyped`, `RecordedTyped`, `ServicesTyped`, `RepositoryTyped`, `InstancesTyped`.

Only model-checked:

- Liveness (`EventuallyComplete`, `Ends`, `UpAndDown`): out of the prover's reach, with ENABLED and fairness.
- The two properties that are violated.

## 5. Not modelled

- The warning about unmanaged writes of STAGEs (`consistency.py`, `is_dirty()` never sees what `save()` has flushed).
- SQLAlchemy's identity map, and so entities that a program keeps from one STEP to another, or that are merged by a `save()` whose next argument is
  of a wrong type; what `exist()` and `count()` return; filters, order and pages of queries; the mapping of entities to rows.
- That the rollback at start acts on main, whichever branch the killed session was on: the connection starts there, and loses the rest.
- Graphs and cycle reports of indexes; names in the order of types, for which every topological order is allowed
  instead; `prerequisites()` and `order()` of a union of indexes, which nothing calls.
- Hints of types that cannot be read, or are no classes, in the middle of `register()`; as types of arguments, those that `None` is an instance
  of (`object`), protocols that `isinstance()` refuses, and annotations that are strings.
- Keys that are bools, which are ints to Python.
- `instance()` and `instances()` called by user code on an injected `InstanceIndex`: only invocations are modelled.
- Lifecycles of user types that swallow exceptions; phases and configurators of the program's own.
- The CLI of Dolt beyond what the daemon needs of it; images, builds, logs and log consumers.
- numpy arrays, sets of documents, and queries by anything but equality, of TinyDB; its file is written atomically.
- Reflection, which reads types; what its decorators collect at import (`discovery.py`) is constant by the time a context runs; small helpers; the examples `clustering` and `calculator`, which only use the libraries.

## 6. Plan

Done, in this order: executor and its proofs; data layer; sessions; lifecycle and
its proofs; registry and configurators and their proofs; daemons and workbenches; repositories; injection; records, coordinates and
composite callbacks; serialization.

Every safety property that holds is proved.  What could still be modelled is in section 5.
