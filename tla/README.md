# A specification of the bundle tools in TLA+

This directory holds a TLA+ specification of `bm`, `ohos-bm` and
`bundle_test_tool`, the command line tools of the bundle manager. All three are
short-lived clients: a command scans its options, calls a system service over
binder IPC, often waits for an answer that arrives on another thread, prints what
it got and exits. What is hard to get right, and hard to test, is what happens
between the call and the exit: answers on binder threads, deadlines, services that
die, callbacks that arrive twice, late or never, users that are switched, and
option scanners whose result depends on the order of the options.

Paths below are relative to the repository; `frameworks/src` is `src/frameworks/src`.

## The system

| part | where | state | operations | speaks to |
|---|---|---|---|---|
| status receiver | `status_receiver_impl.cpp` in both tools | a flag under a mutex, two promises | `OnFinished`, `GetResultMsg`, `GetResultCode` | called by the installer and by `BundleDeathRecipient`; waited for by the installer operations and by quick fix |
| installer operations | `InstallOperation`, `UninstallOperation`, `UninstallSharedOperation`, `RecoverOperation`, `UninstallPreInstallBundleOperation` of `bundle_command.cpp` (both) and `bundle_test_tool.cpp` | the death recipient registered on the service's object | one call each, and a wait | installer service |
| quick fix callback | `quick_fix_status_callback_host_impl.cpp`, `DeployQuickFixDisable`, `DeployQuickFix`, `SwitchQuickFix`, `DeleteQuickFix` | one promise, no guard | `OnPatchDeployed/Switched/Deleted`, `GetResultCode` | quick fix manager of the bundle manager |
| quick fix command | `quick_fix_command.cpp` | a subscription, `resultInfo_`, a status receiver | `ApplyQuickFix`, `OnReceiveEvent`; `GetApplyedQuickFixInfo` | quick fix manager of the ability manager, common events |
| clean | `RunAsCleanCommand` and its operations, both tools | the scanned options, `CleanCacheCallbackImpl`'s promise | option by option, then one of two operations | bundle manager, ability manager, account service |
| ability check | `CheckOperation`, `bundle_tool_callback_stub.cpp` | mutex, condition variable, `dataReady_` | `CheckOperation`, `OnRemoteRequest` | bundle manager |
| cache and statistics callbacks | three classes and four commands of `bundle_test_tool.cpp` | flag under a mutex, fields, `promise<void>` | the callbacks, `WaitFor...`, the getters | bundle manager |
| command lines of bm | the `RunAs...` functions of `frameworks/src/bundle_command.cpp` | `result`, `resultReceiver_`, the options' variables | one option at a time, then the operation | the operations |
| quickfix argument scanner | `RunAsQuickFixCommand` | a cursor over `argv` | one argument at a time | quick fix command and callback |
| dispatch | `shell_command.cpp` of both tools | the command table; for ohos-bm, the permission record | `OnCommand`, `ExecCommand`, `ReportPermissionUsedRecord` | the command lines, access token and privacy services |
| command lines of ohos-bm | `ohos_bm/src/bundle_command.cpp` | as bm | install, uninstall, dump, disposed rules, recoverable applications, recover, sandbox applications | installer, bundle manager |
| commands of the test tool | the `RunAs...` functions of `bundle_test_tool.cpp` | as bm; the process's identity and native token, an enterprise parameter of the device | one option at a time, the change of identity, one call each | bundle manager, installer, application control, quick fix manager, default applications |
| event callback of the test tool | `eventCB` and `pluginCallback` of `bundle_test_tool.cpp` | a callback registered with the service | register, listen, unregister | bundle manager |
| message tables | `error_code_utils.cpp`, `bundle_command_common.cpp` | none | code to text | - |

The services themselves are other repositories. Their steps appear in the modules
only as the tools can observe them, and are marked external in `PROJECT.json`.

What makes each part correct:

- *receiver*: several parties may answer, on threads of their own, before, during
  or after the waits. No promise may be set twice (the exception would end the
  tool); the code and the message that are reported belong together; a command
  returns.
- *installer operations*: only the service's own success is reported as success;
  a death that matters is noticed; a failure is reported for what happened, and a
  timeout only after all the time that was granted.
- *quick fix*: the callback tolerates one call only, so everything depends on when
  a second one can happen. The event of a patch must not be missed for lack of
  order, nor another's be reported when it is.
- *clean*: a refused line cleans nothing, one kind of files is cleaned, for a user
  who was in the foreground, and "successfully" is true.
- *ability check*: no lost wake-up, no foreign one, no deadlock on the mutex that
  is held over an IPC call.
- *cache callbacks*: fields are not read while they are written, with the lock or
  without it; the code and the value reported are of one call.
- *command lines*: what was refused runs nothing, what runs has its arguments and
  a proxy that is there.
- *commands of the test tool*: the same, and the call is made under the identity
  that was asked for; a success is told only of a call that succeeded.
- *dispatch*: nothing runs without the bundle manager; what is recorded of a
  permission's use is what became of it, and what `config.json` demands is recorded.

## The modules

| module | models |
|---|---|
| `OneShot` | the abstract promise: one answer at most is published, the command leaves once, with that answer or with the timeout |
| `StatusReceiver` | `StatusReceiverImpl` and the wait for it, one action per statement of `OnFinished` |
| `InstallSession` | `StatusReceiver` composed with a command, its death recipient, the guard and a service that may refuse, answer, be silent or die |
| `MCInstallSession` | the instance TLC checks, with the codes `InstallOperation` translates |
| `InstallSessionProofs` | theorems about the receiver and about the sessions that use it |
| `QuickFixSession` | deploy, switch and delete of a quick fix and the unguarded callback |
| `QuickFixSessionProofs` | theorems about it |
| `ApplyQuickFix` | `QuickFixCommand::ApplyQuickFix` and its event monitor |
| `ApplyQuickFixProofs` | theorems about it |
| `CleanCommand` | `clean` of both tools, from the first option to the report |
| `CleanCommandProofs` | theorems about it |
| `CheckAbility` | `CheckOperation` and `BundleToolCallbackStub` |
| `CacheCallback` | the callbacks with a code and a value, and the commands that wait for them |
| `CacheCallbackProofs` | theorems about it |
| `CommandLine` | the dispatch of bm, the option scanners of fifteen of its commands, and what they call; `quickfix`, which reads its arguments by itself, among them |
| `CommandLineProofs` | theorems about it |
| `OhosCommand` | a run of ohos-bm: dispatch, the option scanners of its thirteen commands, the operation, the permission record |
| `OhosCommandProofs` | theorems about it |
| `TestToolSyntax` | what the commands of `bundle_test_tool` differ in: one record for each entry of its command map |
| `TestTool` | a run of `bundle_test_tool`: dispatch, scan, the check of the line, identity and token, the call and what is told of it |
| `TestToolProofs` | theorems about the test tool: its commands, and the ability check |

### State and code

- **StatusReceiver.** `mutex`, `isSetValue`, `codeSignal` and `msgSignal` are the
  members of the class; `pc` and `arg` say where each binder thread is in
  `OnFinished` and what it carries. `SetCode` and `SetMsg` set `broken` when the
  promise already has a value: `std::future_error` would leave a binder thread.
  The command's `BeginWait`, `GetResultMsg` and `GetResultCode` are the two lines
  of `InstallOperation` that wait, or the one line of an uninstall. A wait that
  has its value returns it even at the deadline, as `wait_for` does; a wait
  returns the timeout only at the deadline and without a value. `left` is the
  deadline of the wait in progress and is reset by the second one, because
  `GetResultCode` passes the whole `waittingTime_` again.
- **InstallSession** extends it. `Deliver` happens when the service answers
  (`ServiceAnswers`) or when the binder driver reports its death to a recipient
  that is registered (`DeathNotice`). `AddDeathRecipient` on a dead object fails
  silently (`registered' = alive`). `Leave` is the destructor of
  `DeathRecipientGuard`: bm has it, the other tools do not, and their recipient may
  call the receiver when the operation has long returned. A service that dies
  before it has replied makes the call an IPC error, whatever it has done; an
  install is then over, an uninstall discards the result and waits.
- **QuickFixSession.** `promise` is `quickFixPromise_`. `SetValue` on a promise
  that has its value ends the process (`process = "aborted"`), after which nothing
  happens. The recipient stays registered after `bundle_test_tool`'s operations
  and is taken back by bm's guard.
- **ApplyQuickFix.** `resultInfo` is written by `StoreInfo` and the receiver
  finished by `Finish`, the two lines at the end of `OnReceiveEvent`; events of
  other bundles are delivered to the same monitor. `Subscribe` may fail, which the
  code does not look at: the call is made and the event is missed. The receiver is
  reduced to the first code it was given, which `StatusReceiver` is shown to implement.
- **CleanCommand.** One action per option, in any order and number up to a bound,
  for both tools (`tool`), then the operation. `GetCurrentUserId` asks the account
  service, which may fail. `foreground` changes at any moment (`SwitchUser`).
  `files` records what happened to the bundle's files, independently of what the
  command learns of it.
- **CheckAbility.** `stage` says where the command is, `request` what the service
  made of its call. The command holds `mutex` from `LockCommand` to `Sleep` or
  `Return`, over the call. `Notify` checks the token and sets the flag; a sleeper
  may also wake by itself.
- **CacheCallback.** `kind` selects one of four callbacks with a common body;
  `ReadsUnderLock` tells the two whose getters lock from the two whose do not.
- **CommandLine.** `Syntax` gives, for each command, the letters that take no
  value (`flags`), a string (`texts`) or a value that is checked at once
  (`fatal`), and in what its loop differs: whether each option overwrites
  `result`, whether an unknown option ends the scan. `printed` is
  `resultReceiver_ != ""`, which the code consults before it looks for what is
  missing. `OnCommand` is `ShellCommand::OnCommand` with bm's `Init`.
  `quickfix` does not use getopt_long: it walks over `argv` (phase `walk`), where
  `-q` and `-r` take the two arguments that follow and end the walk, `-a` looks at
  the first of its two and enters the list of files (phase `files`) if that is
  `-f`. From there on everything but `-d`, `-t`, `-o` and the options that end the
  list is a file. The letters in `given` are the variables that are set, and
  `Chosen` is the operation that follows from them; `Unchecked` are the two that are
  called whatever is missing.
- **OhosCommand.** `OnCommand` looks for the bundle manager before every command
  but `--help`; a word that is no command runs the help. `Syntax` is written as in
  `CommandLine`, with what each command needs (`needs`, one letter of each set)
  and how its function ends: `helpEnds` for the disposed rules, whose `-h` returns
  at once, and `forgets` for recover and the sandbox commands, which return the
  result of the scan whatever the operation did. The operation is one step that
  succeeds or fails; `ReportPermissionUsedRecord` follows whatever the function
  returned, for the first permission of the command in `granted`. That is the table
  of `shell_command.cpp`; `requirePermissions` is the other one, of `config.json`, with
  which it is compared. `refused` is history. `ShortWait` is the one option whose
  argument getopt_long was not told of.
- **TestTool** and **TestToolSyntax.** All the commands of the test tool have one
  shape, and differ in what the fields of `Usual` say, each explained at the head of
  `TestToolSyntax`. Most differences are in what a bad value, an unknown option or
  `-h` does: it is noted and the scan goes on, the scan stops, the command returns,
  the scan ends as though the line had ended, or nobody notices. A command's own
  record maps to its `RunAs` function with its parsers. In `TestTool`, `result` and
  `output` are the error code and `resultReceiver_`. `filled` keeps the letters that
  something depends on after the scan (`Matters`). `identity` is the variable of the
  option that names the caller, `uid` the process's identity, which only a process
  that runs as root can change (`SetUid`). `refused` and `asked` are history.
  Between the scan and the call there are the check of the line (`CheckLine`), the
  identity, the token and the parameter (`Assume`), a further proxy (`GetProxy`) and
  what a command refuses only then (`LateRefusal`). `Register` and `Unregister` are
  the two halves of `eventCB` and `pluginCallback`; every other call is one
  `Operation`, told as `Told` says. Only -u, -c, -e and the like are remembered by
  value; other values count or do not.

## The runs

Every run checks every reachable state of a small instance.

| run | bounds | shows |
|---|---|---|
| `receiver` | three binder threads, two codes, two messages, `WaittingTime` 1 | exactly-once publication, whole answers, bounded waits, refinement of `OneShot`, and that everybody returns |
| `install_session` | one service, one recipient, five refusals, `WaittingTime` 1 | success is the service's, deaths are noticed, a failure has its cause, the session is a behaviour of `StatusReceiver`, and it returns |
| `quick_fix` | `WaittingTime` 2 | an abort needs an answer *and* a death while the recipient is registered; bm is safe once it has returned |
| `apply_quick_fix` | one foreign event, `WaittingTime` 2, a subscription that may fail | the own event is missed only after a failed subscription, and is a bare timeout then; without foreign events the result and its info are the own ones |
| `clean` | four options, two users, three seconds as two ticks | a bad line cleans nothing, one kind is cleaned, a success is true, the user was in the foreground |
| `check_ability` | two messages | a wake-up is neither lost nor forged; an answered check returns |
| `cache_callback` | two calls, `MaxWaitingTime` 1 | no racy read, one answer, no second `set_value`, refinement of `OneShot`, the command returns |
| `command_line` | four options, waiting times 4, 5, 179, 180, 600, 601 | refused lines run nothing, operations but the two `Unchecked` ones have their arguments; for `quickfix`, four arguments or groups of them |
| `ohos_command` | eight options, any proxies and permissions | refused lines call nothing, calls have their arguments and proxies, the permission record tells what happened and is made for whoever holds what `config.json` requires, but for the commands named |
| `test_tool` | all commands, three identities, lines of any length | refused lines call nothing and leave the device alone, but for the commands named; calls have their values and proxies and are made as asked; what is printed is what came of it |

Two runs look for a behaviour that contradicts what the repository says of it and
find one:

- `plugin_arguments`: `install-plugin` with a refused option before a good one
  calls the installer although the path or the host bundle is missing. Each option
  overwrites `result`, and what is missing is looked for only if nothing has been
  printed yet.
- `short_wait`: `ohos-bm install -w 200` ends the process: the option string has
  `w` where it needs `w:`, so `optarg`, which the code reads, is null (or, where a
  libc leaves it alone, the argument of an option before). The comment of the case
  says `-w <waitting-time>`; `--waitting-time 200` works.

Why the bounds are enough. The receiver and the callbacks accept one call and ignore
the rest, so two calls show every pairing and a third shows that being ignored
leaves no trace. A tick is any part of a waiting time: one tick is already an answer
before, at and after the deadline, and two let it fall between. An option scanner
forgets everything but its variables, so an option that spoils, one that repairs,
and the ones that an operation needs fit in four, and in eight for
`set-disposed-rule`, which needs seven. `TestTool` has no bound on a line: it keeps
of the options only what later steps look at, and counts them only for the commands
that read at most two or five. Two of the identities an option may name are neither
root nor the services' own, so that a second `-u` can differ from the first. The
waiting times are the two limits, their neighbours, and README_zh.md's minimum of 5
s.

The systems stop when the command has returned, so deadlock is not an error in
these runs; that a command does return is a liveness property of each run of a
module with a wait.

Each property is violated by at least one plausible change of the code, given as a
definition next to the original (`...WithoutGuard`, `...ForEver`, `RegisterLate`):
these definitions are no part of the specifications.

### Fairness

- The command thread runs (`WF` of its action), and so does a binder thread that
  has entered a callback: the tools' own threads are scheduled.
- Time passes while a wait is in progress.
- A call gets a reply: the service decides on a request or dies. The tools bound
  the wait for an answer, not the call, so without this nothing they do returns.
- **Nobody is obliged to answer.** No fairness is assumed of an answer, of a death
  notice, of an event, or of a user switch.
- `CheckAbility` needs strong fairness for the mutex, which other threads take and
  release in between. Elsewhere each thread takes it once, and weak fairness is
  enough.

## The proofs

Eight modules prove theorems for every value of the constants: any set of threads,
messages, users, bundles, codes and values, any waiting time, a command line of any
length. All follow one pattern. A property is seldom inductive as it stands, so a
module states an invariant that is, as a conjunction of named parts, each saying one
thing of the code; shows that it holds at the start and that every action keeps it,
one lemma per action or per thread's actions; and draws the theorems from it. TLC
checks every run's properties on the small instance.

| module | invariant | theorems that state a run's property | assumed of the constants |
|---|---|---|---|
| `InstallSessionProofs`, the receiver | `IInv` | `NeverThrows`, `PairPublished`, `OneAnswer`, `BoundedWait`, `Refinement` | `Unset` is no code or message, `Nobody` no thread, the empty string a message, the waiting time positive |
| `InstallSessionProofs`, the session | `SessionInv`, `CauseInv` | `SessionRefinement`, `SuccessIsReal`, `DeathIsNoticed`, `FailureIsExplained` | a refusal, an IPC error and the timeout are not `ERR_OK`, a refusal is not translated to it, the death code is another than `ERR_OK` |
| `QuickFixSessionProofs` | `SessionInv` | `AbortCause`, `GuardProtects` | `Unset` is no code, the death code is none of the service's, the waiting time positive |
| `ApplyQuickFixProofs` | `ApplyInv` | `LostIsATimeout`, `OwnResult`, `OwnInfo` | the own bundle is not a foreign one, `Ok` is a code and neither an error of the call nor the timeout, `Unset` is none of them, the waiting time positive |
| `CleanCommandProofs` | `CleanInv` | `BadLine`, `OneKind`, `TrueSuccess`, `ForegroundUser` | the unspecified user is no user, errors of the call are not outcomes, the waiting time positive |
| `CacheCallbackProofs` | `CacheInv` | `NeverThrows`, `NeverRaces`, `OneCallback`, `Refinement` | `Nobody` is no thread, `Ok` is a code and no error, the timeout neither, the waiting time positive |
| `CommandLineProofs` | `LineInv` | `RefusedLine`, `ItsArguments` | the bound on options is a natural number, and so are the waiting times |
| `OhosCommandProofs` | `RunInv` | `RefusedLine`, `CompleteCall`, `TrueReport` | the bound on options is a natural number |
| `TestToolProofs`, the commands | `RunInv` | `RefusedLine`, `CompleteCall`, `CallerAsAsked`, `OutcomeTold` | the words for no identity and for the bundle's are no identities |
| `TestToolProofs`, the ability check | `CheckInv` | `WakeUps` | the command is no message, `Nobody` neither |

The constants of the code satisfy all the assumptions, and TLC evaluates them for the
instances it checks.

**Receiver.** That no promise is set twice depends on the flag, on the mutex, and on
how far the thread that raised the flag has come. `IInv` adds to the type:

- `LockInv`: a thread holds the mutex exactly between `Lock` and `Unlock`;
- `ThreadInv`: before `SetCode` both promises are empty, before `SetMsg` the code
  is this thread's and the message is empty;
- `SignalInv`: nothing is published before the flag is up, and after it the pair
  is complete unless a thread is still at it;
- `WaiterInv`: what the command took is what the promises hold, or the timeout
  with no message;
- `TimeInv`: ticks waited and ticks left add up to the time of the waits begun.

Three frame lemmas dispose of the parts an action does not touch. The refinement maps
a published answer to the code that was set and the message that the same thread has
set or is about to (`Published`): the step that publishes is `SetCode`, the step that
leaves is `GetResultCode`, all others are stutters.

**Sessions.** Every step of a session is a step of `StatusReceiver` or leaves it alone
(`SessionRefinement`), so `IInv` holds of every session too. `SessionInv` adds who may
have answered (`AnswerInv`), that a success in a promise is the service's
(`SuccessInv`), and what became of the recipient (`RecipientInv`). For a failure's cause
two more are needed. `FullWaitInv`, of the receiver alone, counts: a wait that has given
up has used the whole of its deadline, so a timeout that is returned stands for all the
time the operation grants, both waits of an install included. `CauseInv` follows a code
in the promise back to the thread that set it, the service's answer or the notice of its
death.

**Quick fix.** The callback has no guard, so what protects it is who can call:
`PromiseInv` says that a value comes of the service's answer or of a death notice,
`NoticeInv` that only a dead service is reported, `RequestInv` that the service is
asked once. An abort is a second value, and each party has only one. `GuardInv` says
that bm's operation takes the recipient back on its way out, hence that a death after
that reaches nobody.

**ApplyQuickFix.** `SubscribeInv`: the monitor is subscribed before the call or never, and
only the call makes the own event happen; so that event finds the monitor unless the
subscription failed. `DeafInv`: a command whose subscription failed has no event, no
info and no answer of anybody's, which leaves it the deadline. `ContentInv` and
`AnswerInv` trace the receiver's code to an event that is dealt with, `ResultInv` the
command's result to the refusal, the deadline or the receiver, and `InfoInv` says that
the info is the own event's from the moment it is stored, if the others are silent. The
receiver's code is set after the info (`Finish` after `StoreInfo`); a command that gave
up at the deadline may print an older info, which `InfoIsOwnWhenQuiet` leaves out.

**Clean.** `LineInv` follows a bad option to the end of the line, `KindInv` the two
flags of which setting one clears the other, `CacheInv` and `DataInv` what a report of
success rests on, `UserInv` where the user came from: the foreground user as the
account service knew it when it was asked, and the foreground may have changed since.

**Ability check.** `MutualExclusion` says who holds the mutex, which the command keeps
over the call and gives up in its sleep. A message that raised the flag wakes the
sleeper before it unlocks, which is why no flag is up while the command sleeps.

**Cache callbacks.** `WritingInv`: the thread that was let in raised `complete` and the
promise waits for it. `PublishedInv`: behind a fulfilled promise the fields hold one
thread's answer, and nobody is let in any more. `ReadInv`: the command reads only after
the promise. The getters without the lock are safe for this reason alone. `Refinement`
maps the published answer to the two fields behind the fulfilled promise: `SetValue`
publishes, `WaitForCompletion` and `Report` leave, every other step stutters. A command
whose call failed has not waited; a size of zero counts as giving up, as it prints alike.

**Command lines.** The proofs do not unfold a line: `LineInv` says, at any moment, what a
result in order, and a message already printed, tell of the options so far. What is
needed of the tables are a few facts about all their entries (`ForgivingCommands`,
`OnlyRecoverForgets`, `NeededPermissions`), proved from the tables entry by entry.
`ItsArguments` excludes the plugin commands after a refused option and the two operations
of quickfix that nothing checks, where the code differs from what it says (run
`plugin_arguments`, and below). `RequiredIsListed` compares the
two tables of permissions, and is why, among the commands that `config.json` makes
demands of, only the sandbox commands may go unrecorded.

**Commands of the test tool.** No step is looked at command by command: the proofs know a
command only by its description, and what they need of the descriptions is one lemma,
`Table`, proved section by section. It says what a description must not contain unless
the command is one that a property names: a bad value that is overlooked, an unknown
option that ends the scan, a result that each option overwrites, an identity assumed at
once, silence about a failure. `LineInv` tells from a result in order, and from a message
already printed, what the options were; from it follows that the commands which look for
missing values only if nothing was printed let none through (`CheckLine`), because none
of them overwrites its result. `IdentityInv` relates the identity of the process to the
identities asked for, from the first option to the call. It is the one part in which
the *first* and the *last* identity of a line play different roles, and is what
`CallerAsAsked` needs: `setuid` works once, so the commands that call it with each option
keep the first. `CallInv` says that nothing is called, registered or set before the line
is in order; that the device's parameter is set before the last refusals
(`LateRefusal`) does no harm for a reason in the table alone: the one command that sets
it refuses nothing so late. `RunTypeCorrect` bounds the identities, letters and proxies
of a run by what the line and the table provide.

### Only model-checked

- Every liveness property: the proof system has no `ENABLED`, hence no fairness.

The two runs that expect a violation have nothing to prove. Every other invariant and
action property of the runs, and every refinement, is a theorem.

Only proved: the types (`TypeCorrect`, `SessionTypeCorrect`, `RunTypeCorrect`;
elsewhere the types are part of the invariant, as far as the proof needs them), and `OneHolder`, the mutual exclusion of the ability check.

## What the models say of the code

### Against a document

Two are findings, each with a run of its own (see above): the plugin commands, and `-w`
of ohos-bm. The models show five more. Their properties name them as exceptions, or they
are a matter of tables and numbers, which no sequence of steps reaches:

- `quickfix -r` takes the two arguments that follow, and with another key than `-b`
  asks for the deletion of the quick fix of an empty bundle name. README_zh.md:340 has
  `-b` as required after `-r`, and the help text "used with -b or --bundle-name"
  (`frameworks/include/bundle_command.h:152`). A query (`-q`) refuses the empty name.
- `quickfix -a -f -t path` deploys an empty list of files, where README_zh.md:338 has
  `-f` as required, with one file or several. Without `-t` the operation looks. These
  two operations are `Unchecked` in `CommandLine`.
- `dump-dependencies` of ohos-bm overwrites the scan's result with every option, and the
  help that `-h` prints keeps the check for what is missing away: after `-h` and a good
  option it calls the bundle manager without the name or the module, although the text
  for a missing one says that both must be given (`ohos_bm/include/bundle_command.h:140`).
  In bm `-h` prints nothing at that point and an unknown option ends the scan, so the
  check still runs there.
- README_zh.md:66 gives 5 s as the minimum of `-w`; the code and its help text have
  180 s. The model has the code's limits.
- `ohos_bm/config.json` requires `RECOVER_BUNDLE` of recover and
  `MANAGE_SANDBOX_BUNDLE` of the sandbox commands; the table the records are made
  from has `INSTALL_BUNDLE` for the first and no line for the others. Whoever holds all
  that recover requires is recorded for `INSTALL_BUNDLE`; the sandbox commands are never
  recorded (`Unrecorded`).

### Where no document speaks

These are consequences a reader may not expect:

- An install that nobody answers waits twice the time that `-w` asks for, once for
  the message and once for the code.
- An uninstall that the service refuses, or that is lost with a dead service, is
  still waited for, for the whole 180 seconds, unless somebody answers; it is then
  reported as a timeout (`FailureHasItsCause`).
- ohos-bm and the test tool leave their death recipient registered when an operation
  returns. A death after that calls the receiver, whose guard makes it harmless.
- A quick fix operation of any tool ends the process if the service both answers
  and dies while the recipient is registered (`AbortNeedsBothCallbacks`).
- `ApplyQuickFix` takes the first result of any bundle's quick fix for its own.
- `ApplyQuickFix` does not look whether its subscription succeeded. If it failed, the
  patch is applied and the command reports a timeout (`LostResultIsATimeout`).
- `CheckOperation` waits without end for a service that accepts and then dies.
- `GetAllBundleCacheStat` reports success and a size of zero when it gave up.
- `dump-shared` of ohos-bm overwrites the scan's result as `dump-dependencies` does:
  after `-h` and a good option it calls the bundle manager without the name it needs.
- A recover that fails, and a sandbox command that fails, still return success to
  the dispatch of ohos-bm; for recover that success is recorded as a use of its
  permission (`ReportTellsTheOutcome` names the exception).
- `quickfix -a` with another key than `-f` skips two arguments without a word. In the
  list after `-f`, `-h` and `-r` are files. `-o` has no effect together with `-t`.
- Seventeen commands of `bundle_test_tool` carry on after a bad number
  (`Overlooking`): most parsers of the rules keep the verdict in a local variable,
  and the checks of `getAppIdentifierAndAppIndex` and `installEnterpriseResignCert`
  return an error code as a `bool`, which is true.
- An unknown option ends the line of the quick fix commands of the test tool, of
  `setDebugMode` and of `setBundleFirstLaunch` (`EndedByTheUnknown`), which then
  call with what came before it.
- `getAllBundleCacheStat` and `cleanAllBundleCache` change their identity while they
  scan: of two `-u` the first counts.
- `installEnterpriseResignCert` without `-p` reads a variable that was never set.
- `uninstallPreInstallBundle -f` makes the device an enterprise's before the call;
  nothing sets it back.
- `install -s` of the test tool reads an argument that getopt_long was not told to
  take, as `-w` of ohos-bm does.
- Many commands of the test tool return success whatever the call did (`forgets`);
  what they print does tell the outcome, but for the commands `OutcomeIsTold` names.

### Exceptions are not catches

Some properties hold because they name the commands for which they would not:
`OperationHasItsArguments` of `CommandLine` the two `Unchecked` operations and the plugin
commands after a refused option, `RefusedLineCallsNothing` and `CallIsComplete` of
`OhosCommand` the two dump commands that overwrite their result, `ReportTellsTheOutcome`
recover and the sandbox commands, `RefusedLineCallsNothing` of `TestTool` the sets
`Overlooking` and `EndedByTheUnknown` and the two commands that go by the last option,
`ResultIsOwnWhenQuiet` every command during which another patch finishes. For those
commands the fault is there, and the property does not catch it. What it does show is
that no other command has it, and that the exceptions have it in no other way: a further
lenient parser would be caught.

## Not modelled, and why

- Failed allocations and null proxies, checked before anything is shared.
- `GetAbsPaths`, `PathToRealPath` and all formatting, warnings and messages: no
  property is about them. The exception is whether anything was printed, because
  the scanners consult it.
- What the getters of bm print (`dump`, `get`, `compile`, `copy-ap`,
  `GetApplyedQuickFixInfo`): one call and no wait. That they are called, and with
  what, is in `CommandLine`.
- The values of the test tool's options but for identities, and negative
  identities, which setuid refuses.
- JSON of ohos-bm that cannot be printed, and what a call that adds a permission
  record returns, which is only logged.
- Message tables, tests, mocks, sample projects.

## The plan

1. *Done:* the receiver, its abstract promise and the installer sessions, checked
   and proved; quick fix, clean, the two kinds of test tool callbacks, the dispatch
   and the command lines of all three tools and the permission record, checked.
2. *Done:* theorems about every component: all the invariants the runs check and the
   three refinements; the section on the proofs says how.
3. Left to TLC, because the proof system cannot state it: liveness. Left out of the
   models: the queries that make one call and format its answer, and the operations
   behind the commands of the test tool, each of which is one step.
