# Verification of the MyApps store client

TLA+ models of the store application in `myapps/client/store`, the TLC runs
that check them on small instances, and TLAPS proofs of every safety property
for any size. Paths below are relative to that directory; line numbers are those
of the commit this project is kept beside. `PROJECT.json` gives, for every
definition that models code, the lines it stands for.

## The system

The store is one Windows/Qt process that talks to the *front service* over
mprpc. Four kinds of threads run its code:

| thread | started at | runs |
| --- | --- | --- |
| RPC | `aioscheduler.start(1)`, store_main.cpp:351 | connection callbacks and every completion, one at a time |
| pool | `cwp`, store_main.cpp:333 | `prepareAndPushItem` for each completed fetch |
| GUI | `app.exec()`, store_main.cpp:406 | slots, painting, queued signals |
| monitor | `file_monitor_.start()`, store_main.cpp:350 | `onAuthFileChange` |

### Components

**Engine, catalogue half** (store_engine.cpp). Keeps `app_dq_` (id, flags,
status and row of each application), `fetch_count_`, the application list file.
`start` chains three ListApps requests (all, acquired, default); the last one's
completion calls `requestMore` for the first batch. `requestMore` is afterwards
called by the list model from the GUI thread; it sends one
FetchBuildConfiguration request per application. Each completion calls
`on_fetch_fnc_` or `on_fetch_error_fnc_`. `onModelFetchedItems` is called back
by the model and marks the applications of a batch as fetched.
*Hard:* `fetch_count_` is shared by three threads and written without the
mutex; a batch is known by two counters that two components keep.
*Correct when:* no application is requested twice, shown twice or forgotten;
the engine's and the model's idea of the rows agree; its checks never throw.

**ListModel** (store_main_window.hpp/.cpp). Collects a batch in
`push_item_dq_` under its mutex, on the pool; swaps, sorts and appends it to
`item_dq_` on the GUI thread; asks for more when the view paints a row past the
middle of the last batch. *Hard:* batches with failures, batches of nothing but
failures, answers in any order, painting at any moment.
*Correct when:* the page is a prefix of the listing, in its order, without what
the service refused.

**Worker pool and callbacks** (store_main.cpp:375-396) carry the answers from
the RPC thread to the model. *Hard:* the queue is bounded and `pushOne` blocks
the only RPC thread. *Correct when:* it never does.

**Authenticator** (store_main.cpp:124-225, 641-824). Keeps the endpoint, user
and token of `auth.data`, the queue of connections that wait for a token, and
the count of active connections behind the Online/Offline status. Called by the
connection pool (start, init answered, auth answered, stop) and by the file
monitor. *Hard:* two critical sections in `onConnectionInit`, a file another
program rewrites at any moment, late answers, connections that close at any
point, a stop before the event loop runs.
*Correct when:* a connection is authenticated along one path only, with the
token of the pinned account; a new token reaches all who wait; the count and
the status bar follow the connections.

**Engine, item half, and the item page** (store_engine.cpp:311-433,
store_main_window.cpp:629-980, 1045-1057, 1134-1208, 1363-1409). Showing an item,
acquiring and releasing it, choosing its build, reviewing it, and the slots that
take the answers. Keeps `current_item_`, each item's flags, `build_id_` and
`data_ptr_`, the widgets, and the application list on disk. *Hard:* answers for
items no longer shown, in any order, lost or refused; widgets that signal
synchronously while a slot runs, so that a slot sends calls of its own.
*Correct when:* page and item agree whatever comes in between, and the choice of
a build is what is stored.

**Configure form** (store_main_window.cpp:873-944, 1210-1354). A tree of an
owned item's builds and media, and a combo box that moves the selected one to
another state. Keeps the names selected last (`config_current_build_`,
`config_current_media_`); everything else is in the widgets. *Hard:* every
change of a widget signals a slot that may send a call; the combo box is filled
from a list that depends on the entry's flags and set by an index that does not;
the form is refilled whenever entries come, while reviewers and other sessions
of the owner move the same builds, and listings on two connections may cross.
*Correct when:* a build changes its state only by the user's choice; a form at
rest is that of the item shown, and shows what the service has if no listing
crossed another; a refresh selects what was selected, or the build selected
before a media entry.

**Navigation** (store_main_window.cpp:68-157, 1059-1132). `history_` is a stack
of closures, each of which shows a page again from what it captured and from what
it reads when it runs. *Hard:* what a closure reads - the current item, the
item's data - changes between its push and its run. *Correct when:* Back shows
what was shown before.

**Start-up and parameters** (store_main.cpp:428-623). Options from the command
line, a configuration file and defaults, and `--generate-config`, which renames
the old file and writes a new one. *Hard:* three stores into one map whose order
decides; a process that dies between the renaming and the writing. *Correct
when:* the command line wins for each option on its own, and a file that is
replaced is not lost.

**Shutdown** (store_main.cpp:273-409, mostly the order of the declarations).
The window is declared last and destroyed first; the pool and the file monitor
outlive it, and the RPC thread outlives them all unless `stop()` has emptied it.
*Hard:* three threads against seven destructors. *Correct when:* no completion
finds an object gone, and the program ends.

**Launcher** (launcher_main.cpp). Puts the Qt directory in front of the MyApps
directory in Path, sets the plug-in path, derives the certificates' directory
and starts the store. *Hard:* offsets of unsigned type compared with `npos`,
spellings with and without a trailing backslash. *Correct when:* the new Path
lists what the old one did, in its order, with Qt where it has to be.

**Painting, styling, forms, `env_main`, build files**: no state a property
would be about; not modelled.

## Modules

| module | models |
| --- | --- |
| `StoreEngine` | the engine's catalogue state and operations |
| `ListModel` | the list model's state and operations |
| `StoreFeed` | both, with the pool between them and the three threads |
| `Catalog` | abstract: what the home page promises |
| `Authenticator` | the authenticator, its connections, file and status bar |
| `Session` | abstract: what the authenticator promises connections and user |
| `ItemPage` | the item page with the engine's item operations |
| `ConfigureForm` | the configure form with the changes of state it sends |
| `Navigation` | the pages, the history and the pictures |
| `Browser` | abstract: what the pages promise |
| `Startup` | the parameters and the configuration file |
| `Launcher` | the launcher's environment and arguments |
| `Shutdown` | the end of WinMain against the other threads |
| `MC*` | values of the constants for TLC |
| `StoreFeedProofs` | proofs about `StoreFeed` |
| `AuthenticatorProofs`, `ItemPageProofs`, `ConfigureFormProofs`, `NavigationProofs`, `StartupProofs`, `LauncherProofs`, `ShutdownProofs` | proofs about the module each is named after |

`StoreFeed` composes the two components that share the batch. The parts of the
window are modelled one by one, each with what it needs of the others: `ItemPage`
sends and takes the calls, `ConfigureForm` is filled by the same slot of the same
event (`itemEntriesSlot` runs `prepareConfigureForm` at its end), `Navigation`
keeps of the item page the item, its build and its data. What they share is
`current_item_`, which only `showItem` writes, and each of them has that as an
action. `Shutdown` keeps of the other threads the objects they use.

Definitions that begin with a comment "Mutant of" are plausible mistakes in the
definition they name. They are not part of any specification; each is used to
see that a property notices it (`PROJECT.json`, "mutants").

### StoreEngine, ListModel, StoreFeed

Variables have the names of the members they stand for. `requestMore` is not
atomic: it is a *frame* of the calling thread (`frame[t]`), stepped through by
`RequestMore` (the unlocked write), `Clamp` (the critical section), `SendFetch`
(one per iteration) and `Returned`, so any other thread runs in between. The
completion of a failed fetch is two steps, because `fetch_count_` is read after
the unlock (`FetchFailed`, `FailureReported`). `prepareAndPushItem` is one
critical section and one step; `newItemsSlot` is two, the swap under the mutex
and the rest on the GUI thread. The pool's tasks are a set: each is a single
critical section, so any number of workers in any order is some behaviour.

An application is its position in `app_dq_`; names, pictures and build requests
are left out. A fetch is a member of `inflight`. The service may answer in any
order, refuse, or lose the connection, which all end in the same completion. A
size_t that would wrap is a negative number, and `TypeOK` forbids it.
`thrown` is set when the `solid_check` or `solid_throw` of
`onModelFetchedItems` fires; the exception leaves a slot and ends the program.

The completions fill `app_dq_` before anything reads it from another thread, so
listings are atomic. `data()` is called by the view at any moment the GUI
thread is free; a call made while rows are inserted is the same as one made
right afterwards.

### Authenticator, Session

A connection is a RecipientId, never used again. `OnConnectionInit` and
`InitAuth` are the two critical sections of `onConnectionInit`; the RPC thread
does nothing else in between (`initing`), the monitor may. `AuthAccepted` and
`EnterActive` are apart because `connectionNotifyEnterActiveState` only queues
an event. `main` follows WinMain: starting, serving (the connection pool
exists), running (event loop), exiting, over. `stop_fnc_` is
`QApplication::exit`, so `StopProgram` does nothing before `running`.
`refused` is a history variable for `WaitsOnlyBehindRefused`. The file monitor
and the connection pool are libraries, modelled from how the code uses them: the
monitor reports a file it has not looked at since it was written, at some later
time, and reports the file once at start.

`Session` forgets the threads, the critical sections, the file and the order of
the queue. It keeps the token in use, who waits, with which token a connection is
asked for, who is in, and the news on their way to the user. A connection may
wait only if there is no token, if others wait, or because it was refused; a new
token reaches all who wait in the step that stores it; the news follow the set of
those who are in, where the code has a counter. The refinement mapping is a name
for each: `recipient_q_` as a set, `auth`, the connections accepted and not
counted down, `signals`, `status`.

### ItemPage

`calls` are requests not answered, `events` the queued signals of the GUI
thread. The service answers any call next, whatever the order they were made in;
with `Fails = TRUE` it may also refuse or lose one, acting or not. Widgets
signal synchronously: `Toggle` is `setChecked` with `onAquireButtonToggled`,
`BuildChanged` is `setCurrentIndex` with `buildChangedSlot`, both inside the
action of the handler that calls them. `combo_of` is a history variable (whose
entries the combo box has), and so is `orderly`: it is true until a call fails
or is answered before an earlier one of its kind about its item (`Overtakes`).
Agreement with the service is promised only while it is true: the code numbers no
calls, so two answers that cross leave the page with the older one. `crashed` is
the null response dereferenced by the completions of a change of state. The
builds of an item are listed in one fixed order; the sort of `itemEntriesSlot`
only matters for the display. The queued signals of `MainWindow` are taken to be
connected, as they are when the registered type names resolve.

### ConfigureForm

An action is a whole cascade of signals. `ItemChanged` is
`configureItemChangedSlot`: it clears the combo box (one signal, of an empty box),
fills it with `OfferedStates` of the entry's flags and sets the index
(`IndexFor`, fixed per state, none if past the end), which signals
`configureStateChangedSlot` (`StateChanged`) with the entry selected. A hidden box
is filled anew before it is shown, so its contents are left out (`Hidden`).
`PrepareConfigureForm` is what the entries of an owned current item run: taking
the rows out of the tree makes their parent current (`Row`), then the build
selected last, or the media entry, is looked up by name.

The service reads the entries of an item in one step (`EntriesRead`), and
`ItemEntriesSlot` takes the reading in another. Readings are taken in any order:
the pool may have two active connections (store_main.cpp:661), the calls carry
no number, and the slot takes whatever is about the current item. The completion
only queues a signal, and signals are taken in the order they were queued in, so
completion and slot are one step. A reading that another one of its item has
overtaken is `late`, and so is one left behind by a call that was lost;
`outdated` are the items whose last reading was late or whose last call was
lost, `lost` those about which a call was lost since entries came. All three are
history: no step depends on them.

The service is a table of states and flags (`svc`); reviewers turn a request into
a verdict, which becomes the flag, and other sessions of the owner do what the
form itself may do, and delete what is in the trash (`OthersMove`).
`ServiceChecks` is an assumption about the service: it refuses a state that the flags do not allow.

### Navigation, Browser

An entry of `history` is the widget it is known by and its closure: the page,
and the item and number the closure captured. The closure of the configure form
captures none. `Run` is what the closure does; `HistoryPush` is `historyPush`,
which replaces the entry on top if it is of the same widget. `RunImage` reads
`data` when it runs: without data the program ends (`crashed`), and a file that
cannot be loaded leaves the page as it is (`LoadsFail`). `thumbs` are the
pictures that can be clicked, which `DataShown` replaces whatever item is shown.
`BuildChanged` is `buildChangedSlot`, which drops the data of an item whose build
changes. It is run by the user's choice (`ChooseBuild`); by an answer about
acquiring the current item, which puts the combo box on its first entry whatever
page is shown (`AcquireAnswered`, store_main_window.cpp:978); and when the
entries of the current item come (`EntriesShown`), with the item's build or, if
that is not listed any more, the first entry (860). `changed` is a history
variable: the items whose build one of these has changed.
`Browser` is a trail of views: opening appends one, Back removes one. The
refinement mapping takes the views of all entries below the top, and what is on
the screen for the top one, so it says both that the screen is what the top
entry would show and that no step changes what lies below.

### Startup

One process at a time (the mutex, store_main.cpp:282). `Start` is `parse` up to
the writing of a file: a process runs with the merged parameters or goes on to
`Rename`, `OpenFile`, `WriteOption` (one per option) and `FileWritten`, and it
may be killed between any two (`End`). `Store` is `boost::program_options::store`
as it is documented and used here: a value set by an earlier store stays, a
default does not. A configuration file is a record of the options in it, in which
a generation adds one at a time (`Listed`). What a value written to a file is
read back as is the constant `ReadBack`; a `#` cuts it off. `prior` and
`generated` are history variables.

### Launcher

Paths are sequences of characters, since offsets are what can be wrong here:
`path` is the text of Path at the start, `Entries` is `to_vector`, which cuts it at
each semicolon. `Loop` is the loop over the entries and `AddEntry` one turn of it,
`matches` and `RFind` are the functions of these names, with -1 for `npos`;
`SetEnvironment` and `Spawn` are the two halves of `launch`. The properties read
texts as a loader does: `Listing` is the entries of a text that are not empty. So
`PathFindsQt` compares what the new Path lists with what the old one listed, and
says nothing of how the text was put together. The texts TLC tries are joined from
entries by `MCLauncher`.

### Shutdown

`Stack` is the order in which WinMain's objects are destroyed, `gone` how many
are. Each step of another thread names the objects it uses, and those already
gone are recorded in `dangling`. `Stopped` is the return of
`front_rpc_service.stop()`, which completes each request and stops each
connection first; the destructors of the monitor and of the pool join their
threads. Whether the pool runs or drops the tasks left in it is open.

## What the runs check

`CHECK_DEADLOCK FALSE` everywhere: the feed ends when the catalogue is shown,
WinMain returns, and a page with no call under way and at its bound is at rest.

| run | properties |
| --- | --- |
| `feed` | `TypeOK`; `EngineChecksHold`; `NoDuplicateFetch`; `RowsMatchEngine`; `FlagsComplete`; `PoolNeverFull`; `CountStable` (action property); `ImplementsCatalog` (refinement); `FetchSettles`, `CatalogueCompletes` (liveness) |
| `authenticator` | `TypeOK`; `OneAuthPath`; `CountCoversAccepted`; `OfflineIsTrue`; `TokenIsCurrent`; `OnlyPinnedAccount`; `WaitsOnlyBehindRefused`; `ImplementsSession` (refinement) |
| `authenticator_live` | `ChangeDrainsQueue`, `OfflineIsShown` (liveness) |
| `item_page` | `TypeOK`; `ControlsTrackFlags`; `AgreesWithService` |
| `item_page_settles` | `ComboSettles` |
| `configure_form` | `TypeOK`; `RefreshSelects`; `SelectionIsSilent` (action property) |
| `configure_form_settles` | `FormSettles`; `AgreesWithService` |
| `navigation` | `TypeOK`; `PicturesHaveData`; `ImplementsBrowser` (refinement) |
| `startup` | `TypeOK`; `CommandLineWins`; `PreviousSurvives`; `GeneratedReproduces` |
| `startup_unbuffered` | `DebugUnbuffered`, which is violated (see Findings) |
| `launcher` | `PathFindsQt`; `CertsInBin` |
| `shutdown` | `OnlyPoolAndMonitorDangle`; `EndsAfterQuit` (liveness) |

### Bounds, and why they are enough

*Feed.* Up to five applications, a first batch of three and then batches of two:
full batches, a last partial batch, batches with one failure and with failures
only, an empty catalogue, and three `requestMore` calls, so that each of the
feed's phases follows each other one it can. The sizes differ because the code
has two constants (10 and 10), and the halves the view compares with come from
both. One application may carry flags (`Flaggable`), since flags are only
copied. The pool has room for exactly one batch of the larger size, the least
the theorem about it allows (the code's has room for 1000 tasks). The proofs
remove all of these bounds.

*Authenticator.* Three connections of which two live at once, as
`pool_max_active_connection_count` has it: a third is needed for one that is
opened after a refused one has queued. Five contents of the file: two tokens of
one account, that account logged out, another account, no file. Connections are
symmetric. The liveness run has two connections and three contents, without
symmetry.

*ItemPage.* Two items, one owned and one not, so that every answer can be late
for the other one; two calls and events under way when the user acts
(`MaxCalls`), to which a handler adds up to three; the choices a run needs among
the combo box's entries (`Picks`). `item_page` has calls that are lost;
`item_page_settles` has builds that go to the trash and none that is lost. The
proofs remove these bounds too.

*ConfigureForm.* `configure_form` has one owned item with a build and a media
entry, so that the selection can move from one kind to the other, and others at
work. `configure_form_settles` has two owned items, one with a build and one with
a media entry of the same name, so that a name kept from one could be found in
the other, calls that are lost, and no one else at work, as its agreement with
the service needs. Two calls and readings under way when the user acts, to which
handlers add more, so that two listings of an item can cross with a change of
state in between. With more the state space is too large: the two runs ask
different questions. No run has an item that is not owned, for which the form
cannot be opened and does nothing; the proofs have any items and owners.

*Navigation.* An owned item and another, two builds, the latest and another, with
two pictures and one, so that a picture's number can be past the end of another
build's; a history of
five entries when a page is opened: home, an item, a picture of it, another item,
its picture. The proofs remove the bounds.

*Startup.* Two options, a switch with an implicit value and a path, one of whose
values holds a `#`; one file; any number of processes one after the other.
Options do not affect each other, and the only order between them is that in
which they are written, so two show every cut.

*Launcher.* Every Path of up to three out of eleven entries: the directory in
both spellings, behind a drive, parts of it, two of it in one entry, other
directories, empty entries; with and without a Qt directory. The loop keeps the
text so far and the last match, so a third entry meets every state of it.

*Shutdown.* Three requests of each kind and a pool of two, so that the RPC thread
waits in `pushOne` when the user quits. The proof of the safety property removes
the bounds.

### Fairness

*Feed.* `ThreadFairness` is weak fairness of each thread's work: an idle thread
with something queued runs it, and a request is answered or its connection
fails, which also completes it. Nothing is assumed about which answer comes
first. `CatalogueCompletes` has its reader as an antecedent (`ReaderScrolls`):
if the view goes on painting the last row, as when the user scrolls down.
`FetchSettles` needs none.

*Authenticator.* Weak fairness of the monitor thread and of the event loop's
queued signals. The connections, the service and the file owe nothing.

*Shutdown.* Weak fairness of the GUI thread after the user has quit, of the
completions (`stop()` ends each request with an error if need be) and of the
pool. The user need not quit and the file need not change.

### What the properties do not say

Kept here because the model has the behaviour and no promise holds of it:

- a listing that fails is never asked for again; the feed stays empty;
- a connection that stops between its acceptance and the active state is never
  counted down, so the status bar can stay Online without a connection;
- a refusal that arrives after a file change waits for another change;
- a log-out noticed before the event loop runs does not stop the program;
- a refused release is shown as "not acquired" while the service still has it;
- opposite acquire calls under way can answer each other for ever, since
  `setChecked` sends a call of its own;
- until the entries of a newly shown item come, the combo box and the review
  buttons are those of the item before;
- a lost connection during a change of state ends the program, from the item page
  and from the configure form alike;
- two answers that cross leave the item page with the older one, and the
  configure form with the older listing, until another comes; calls are not
  numbered;
- `SelectionIsSilent` rests on the service. A service that accepted any state
  would let the form publish a build: if an entry without flags were in the state
  `PublicAlpha`, whose index is 2, selecting it would choose the third of its
  draft states, `ReviewRequest`;
- going Back to the configure form shows it for whatever item is current by then;
  a choice made on the tree of the item before, until the entries come, is sent
  for the current one;
- after a change of state of a media entry the refresh selects the build that was
  selected before it, if there was one: a build wins over media;
- when a media entry that was selected has gone, `config_current_build_` is
  cleared where the media entry's name was looked for (939);
- a build that has changed since a picture was opened - the user chose another,
  an answer about acquiring the item came, or the build was not listed any more -
  makes Back read data that is not there, or a picture past the end: the program
  ends (`crashed`). `PicturesHaveData` and `ImplementsBrowser` leave these items
  out, or end there;
- with the file of a picture gone (`LoadsFail`) Back leaves the page as it is
  although the history has shrunk; `ImplementsBrowser` is false then;
- data that comes late fills the thumbnails of whatever item is shown, and a
  click on one opens the picture of that number of the item shown, if it has one;
- a value with a `#` is cut off when it is read from a file, also from one the
  store has generated itself;
- a second generation renames its file over the `.old` that the first one left;
- `--secure-prefix` given to the launcher as well reaches the store twice, and
  its parser refuses that;
- `matches` compares letters as they are and not at the boundary of a directory:
  `MYAPPS.DIR\BIN` is not found and `Not MyApps.dir\bin` is;
- a launcher that finds neither directory ends Path with a semicolon;
- a task left in the pool uses the window, and the file monitor the
  authenticator, after they have been destroyed: `OnlyPoolAndMonitorDangle` says
  that nothing else does.

## Findings

`startup_unbuffered`: `--debug-buffered,S` has the implicit value *true* and the
default *true* (store_main.cpp:479), so giving `-S` changes nothing and the log is
buffered; its description is "Debug unbuffered".

## What is proved

Every safety property of every passing run is a theorem. Each proof rests on the
named assumption of its module about the constants, which TLC evaluates in the
module's run, and on what is said below; there are no others.

`StoreFeedProofs` proves, for every number of applications, batch size and set of
flags, every safety property of the run `feed`; from `StoreEngineAssumption`,
`ListModelAssumption` and `StoreFeedAssumption` (the sizes are numbers, batches
are not empty), and for `PoolNeverFull` that the pool has room for one batch of
either kind (`PoolHoldsBatch`).

The argument: the feed is a baton. At any time there is at most one batch, a
window of the catalogue, in one of four phases.

- *Idle*: nothing is under way; a `requestMore` call may have started but has not
  passed the clamp.
- *Collecting*: the window starts at `engine_fetch_index_` and is `fetch_count_`
  long; each of its applications below the next one to request waits in exactly
  one place, or has been pushed, or has failed, and these add up.
- *Ready*: it is complete and one signal is queued.
- *Inserting*: the slot has swapped the deques.

No single property is inductive: that requests do not repeat depends on who may
call `requestMore`, which depends on `requested_more_` and on the batch being
whole, which depends on `fetch_count_` not changing, which depends on who may
call `requestMore`. `IInv` states all of it at once: types, the phases, what a
frame computes (`Frames`), that the GUI thread cannot ask while there is a batch
(`Requested`), that nothing else is going on during the first call
(`FirstBatch`) and before the listings are complete (`Listings`). There is one
lemma per action; the hard ones are `PoolRun` (the last item of a batch moves it
from Collecting to Ready) and `GuiInsert` (the loop of `onModelFetchedItems`
visits exactly the batch). From `IInv`: `FeedTypes`, `EngineChecks`,
`FeedCountStable`.

`RowsInv` adds that rows below `count_` are exactly the fetched applications in
order (`FeedRows`, `FeedNoDuplicate`); `FlagsInv` that flags do not change once
the listings are complete (`FeedFlags`); `PageInv` collects what the refinement
to `Catalog` needs (`FeedImplementsCatalog`): every step of the feed is a step of
`Catalog` or leaves the page alone, `FetchFailed` being `Refuse` and `GuiInsert`
being `Extend`.

`AuthenticatorProofs` proves every safety property of the run `authenticator`
for any finite set of connections, any limit on active ones, any contents of
`auth.data` and any order of writes, answers and stops; from
`AuthenticatorAssumption`, and for `OnlyPinnedAccount` also from
`TokensHaveAccounts`: the program that logs the user in writes a token together
with an endpoint and a user. Without that a token of an unnamed account could
be used and the account pinned afterwards.

The argument: `AInv` adds three things to the properties. `Stages` says in which
states of a connection it can wait, be authenticated or be between the critical
sections; without it an `AuthAccepted` could meet a connection that also waits.
`LastSignal` is what the status bar will show once all signals are delivered;
it says *online* exactly when `active_count_` is positive, which is what makes
an empty queue of signals tell the truth. And `CountCoversAccepted` counts the
connections lost before they became active, without which the count could go
below zero. `Joins` and `Moves` are the two ways a connection changes its stage,
each action being one of them (`SendToQueued`, which moves all who wait, apart).
`StepPinned` is inductive beside `AInv`: while a request is under way the pinned
endpoint and user are not empty, so `SameAccount` keeps them as they are.

`AInv` also carries the refinement (`AuthImplementsSession`), action by action. A
connection between the critical sections is in none of the sets of `Session`, by
`Stages`; so the first section is a `Wait` or nothing and the second an `Ask` or a
`Wait`, whatever the monitor did in between. `AuthAccepted` and
`OnConnectionStop` decide by the counter whether there are news, `Session` by the
set: `CountCoversAccepted` makes these the same. And `onAuthFileChange` is
`NewToken` because it stores the token before it empties the queue.

`ItemPageProofs` proves every property of the runs `item_page` and
`item_page_settles`, for any items, owners, builds and number of calls under way,
from `ItemPageAssumption` (the builds of an item are finitely many). `PInv` has
the types, `app_list = build_id`, and the controls, for which it is enough that
every change of the button by the user leaves an acquisition under way; that the
application list on disk names the build in use (the first part of
`ComboSettles`) needs nothing else and is also a theorem of its own. `Agreeing`
is about queues: of the calls, or else of the events, that are alike (one kind,
one item) the last one says what the item is to end with; `NewestRemoved` says
that answering a call that none like it precedes keeps that so, which is where
`orderly` comes in. `Settled` adds to `ComboSettles` that no two entries of the
combo box stand for one build, without which choosing another entry would not
choose another build and a review could be offered for one that is not under
review; it needs that no call fails and that no build has the name of a fixed
entry (`NamesApart`): a build called `public_beta` would be taken for the entry
that stands for the newest public beta.

`ConfigureFormProofs` proves every property of the runs `configure_form` and
`configure_form_settles`, for any items, entries and number of calls under way,
lost ones included, from `ConfigureFormAssumption` and `ServiceChecks`;
`AgreesWithService` also from `~Others`, for a move made elsewhere is not
announced. `IInv` says that every entry - the service's, those in readings, those
in the tree - is a pair of state and flag that `AppItems` lists; for each of these
the index set for the state is that of the state in the list offered, or none.
The index is by position in the code, so this is a fact about the tables, and
holds of no larger set of pairs. From it: `SelectionIsSilent`. `FInv` says what
the form holds with nothing under way about the current item: a step that could
disturb it sends a call, adds a reading or loses a call about that item
(`AnswerMoves`, `ChooseMoves`), except a refresh and a click, which put tree,
combo box and names on one entry at once (`ItemChangedForm`). From it `FormSettles`
and `RefreshSelects`: the build's name, if there is one, is in the tree, so that
a refresh finds what it looks for. `Follows` says that with no call about an item
under way the last reading about it, unless it is late, lists what the service
has, and that the form does when there is no reading under way and the last one
was in time: every change of state that is answered is followed by a reading of
its own. Taking one reading makes those before it late and leaves the last one as
it was (`Marked`, `ReadingTaken`), in whatever order they are taken.

`NavigationProofs` proves the safety properties of the run `navigation` for any
items, builds, pictures and length of the history; `ImplementsBrowser` with
`~LoadsFail`. The invariant: for an item whose build has not changed all data,
 there or under way, is of one build (`OneBuild`), and a picture's entry was
pushed only when that data had the picture. For the refinement, that the view on
the screen is that of the top entry unless what it captured is not what it shows
(`TopShown`).

`ShutdownProofs` proves `TypeOK` and `OnlyPoolAndMonitorDangle` from
`ShutdownAssumption`: when WinMain leaves, there are no requests (`NoneLeft`), so
the RPC thread has nothing to run; the pool and the monitor are there as long as
they run, and what they use of the objects destroyed before them is the window
and the authenticator.

`StartupProofs` proves every property of the run `startup` for any options,
values, files and command lines and any number of processes, from
`StartupAssumption` (the options are listed once each and have a default each;
the paths of configuration files are not empty). `SInv` says where the file that
a generation replaces is in each phase - in place before the renaming, under
`.old` after it - so that a death at any point leaves it in one of the two; that
a file being written holds, as far as it goes, the parameters of the process that
writes it, so that a generated file that is complete holds all of them; and that
the file of a running store, which may be one cut off half-way, is still the one
its parameters were merged from.

`LauncherProofs` proves both properties of the run `launcher` for a Path of any
length with any entries, from `LauncherAssumption` (texts are sequences; the
MyApps directory is not empty and does not end in a backslash; the name of a Qt
directory holds no semicolon). What the launcher computes is recursive in the
length of a text, and the library's induction theorems cannot be used with the
provers there are; `SetInduction` gets induction from the least element of a set
(`WFMin`, which has no operator parameter), and `LoopExists` and `LoopsAgree` that
a loop has exactly one value. On these rest the lemmas about texts: the entries of
a text with another appended to it (`EntriesExtended`), what such a text lists
(`EntryAdded`, `ListingAdded`), and that `matches` says of a text exactly that it
ends in the directory, spelt one way or the other (`MatchesIs`). `LoopIs` is the
invariant of the loop: the text so far lists the entries so far, with the Qt
directory before each MyApps directory, and `bin` is one of those entries if
there is one and empty otherwise.

Only model-checked are the five liveness properties, which need fairness and are
out of the prover's reach: `FetchSettles`, `CatalogueCompletes`,
`ChangeDrainsQueue`, `OfflineIsShown` and `EndsAfterQuit`.

## Plan

Done: the modules above, with their proofs. Left:

1. The labels and the picture of the item page, which follow the same late
   answers as the thumbnails, and answers with an error that still list builds.
2. Of the liveness properties, the safety part of the argument: that whenever
   something is still to be done, some thread can do it, as invariants that are
   proved.

## Not modelled

The delegate, the colour scheme, the style sheet, the window dragger and the
forms only draw or hold constants. `env_main` prints the environment. The
account page is in no tool bar or menu, so nothing opens it. The texts of
`--help` and `--version`, the configuration of the log, and the scaling of
images change no state that another part reads. RPC, connection pool, worker
pool, file monitor and Qt are libraries outside the repository: they are modelled
as far as the code relies on them.
