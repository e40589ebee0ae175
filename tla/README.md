# GenHTTP.Lambda, specified

GenHTTP.Lambda hosts small web applications ("lambdas"): their owners write C# in an
editor, through an API, through agents or by pushing to a git repository; the server
compiles what is deployed and serves it from its own process. This directory holds TLA+
modules of the parts of the server - of the build agent beside it, and of the pages in
front of it - where calls, background jobs and crashes meet, the TLC configurations that check them on small
instances, and TLAPS proofs of the theorems that matter most for instances of any size.

Paths below are relative to `src/src/GenHTTP.Lambda/` unless they start with `docker/` or
`Frontend/` (`src/Frontend/src/`).

    tlc -workers 2 -config MetaVersions.cfg MCMetaService    # one of the runs listed below
    tlapm MetaServiceProofs.tla                              # one of the proof modules

## 1. The system

| part | state | operations | hard because |
|---|---|---|---|
| **Life and versions of a lambda** - `Services/Meta` (MetaService, LambdaHistory, LambdaLifetime, LambdaRemoval) | the rows of a lambda, its versions, what it has online (`ActiveVersion`), the stretches it was online; `code` files in storage | create, save (with or without "after version n"), prune, deploy, undeploy, delete, expire, go offline unused | rows and files are written in separate steps; compiling happens outside the lambda's turn; removal and the sweep take no turn at all; a crash may fall between any two steps |
| **Building and serving** - `Services/Deployment`, `Services/Execution` | in memory: what is deployed per slot (lambda or preview), what failed, one compile lock; on disk: the resources of a slot | resolve, activate, validate, restore, evict | a storm of requests builds one version; resources are replaced before the build that may fail; what was looked up is used after an await |
| **Features and their previews** - `Services/Features`, pushes in `Services/Git` | the row of a feature (base version, revision, preview number), its files, its preview's file, its copy of the data | start, read, save, bring up to date, merge, delete, deploy and undeploy a preview, refresh data, push, sweep | merging checks outside the turn and saves inside it; pushes compare with what was synchronised earlier; rows and files again apart; two deployments race |
| **Resolution cache** - `Services/Meta/ResolutionCache.cs`, `Data/DatabaseChanges.cs` | what is remembered of each key, a counter of writes | look up, load, remember, count | a write becomes visible, is counted and returns at three moments - in another order for a save of a single row - with queries between any of them |
| **Build agent** - `Services/Building`, `docker/agent/builder.mjs` | counts per address and day; jobs, two lanes, the newest job of each lambda, containers | ask, spend, refund, enqueue, pump, run, stop, expire, forget | the answer of the agent may be lost; a stop races a start; a lane only goes on because whatever ends a job wakes it; a restart of the agent forgets what still runs, one of the server what was counted |
| Git repositories - `GitHistory`, `GitStore`, `LambdaRepository`, `ProjectTree` | an index of commits, commits, blobs | synchronise, collect, fetch, push to main | read without a turn while the lambda changes |
| Admission - `Services/Protection` | slots, buckets per client | enter, leave, allow | a request that timed out still runs |
| Data - `DataService`, `DatabaseVault`, `WorkspaceVault`, `SecretVault` | switches, snapshots by generation, files | switch, connect, copy, clear | snapshot then open |
| Domains and keys - `LambdaHosting`, `DomainRegistry` | rows, an immutable map | change key, domain, tier; reload | the map is a copy |
| Run log, analytics, telemetry, log book | notes, queues, rings | beat, flush, record | two writers of one file; else lossy by design |
| **Comparison of versions** - `Frontend/diff.ts` | none | compare two files, fold what did not change into hunks | an algorithm with two halves: the shared ends set aside, and the longest common part of the rest |
| **Watching the agent** - `Frontend/agent.ts` | the change as last heard, a timer, requests | poll, start, stop | an answer decides whether there is another poll; answers of starts and stops come in between |
| **The log and its pages** - `LogBook.cs`, `Frontend/control/LogsTab.tsx`, `Frontend/components/LogSection.tsx` | a ring of lines; a cursor, lines shown, polls under way | write, read after a cursor, change the question, pause | polls overlap and the question changes under them; the numbers start over with the server |
| **The code section** - `Frontend/control/CodeTab.tsx` | files, what was read or saved last and as which number, a save and reads under way | read, type, upload, save | the agent and other tabs save as well; reads replace what was typed |
| **The frame** - `Frontend/pages/Editor.tsx` | everything known of a lambda; reads in the order they were issued | refresh, apply, show what an action answered | a read is five answers, several reads are under way, and each may be late |
| **The build page** - `Frontend/pages/Build.tsx` | a build asked for, an interval, polls | start, poll, end | a poll of the build before stops the interval of the next |
| Published source, limits, showcase, demos, API, MCP, other pages, proxy, certificates | caches and settings | - | derived state, parsing and wording |

How they meet: a request passes the admission, is resolved through the **cache** to a
lambda and the version it has online, and is answered by what **DeploymentService** has
for that slot - which builds it first if nobody has. **MetaService** calls
DeploymentService to compile what is to be put online *before* it records it, and evicts
what goes offline. **FeatureService** calls MetaService to save the version a merge makes,
inside the turn of the feature, and DeploymentService for its preview. **Git pushes** call
both. The **sweep** walks over all of them from a timer. The **build agent** is another
process: it works on lambdas through the public API, with the key it was given. The
**pages** run in browsers, know of all this only what their requests were answered, and ask
again on timers. The server shares one SQLite database, one directory, and memory that a restart empties.

Two locks order what is not ordered by the database: a *turn* per lambda
(`Infrastructure/Turns.cs`) for what adds versions or changes what is online, and one per
feature for what writes it. The hazards in `PROJECT.json` list, each at its line, the places
where that is not obviously enough; the properties are chosen to cover those.

## 2. The modules

| module | models | is used by |
|---|---|---|
| `VersionStore` | abstract: what the versions of a lambda promise | `MetaService` (refines it) |
| `MetaService` | one lambda's life: creation to removal, with sweeps, features as bases, calls that fail, crashes | `MetaServiceProofs`, `MCMetaService` |
| `DeploymentService` | one slot: requests, the compile lock, builds that fail or succeed, writes that are refused, restoring, evicting, other slots' builds | extended by the two below |
| `Serving` | the slot of a lambda under deployments, saves, undeployment, sweep, removal, data switches | `ServingProofs`, `MCServing` |
| `Previews` | the slot of a feature's preview: numbers, the recorded file, refreshes, maintenance, removal, crashes | `PreviewsProofs`, `MCPreviews` |
| `ResolutionCache` | look-ups, the memory and its limit, transactions, statements and saves of a row, and when each is counted | `ResolutionCacheProofs`, `MCResolutionCache` |
| `FeatureService` | features from start to merge, pushes to them, saves that say what they are made from and saves that do not, the sweep of their folders, failing commits, crashes | `FeatureServiceProofs`, `MCFeatureService` |
| `BuildAgent` | allowance, hand-over, lanes, containers, stops, forgetting, restarts of the agent and of the server | `BuildAgentProofs`, `MCBuildAgent` |
| `LineNumbers` | numbers in order, least first | `LineDiff`, `LogFollowing` |
| `LineDiff` | the comparison of a file, its hunks, what is too big or binary | `LinesProofs`, `MCPages` |
| `AgentWatch` | polling, starts, stops and the answers on their way | `PagesProofs`, `MCPages` |
| `LogFollowing` | the ring of the log, the owner's page and the operator's, restarts of the server | `LinesProofs`, `MCPages` |
| `CodeEditing` | reading, typing, uploading and saving, the preview compiled with a feature's save, with other writers | `PagesProofs`, `MCPages` |
| `ControlCenter` | reads of a lambda as a whole, answers of actions | `PagesProofs`, `MCPages` |
| `BuildPage` | a build from its start to its end as a browser follows it | `MCPages` |

How state and actions correspond to the code, module by module (`map` in `PROJECT.json`
gives the lines of every definition):

**MetaService.** `rows` and `files` are the versions with a row and those with code in
storage; `active` is `ActiveVersion`; `stretches` is the table of activations with the
column `Ended` reduced to whether it is set; `turn` is the stripe of the lambda. A call is
a program counter `pc[p]` and what it holds in local variables (`target`, `number`,
`drop`, `was`, `open`). Steps are cut where another call can come in between or the process
can die: each `SaveChanges` and each call of storage is one step. So a save is `LockSave`,
`WriteCode`, `AppendRow`, `FindObsolete`, `DeleteFiles`, `DropRows`; a deployment is
`StartDeploy`, `Compiled` or `Rejected`, `LockActivated`, `Record`, `PruneActivations`; a
removal is `RemoveDependents`, `RemoveRow`, `EraseFiles` and takes no turn; a sweep reads,
closes and commits in separate steps and takes none either. `MoveBase`, `BaseFeature` and
`RemoveFeature` are what FeatureService does to the bases, outside the turn as in the code.
Between any two steps the process may die (`Crash`), and each step may fail in a process
that lives on (`Fails`): the call ends and what it did before stays. A save that prunes has
then deleted some of the code of rows that it never dropped; `torn` remembers which, and
`forgot` that a removal deleted the stretch of what is online. Both are history variables.
Timestamps are left out: the order in which stretches were started stands for them.

**DeploymentService, Serving, Previews.** `deployed` is the entry of the slot in
`_deployed` - its stamp, the data it was started with (`epoch`) and, to tell what was
built from what was meant, the code it was built of; `broken` is its entry in `_broken`;
`resources` is whose resources are on disk; `compiling` is who holds the lock,
`Elsewhere` standing for the builds of every other slot. A build reads the code, writes
the resources, compiles and starts it, publishes it, or fails and restores. Writing the resources may be refused, and
the code goes on without them: then what is there is `Torn` (`Write`). A limit of a
tier that changes is the same as an entry that goes stale and is `Mend`. `Serving` adds
what MetaService does as seen by the slot, `Previews` what FeatureService does; there the
numbers handed out, `stamps`, live in memory and start over from what was recorded, and maintenance
looks at the row in one step and evicts in the next.

**ResolutionCache.** The database is the number of writes visible in it, which is exact
enough to say "not older than". A lambda is loaded by up to three queries, each of which may see a later
database; an entry stands for the oldest. There are three ways to write, as EF and SQLite
order them: a transaction is executed and counted, becomes visible, is counted again and returns; a
statement that returns nothing is visible and then counted; the save of a single row is
counted as its command is executed, commits as its result is read, and is not counted again
(`SaveRow`, `RowSaved`). What such a save wrote is `unnoticed`, a history variable.

**FeatureService.** What code holds is the set of edits made to it, so "nothing is undone"
is set inclusion and "not merged twice" is inequality. A merge reads in the turn, checks outside (`checking`), and
in the turn again saves the version and removes the feature; that last commit may fail, with or
without the process, and leaves the feature behind. Bringing a feature up to date reads the
versions (`brought`) and moves the base in a later call, as the editor does; but nothing in the code ties
the two together, so `MoveBase` also moves a base past what nobody brought in. A save that
says what it was made from is compared (`LockSave`), one that does not - an archive, a
client that passes no revision - is not (`Upload`). A creation that fails as it copies the data takes its
row back (`Uncreate`). `acked` is a history variable, the edits whose save was
confirmed, and so are `pushed`, `blind` (saved by somebody who did not say what they had read), `moved`
(the base was moved past what nobody brought in) and `undercut` (a check during which that was done):
they name the cases in which somebody told the server what was not so.

**BuildAgent.** The agent is one JavaScript thread, so a handler is a step up to its
`await`; `pumps` are the `setImmediate`s still to run. Asking whether a change is under way
and spending are one step, because the agent asks itself again when it enqueues. A job is
only forgotten in the model while it is active: forgetting a finished one changes nothing
any property can see. A server that starts again knows neither what it counted nor
the calls it was in (`ServerRestart`). `box` is the container as docker has it and `killing` a `docker
kill` under way, which finds nothing while the container starts.

**The pages.** A browser runs one callback at a time, so an action is one callback: a timer,
an event, or the continuation of an `await`; every request is two more actions, the server
answering it and the page hearing of that, with anything in between. What React does
after a render - the effects whose dependencies changed - is part of the action that
changed them (`Effects` in `CodeEditing`). The server is external to these modules, but for
`LogFollowing`, which has `LogBook`. `LineDiff` is the algorithm as recursive functions - the
table and the walk over the places two files may be read to (`Places`), the hunks over the lines
read so far (`GroupedUpTo`); its properties use a definition of the longest common subsequence by
enumeration, and one of the hunks as the stretches of lines near a change.
The lines of a file and how they end are two things, as the comparison leaves
the second out (`Split`). A save of a feature is answered once its preview is compiled, with the
number the feature has by then (`Previewed`). Every answer of `AgentWatch` may overtake any other.
`seen`, `given`, `unread`, `said`, `overtaken`, `known`, `missed`, `dropped` and `blind` are history variables.

The pages share no state. `MCPages` opens one of them in a behaviour and leaves the others
as they were, so that one run checks all six, each with its own initial states, its own
next-state relation and its own fairness.

## 3. The runs

| run | module | kind | question |
|---|---|---|---|
| `MetaVersions` | MCMetaService | pass | Do the version online and the newest keep row and code, do numbers only grow, is a conditional save never stepped over, is the history bounded, and is the whole the abstract store - with a call that fails or a crash anywhere? |
| `MetaOnline` | MCMetaService | pass | Is what is served always the one open stretch of the record, whatever deployments, undeployments, removals and the sweep do and wherever a call fails or the process dies, and is the turn always given back? |
| `MetaRemoval` | MCMetaService | violation | Does a removal leave nothing behind? No: a save in its turn writes code after the storage was cleared. |
| `ServingBuilds` | MCServing | pass | Is no version built twice, does what is online find its own resources, however builds and writes fail, and is every request answered, whatever goes offline or is built elsewhere, as long as no code starts for ever? |
| `PreviewDeploys` | MCPreviews | pass | Are the numbers of deployments never shared, does the latest stay, is what is served what was recorded? |
| `PreviewCrash` | MCPreviews | violation | Is the file a preview is served from the one that was recorded? No, when its commit fails. |
| `CacheFresh` | MCResolutionCache | pass | Saves of single rows excepted, is no answer older than a write that had returned, and nothing stale remembered; and how far past its limit may the memory go? |
| `FeatureMerges` | MCFeatureService | pass | Does no version undo the one before it, is no feature merged twice, is a confirmed save never lost, as long as nobody says what is not so? |
| `FeaturePush` | MCFeatureService | violation | Does a push keep what was saved since the client fetched? No, if it is saved during the push. |
| `AgentJobs` | MCBuildAgent | pass | One change of a lambda, one job in a lane, no lane asleep, and the allowance kept but for what is forgiven? |
| `AgentStop` | MCBuildAgent | violation | Does a stop reach a container that was starting? No: it is looked for once, before anybody could have stopped it. |
| `EditorPages` | MCPages | pass | Do the pages come to show what there is, replace nothing new by something older, and say only what is so - with requests that overtake each other, fail and are late? |

### What the properties say

*MetaVersions*: `OnlineVersionKept`, `NewestHasCode`, `NothingUndone` (states),
`NumbersOnlyGrow` and `HistoryBounded` (steps), `ImplementsVersionStore` (refinement).
*MetaOnline*: `StretchesAgree`, `OnlineIsOnRecord`, `TurnGivenBack` (liveness).
*ServingBuilds*: `OnlineResources`, `NotBuiltTwice`, `RequestsAnswered` (liveness).
*PreviewDeploys*: `StampsUnique`, `ServesRecorded`, `LatestStays`. *CacheFresh*:
`FreshAnswers`, `CurrentWhenQuiet`, `EntriesBounded`. *FeatureMerges*: `OneWriter`,
`VersionsBuildOn`, `MergedOnce`, `WorkKept`. *AgentJobs*: `OneChange`, `OneAtATime`,
`StoppedIsCancelled`, `AllowanceKept`, `LaneAwake`. *EditorPages*: of `LineDiff`
`LeastChanged` and `HunksTell`; of `AgentWatch` `EndSaidOnce` and `SpinnerStopsPolled`
(liveness); of `LogFollowing` `OwnerOneQuestion`, `OwnerSeesAll` and `FollowersCatchUp`
(liveness); of `CodeEditing` `SavedIsHeld`, `SavesBuildOn` (steps) and `FeatureCatchesUp`
(liveness); of `ControlCenter` `NothingBroughtBack` and `ShownCatchesUp` (liveness); of
`BuildPage` `WorkingEnds` (liveness).

Some say where they do not hold, because the code does not keep them there:
`OnlineVersionKept` speaks of the version's row, and of its code unless a save deleted that
and failed before it dropped the row (`torn`) - a deployment that had compiled the version before
looks for the row alone; `OnlineIsOnRecord` excepts what a removal forgot. `OnlineResources` excepts `Torn`.
`RequestsAnswered` holds as long as no tenant's code goes on starting for ever
(`[]<>~StartingUp`), which nothing in the code bounds. `FreshAnswers` and `CurrentWhenQuiet` except the saves of
single rows. `VersionsBuildOn`, `MergedOnce` and `WorkKept` except features that were pushed to, saved
blind, or whose base was moved past what nobody brought in, each as far as it matters.
`AllowanceKept` adds what was `forgiven`. `EndSaidOnce` speaks of the time until an answer
overtakes another; `SavedIsHeld`, `SavesBuildOn` and `FeatureCatchesUp` except a save by others that
the page was answered for its own one. The stronger forms are stated in the modules and listed in section 5.

Each is stated in words above its definition, and each has a
mutant in `PROJECT.json`: a definition changed the way a plausible mistake would change the
code, under which the run finds the property violated. Definitions like `LockSave_Unchecked`
in the modules are those mutants; no action uses them.

### Bounds, and why they are enough

- *MetaVersions*: two calls at once, one feature, one version kept (`Limit = 1`), numbers
  up to 4, one mishap - a call that fails or a crash. Pruning starts at the second version; the fourth leaves room for one
  online, one that is a base, one compiled and about to be online, and the newest. Two
  calls are what it takes to interleave a save with a deployment, a removal or a save; that
  more change nothing is what the proof adds.
- *MetaOnline*: two calls, of which one may remove the lambda, and a sweep, up to two
  versions, three stretches with one remembered, one mishap, and no feature, which does not
  touch stretches.
- *ServingBuilds*: a request, a deployment and two admin calls, of which one does more than
  remove the lambda (`Managers`), two versions, two saves or switches of the data. It takes a
  request and a deployment to build one version twice, and a removal or a switch beside
  them to take away what either needs; the two invariants are proved for any number of each, so
  the instance is chosen for `RequestsAnswered`, which is only checked.
- *PreviewDeploys*: two deployments, numbers up to three, one failed commit or crash; a
  third number is what a deployment needs to overtake two others.
- *CacheFresh*: two requests, one writer, three keys, one entry remembered, two writes.
  Two requests for two keys pass the check of the limit together, the third key makes the
  limit bite again; a write before and one during a look-up is every way one can be stale.
- *FeatureMerges*: two callers, which may also push and save blind, a sweep, one feature,
  two edits, three versions, two failures (with three edits it was checked once: 9.2 million
  states, too many for a run that is to be repeated). Features of one lambda share nothing but its versions, and `EditLambda`
  saves versions the way another feature's merge would.
- *AgentJobs*: two calls of one address, two lanes, two jobs, one build per day, at most one
  waiting (`QueueLimit = 0`: the code's check is `> 12`, so thirteen wait), two mishaps
  (nights, lost answers, restarts of the agent or the server). Two jobs are what it takes to have one wait, and two
  changes of one lambda.
- *EditorPages*: files of up to five lines of two texts in all, one line of context and a limit
  of twenty cells (the code has three and four million), two ways a line may end, so that changes are close, far apart and at either end; two changes
  of the agent, whose answers overtake each other freely; a log of two lines with answers of one, three lines written before a restart
  and one after it, two polls at once; two edits, three saves, two reads of the code at once;
  one required and one optional part of a lambda, each changing once, two reads of it at
  once; two builds and two polls. Two of each is what it takes for one to overtake another.
  What is proved of four of the modules is proved for any number.

Every bound is a constant in a guard (`MaxVersion`, `MaxStretches`, `MaxMishaps`,
`MaxStamp`, `MaxEpoch`, `Managers`, `MaxWrites`, `MaxEdits`, `MaxFailures`, `MaxJobs`, `MaxAsked`,
`Longest`, `MaxLines`, `NearRestart`, `MaxPolls`, `MaxRuns`, `MaxKept`, `MaxReads`, `MaxChanges`,
`MaxRefreshes`, `MaxBuilds`, `MaxAsking`). Once all are used up the models stop, so `CHECK_DEADLOCK FALSE` is said
throughout; that nobody waits for ever is said by `TurnGivenBack`, `RequestsAnswered`,
`LaneAwake` and the liveness properties of the pages instead. Symmetry is used over calls that are alike, and never with liveness.

### Fairness

- `MetaService!FairSpec`: weak fairness of the steps of a call that holds the turn. It is
  one thread in synchronous code between `Enter` and `Exit`; the operating system runs it.
  Nothing is assumed of the calls that compile, of removals or of the sweep.
- `Serving!FairSpec`: weak fairness of every step of a request or a deployment but those in
  which a tenant's code starts, and strong fairness of getting the lock.
  `SemaphoreSlim.WaitAsync` queues its waiters, so one that waits is served although others
  come and go; weak fairness would allow it to be passed over for ever, since the lock is
  taken again and again. Nothing is assumed of the start-up code of a lambda, here or elsewhere: it runs
  under the lock without a timeout, and one that never returns stops every build of the
  server. That it does not is the condition of `RequestsAnswered`, not a part of the specification.
- `MCPages!PagesSpec`: what each page states of its own steps, one kind at a time. A timer that is
  set fires (weak: the page stays open and visible, or its polling rests by design); work on
  the server ends (weak: the agent and the compiler have their own time limits); a request
  ends one way or the other (weak: `fetch` resolves or rejects). That a poll is answered, and its
  answer taken, is strong: requests may fail as often as they like, but not each one from
  some time on, and a poll that is superseded by the next is no answer. Without this
  nothing a page says could be asked of it; with it, what it does wrong on its own is found.

## 4. The proofs

`MetaServiceProofs` (9 theorems listed), `ServingProofs` (3), `ResolutionCacheProofs` (4),
`FeatureServiceProofs` (5), `PreviewsProofs` (3), `BuildAgentProofs` (5),
`PagesProofs` (5) and `LinesProofs` (6) are checked by TLAPS from the
assumptions the modules name: the sets of processes do not overlap, `Nobody`, `Free`,
`Elsewhere`, `Missing`, `NoLambda`, `NoJob`, `NoCursor`, `NoFile` and `NoLines` are none of what they stand beside, the
limits are natural numbers, and a lambda has finitely many features and the cache finitely many requests. The bounds remain as parameters, with any value.

*MetaService.* `OnlineVersionKept` is not inductive. Whoever saves reads what is online in
the turn and prunes around it, so the invariant has to say that this stays true to the end
of the save (`PruningSpares`) and that only the holder of the turn is between those steps
(`TurnIsHeld`). A deployment compiles outside the turn; it looks for the row again when it
has it, and a row without code is only there while a save that will drop it holds the turn
(`CompiledHasCode`) - or after that save failed. If the process died, no deployment that had
compiled the version outlived it; if the save alone failed, one may have, and the row is
among `torn`: `torn` is where `OnlineVersionKept` and `CompiledHasCode` stop. `NewestLeads` says no save drops the newest and what a save adds
comes right after it, from which `NewestHasCode`, `NothingUndone` and the numbering
follow. `SeededAlone` and `GoneIsEmpty` cover both ends of a lambda's life. Together:
`IInv`. One lemma per operation shows that it is kept. `NumbersNeverReused` and `Implements`
are step properties on top of it: every step is a step of `VersionStore`, or changes nothing
of what it sees.

`StretchesAgree` rests on `StretchesKnown`: each stretch has its own id, at most one goes on,
and who is about to record the next has read whichever is open - the sweep closes stretches
without the turn, but opens none. `OnlineIsOnRecord` is proved with failures and crashes anywhere, up to the
step of a removal that deletes the stretch of what is still online (`forgot`). `HistoryBounded` comes from `DropSuffices`: what a save keeps is within the limit from
the moment it picked what to drop. The lemma behind it counts: the oldest of what may be
pruned and is kept has fewer than `Limit` newer ones, and the rest is the version online
and the bases.

*Serving.* `OnlineResources` needs to know, while somebody builds, whose resources are on
disk, or that a write of them was refused (`ResourcesKnown`), that a stamp and the code it was built of go together (`OwnCode`), that
one builds at a time (`OneBuild`), and that numbers are never given out again
(`NumbersKnown`): otherwise a version restored after a failed build could be another one of the
same number. `NeverBuiltTwice` is a part of `OwnCode`.

*ResolutionCache.* The point is when an entry may be called current. `CurrentSeen`: what
was read under the generation there is now has seen every write that returned, and misses
at most writes that are visible and not counted yet, or never will be (`unnoticed`). `OlderSeen` carries it over to a
request that read the generation before the counter moved. `GenerationsPast` and
`WritesSeen` are the bookkeeping; the conjunction is inductive. `EntriesBounded` follows from
`RoomKept`, which counts the requests that passed the check along with the entries.

*FeatureService.* That no version undoes another, that none is made twice and that what was
confirmed is kept hold together or not at all. `Holds` says what the code of a feature has
to contain: what was confirmed, unless somebody saved without saying what from
(`Unforced`), and the version it is based on and those its base is about to be moved to,
unless the base was moved past what nobody brought in (`Sound`). It holds of the files (`FilesHold`) and of what every
call carries that will not be refused (`CodeHolds`): that is what comparing revisions is for.
`MergeIsNew` says that what is being merged differs from the newest version, for as long as
the base is still the newest one and was not moved there under the check (`undercut`);
`MergeHolds` that from the moment the version is saved, what was confirmed is in a
version - whether the row of the feature goes then, later or, when its commit fails, not
yet. `NumbersKnown`, `EditsMade`, `BeforeStart` and `CreatorAlone` are the bookkeeping. Most steps
end a call or write nothing, so `FewerKeep` shows once that fewer calls with less in hand keep all
of `Building`, `AnotherVersionKeeps` and `BaseMovedKeeps` what a version more and a base that moves do
to it, and each step that writes has a lemma of its own. `OneWriter` holds without exceptions.

*Previews.* `RecordedKnown` is the argument for `ServesRecorded`: the file is written before
the row, so what is newer than the record belongs to the deployment that is writing it down,
which has the turn (`TurnIsHeld`), and requests only ask for numbers that were recorded
(`VisitorsFollow`). It speaks of the time until a commit fails; what follows then is
`PreviewCrash`. `StampsKnown` is why a deployment never takes another's build for its own.
`LatestStays` follows from `TurnIsHeld`, with crashes and failures: a deployment only writes
itself down while its number is beyond the recorded one.

*BuildAgent.* The agent asks for the newest job of a lambda alone, so `OneChange` rests on
`KnownIsLatest`: of the jobs it knows, only the newest of a lambda may be under way.
`LaneBusy` ties the flag of a lane to the one job that runs in it, `QueueWaits` says that who
waits, waits once and has not begun - otherwise a stop or a start would touch a job that runs.
`AllCounted`: what was taken today and what is on its way to the agent were counted,
and counted while there was something left. From it `AllowanceKept`; `forgiven` is what refunds add
to it for jobs that were taken all the same, or spent the day before, and what the server forgot
as it started again (`BuildAllowance.cs`: "a restart forgives everybody").

*CodeEditing.* A save under way may be answered after anything: so `SentIsKept` says that what
it became, once the server has it, is what it sent, and `ShownIsSeen` that what it builds on, what
it sends and what is in the editor were all shown here. With `SavedIsHeld` this is
inductive (`CodeInv`): the server only appends, and everything read is one of what it has. A
save that is answered with a newer number than it became makes `unread` true until the next
read or save, and a save made from there says so (`sent.unread`).
`SavesReplaceNothingUnseen` follows in one step, since a feature's save is accepted only if it builds
on the newest.

*ControlCenter.* `ReadsInOrder`: the reads that may still be applied are in the order in which
they were issued, each brings a part at least as new as it was then, and none was issued before
what is known. Applying one drops those before it, which is what keeps this. Three lemmas
say what issuing, giving up and applying a read does to the order of those that are left.

*AgentWatch.* A change goes through numbered stages (`Stage`): the first runs, it ended, the next
runs. `EndsKnown`: from what the page knows, over the answers on their way in their order, to what
the server has, the stages never go back, and an end that was said is one the page knows. It
holds until an answer overtakes another; answers that do are part of the model, and the
theorem assumes nothing of them. `OneAnswerEach` keeps a request from having two answers: what is under
way of a kind is asked, or answered, once, and an answer nobody hears any more is gone.

*LogFollowing.* `QuestionKept` is all `OwnerOneQuestion` needs: the section of the owner hears no answer
to a question it no longer asks. `OwnerSeesAll` is not inductive, since several polls are under way
and any may be answered next. `LinesKnown` says what each of them may rely on: there is a
first cursor such that everything from it on, up to the cursor the page has now and up to each one
a poll under way was asked with, is shown or was let go (`KnowsFrom`); and an answer tells all that
came between the cursor it was asked with and its own (`Tells`). Whichever is taken, the two meet.
The lemmas below are about the ring: the numbers of an answer, in order, are those that matched
and fit (`InOrderOfAll`, `ReadTells`), and what is no longer held was let go (`HeldLines`). The argument showed
that the property as first written was too strong: with a page that holds few lines, an answer out of
order takes the cursor back and pushes newer lines out; `dropped` says so.

*LineDiff.* The invariant is short (`DiffInv`: what is shown is what `FileDiff` gives); the work is in
what the algorithm gives for every two files. The table, the walk and the hunks are recursive functions.
`RecursionIsSound` says that a definition which only looks at places of a lower rank has a function that
agrees with it everywhere, so each may be used as its equation reads (`TableIs`, `WalksIsWalk`,
`GroupedIsGrouped`); what they compute follows by taking the place nearest the end, or the first line,
where it is not so, instead of by an induction rule.
For `LeastChanged`, what two stretches share is a matching: a set of pairs of places with equal lines
that do not cross. `Largest` is the size of the largest one; `LargestWithPair` and `LargestWithoutOne` show
that it obeys the equation of the table (`TableIsLargest`), `EndsAreShared` that setting the ends aside
first loses nothing, and `LongestIsLargest` that it is what `LongestShared` finds by enumeration. That files are the
same exactly when their lines are, however these end, rests on `BinaryIsItsLines` for those that are not lines. That the lines
shown read as either version (`SaysBoth`) holds of the shared ends, of each step of the walk, and of
lines put one after another; the walk keeps as many as its table promises (`WalkTells`).
For `HunksTell`, `Follows` says line by line what the grouping has: hunks that are exactly the stretches near
the changes so far, with none open (`ClosedBy`), or with one open that began where it had to, and as many
quiet lines as came since the last change (`OpenBy`). At the end that is what the property says, because only one
sequence of the numbers of a set goes up (`OrderIsUnique`).

*Only model-checked:* liveness - `TurnGivenBack`, `RequestsAnswered`, `SpinnerStopsPolled`,
`FollowersCatchUp`, `FeatureCatchesUp`, `ShownCatchesUp`, `WorkingEnds` - which is out of the
reach of the prover, as is ENABLED. Every invariant and action property of a passing run, and the
refinement, is a theorem.

## 5. Where the code differs from what it says

Kept as runs, with what the code or a comment says quoted in `PROJECT.json`:
`MetaRemoval`, `PreviewCrash`, `FeaturePush`, `AgentStop`.

Stated in the modules, under "What the code says of itself and does not keep", and not
kept as runs because each is close to one that is:

- `MetaService`: `OpenMeansOnline` (a sweep that commits after a deployment leaves its
  stretch open), `BasesKept` (a save prunes a version while a feature is based on it without
  the lambda's turn). Not among them, but in the exception of `OnlineVersionKept`: a save that fails as it
  prunes leaves rows without code in a server that goes on, and one of them can be put online.
- `ResolutionCache`: `NothingStaleKept` (the save of a single row is counted before it commits and
  not again, so what was read in between stays current until the next write).
- `Serving`: `ServedWasOnline` (a request is answered by a version that is compiled to be
  deployed and then refused), `RemovalForgetsBuild`, `StartedWithData` (eviction does not reach a
  build under way).
- `Previews`: `PreviewResources`, `RemovalForgetsPreview`, `StartedWithCopy` - the same for previews.
- `FeatureService`: `CreationKeepsWork` (a creation that is taken back takes what others saved in
  it meanwhile), `StartedHasFiles` (the sweep reads the rows before it lists the folders, and
  removes that of a feature started in between).
- `BuildAgent`: `OneAgent` (after an hour, or a restart, a second container may work on a
  lambda), `CostsNothing` (calls that were refused count too, so a refund gives back less).
  That a restart gives everybody the day again is what the code says of itself, and is in `AllowanceKept`.
- `AgentWatch`: `SpinnerStops` (the answer of a stop may show a change as running after the
  polling saw its end and rests; `agent.ts` begins a round after a start only).
  `EndSaidOnceAlways` ("said once"): a slow answer of one request brings a change back that
  the answer of another had shown as ended, and it ends twice.
- `LogFollowing`: `OneQuestion` for the operator's page, whose poll of the filter before may arrive after the
  filter changed. The owner's page has holes it says nothing of in the three
  cases `OwnerSeesAll` names.
- `LineDiff`: files that differ in nothing but how their lines end are shown as the same, and
  `LeastChanged` says so; for binary files what is compared is the whole of it.
- `CodeEditing`: `SavesBuildOnAlways` (the answer to a save is the feature as it is once its
  preview was compiled; a save by others in between passes for the page's own, and the next
  one replaces it unseen - found with three edits and four saves), `UnsavedKept` (what was typed since a read began, or while a save was under way, is
  replaced by what arrives; what was typed during an upload by its end).
- `ControlCenter`: the answer of an action is shown whichever reads are under way, so it may be older than
  what a read brought; `NothingBroughtBack` speaks of reads alone.
- `BuildPage`: `OwnOutcome` (a late poll of the build before is heard as one of the new build, and
  ends its interval). A build the agent no longer knows is asked after for ever: `WorkingEnds`
  excepts it.

## 6. What is not modelled, and why

`PROJECT.json` lists every component with its status. In short: what the compiler does with
a program, and what a model in a container does with a prompt, are outcomes
here. Caches of derived state (published source, version facts), lossy
figures (telemetry, log book) and values an administrator sets (limits, settings) are left
out: nothing that is checked depends on them. Renaming, notes, events, the showcase and
demos are written beside what is modelled and decide nothing. Pushes that start or delete
a branch are started and deleted features to the model. Disk and database never lie: a
write that returned is there after a crash, and one `SaveChanges` is atomic.

Of the front end, the pages modelled are those that keep something over several answers.
The others show one answer: their code is layout, wording and drawing. More than half of the
JavaScript and TypeScript of the repository is text in other languages and its checks
(`src/Frontend/src/locales`, `scripts/translations.mjs`, `brand`), so no honest model covers a
third of its lines. `Frontend/control/ContextTab.tsx` writes the context of a lambda as the code
section writes code, with less under way at once, and is left to that. In the pages modelled,
left out are the completions, the dialogs, the list of files, the address bar, the budget of text and
the folding of repeats in the log, and the milestones of a change.

Noted while reading, and neither checked nor among the hazards: a failure may be remembered in `_broken` after somebody else built the same version
(`DeploymentService.cs:309`); packed source may be moved into place after it was removed
(`SourceCache.cs:160`); analytics are forgotten and switched on in two steps
(`AnalyticsService.cs:64`). That a statement with RETURNING commits as its reader is finished, not as
it is opened, is SQLite's doing and external to the repository; `SaveRow` rests on it.

Further hazards the listed ones are close to, in parts that are not modelled: a request that
timed out gives its slot back while it still runs (`ThrottleConcern.cs:65`); buckets of
clients are dropped and found again (`LambdaRateLimiter.cs`); a build that read the data before a
switch is published after the eviction (`DataService.cs:218`, stated as `StartedWithData`); two
writers of one run log; the index of git commits read while the lambda changes
(`GitHistory.cs`).

## 7. What could follow

Versions, serving, previews, the cache, features and the build agent have models and
proofs, the pages models and all but the build page proofs. Worth adding, in this order:

1. `GitHistory`: commits made of versions and features, the index, collection; that a tip never
   loses what a client may build on, that a crash between saving a pushed version and keeping
   its commit costs no more than a refused push; composed with `VersionStore` in place of `MetaService`.
2. `Admission`: slots and budgets; what does hold of both (slots never lost, never more than
   twice the limit in a second).
3. `DataVaults`: snapshots by generation for secrets and databases - the scheme of
   `ResolutionCache`, shown once more against a file that is deleted in between.
4. An abstract specification of a feature - a set of edits that goes into the versions once -
   that `FeatureService` implements.
