# poldek in TLA+

poldek resolves dependencies of RPM packages and drives rpm: it keeps indexes of
package repositories in a cache directory, loads them into one package set,
computes what has to be installed or removed, asks the user, and runs rpm. This
directory holds a model of the parts whose correctness is hardest to test, the
TLC configurations that check it on small instances, and TLAPS proofs of what
matters most for instances of every size.

Everything is translated from the C code at this commit; `PROJECT.json` maps
each definition to the lines it stands for. Containers of trurlib (`tn_array`,
`tn_hash`), librpm, and the file system are outside the repository and are
modelled by how the code uses them.

## The system

| Component | State | Operations | Interacts with |
|---|---|---|---|
| Uninstaller (`uninstall.c`) | `uctx->unpkgs`, marks by hand / by dependency (`ts->pms`), colours (`uctx->pms`), `rev_orphaned`, the C stack of two mutually recursive walks | resolve masks, `process_package`, `process_pkg_reqs`, `process_pkg_rev_orphans`, run rpm, `update_iinf` | database queries, ordering, rpm, interrupts |
| Database queries (`pm/pkgdb.c`, `pkg.c`) | rpm's database, opened and reopened | match a requirement, who requires a capability, is it required, who obsoletes whom, is it installed | every solver |
| Directory locks (`vfile/vflock.c`) | a lock file per directory, its `fcntl` lock, `struct vflock` | `vf_lockdir`, `vf_lock_mkdir`, `vf_lock_obtain`, `vf_lock_release` | fetching, cleaning, package download; other poldek processes |
| File transfer (`vfile/vfetch.c`, `vfreq.c`, `vfff/`, `fetch.c`) | a request with its descriptor and attempts, a pool of connections, the files of the cache | `vfile__vf_fetch`, `do_vfile_req`, `vf_stat`, `vhttp_vcn_retr`, `vftpcn_retr` | locks, servers, external programs |
| Install solver (`install3/`) | `inset`, `unset`, `processed` colours, errors, `ts->pms`, an `i3pkg` per active call | mark, process requirements / orphans / obsoletes / conflicts / suggestions, choose, backtrack, install | package set, database queries, ordering, rpm |
| Package ordering (`pkgset-order.c`) | colours, stack, ordered array | `visit_install_order`, `do_order` | both solvers |
| Package set (`pkgset*.c`, `capreqidx.c`, `fileindex.c`) | packages of all repositories, capability and file index, `reqpkgs`/`revreqpkgs` per package | load, merge, index, find providers, set up dependencies | install solver, ordering, verification |
| Verification (`pkgmark.c`, `cli/op_verify.c`) | marks | `packages_verify_dependecies`, `packages_iinf` | package set |
| Repositories (`pkgdir/`) | published index, digest, patches and their list (diff toc); the client's cached index and digest, `dirindex` and `stubindex` | make (mkidx), open, load, update by patches or whole, save, restore | fetching, locks |
| Sources (`pkgdir/source*.c`, `cli/op_source.c`) | configured repositories and groups of them, those asked for, their numbers and priorities | select, order, make unique, update, clean, make index | configuration, repositories |
| Parallel loading (`pkgset-load.c`, `thread.c`) | one thread per pndir repository, a global flag | load | repositories |
| Package download (`pkgfetch.c`) | files in the cache | `packages_fetch` | file transfer, signatures, transactions |
| Transactions (`poldek_ts.c`) | options, each with whether it was set by the user, type, argument packages, database handle | set and apply options, run, confirm | solvers, configuration |
| Distribution install/upgrade | as transactions | `install-dist`, `upgrade-dist` | solvers |
| Configuration (`conf.c`) | the files being read, sections and options of each | read, include, expand macros, merge, check | set-up, sources |
| Set-up (`lib_init.c`, `cli/main.c`, `cli/op*.c`) | command line, groups of options, cache directory, defaults | switch the user, parse, configure, set up, run what the groups ask for | all |
| Masks (`arg_packages.c`) | masks, lists, capabilities and what they came to | resolve, mark, clean | solvers |
| Shell (`cli/`) | aliases, the line at hand with its chain of commands and pipes; a view of the installed packages, the cache file of it, directory tree of packages | parse, expand, run; load, reload, commands, `poclidek_apply_iinf`, save | transactions, rpm, other sessions |
| Interrupts (`sigint/`) | one flag, stack of callbacks | reached, reset | polled by the walks |

What is hard in it:

* **Recursion with marks.** Both solvers walk graphs with cycles, skip what is
  marked, and rely on some active call further down to finish the rest.
* **Backtracking.** The install solver takes back a subtree of decisions, in
  place, in six data structures at once.
* **Several processes in one cache.** A lock is a file that is created, locked,
  unlocked and unlinked in separate system calls, by processes that may die.
* **rpm fails half-way**, the user interrupts, options gate the call of rpm.
* **Several copies of one truth.** What is installed is in rpm's database, in the
  view of each session, and in a cache file all sessions share; they are compared
  by times, and rpm, other programs, failures and interrupts come in between.
* **Files arrive in pieces**: attempts, redirects, resumed bodies and reused
  connections, while the server changes the file and another process fetches it.
* **Much is said in many places**: files that include files, options typed before
  and after the configuration is read, sources named, matched and numbered, words
  that come through a pipe; what wins is decided by the order of steps far apart.
* **Indexes are patched** while they are being published: several files are written
  one by one on one side and fetched one by one on the other, and a failing patch
  leads to the whole index.

`PROJECT.json` lists each hazard at its line with the property that covers it.

## Modules

| Module | Stands for |
|---|---|
| `PkgDB` | capability matching with epoch, version, release (`pkg.c`) and the queries of `pm/pkgdb.c`, over a database given as a record |
| `RemovalPlan` | abstract: what the uninstaller promises about the set it removes |
| `Uninstall` | `uninstall.c`, detailed; implements `RemovalPlan` |
| `UninstallProofs` | theorems about `Uninstall` |
| `DirLock` | `vflock.c` with its callers in `vfetch.c` and `do_cachedir_clean` |
| `DirLockProofs` | theorems about `DirLock` |
| `Install` | `install3/` |
| `InstallProofs` | theorems about `Install` |
| `Order` | `pkgset-order.c` and the lists of required packages of `pkgset-dep.c` |
| `OrderProofs` | theorems about `Order` |
| `PndirUpdate` | publication of a pndir index and its update in a client's cache (`pkgdir/pndir/`, `pkgdir/pkgdir.c`, `pkgdir/pkgdir_patch.c`) |
| `PndirProofs` | theorems about `PndirUpdate` and `DirIndex` |
| `DirIndex` | the index of directories beside a cached index, shared by processes (`pkgdir/pkgdir_dirindex.c`, `pkgfl.c`) |
| `Store` | a package as it is written into a pndir index and read from it (`pkgdir/pkg_store.c`, `pkg_restore.c`, `capreq.c`, `pkgfl.c`) |
| `Transfer` | fetching of packages into the cache: `pkgfetch.c`, `vfile/vfetch.c`, `vfreq.c`, `vfff/` |
| `TransferProofs` | theorems about `Transfer` |
| `Session` | sessions of the shell: `cli/cli.c`, `cli/dbcache.c` over loading, transactions and rpm |
| `SessionProofs` | theorems about `Session` |
| `PkgIndex` | how a package set is sorted and made unique, and its indexes (`pkgcmp.c`, `pkguniq.c`, `capreqidx.c`, `fileindex.c`) |
| `PkgSet` | loading the set of available packages, resolving arguments, marking with dependencies, `--verify` and `--install-dist` |
| `Repository` | a directory of packages that plays the database of installed ones (`pm/pset/pset.c`) over `PkgIndex`, and the making of its index (`source_mkidx.c`, `dir/dir.c`) |
| `RepositoryProofs` | theorems about `Repository` |
| `Conf` | reading of a configuration (`conf.c`) |
| `Options` | the options of a transaction and what touches them (`poldek_ts.c`, `lib_init.c`), as operators |
| `Sources` | which sources are used and in which order (`lib_init.c`, `pkgdir/source.c`), as operators over what `Conf` loads |
| `ArgPackages` | what masks, capabilities and lists come to (`arg_packages.c`), as operators |
| `Setup` | from `main` to the shell (`cli/main.c`, `cli/op*.c`, `cli/install.c`, `cli/uninstall.c`, `lib_init.c`); composes the four above |
| `Shell` | lines of commands, pipes and aliases (`cli/cmd_chain.c`, `cmd_pipe.c`, `alias.c`, `cli.c`, `shell.c`), over `Setup` |
| `MCUninstall`, `MCDirLock`, `MCInstall`, `MCOrder`, `MCPndirUpdate`, `MCDirIndex`, `MCStore`, `MCTransfer`, `MCSession`, `MCPkgSet`, `MCRepository`, `MCShell` | instances for TLC |

**Uninstall.** `phase` is where `do_poldek_ts_uninstall` is; `stack` is the C
stack. A `PackageCall` is a `process_package` with the `process_pkg_reqs` of the
orphan it is visiting, a `RevOrphansCall` a `process_pkg_rev_orphans`. Each
action is what the code does between two visits of a requirement or a package:
`GetOrphaned`, `SpareOrphan` or `MarkOrphan` (which pushes a call), and so on up
to `Uninstalled`, `UninstallFails(gone)` and `Verify`. `Interrupt` sets the flag
of `sigint.c` between any two of them. The order in which the code enumerates
packages and requirements depends on hashes and rpm's database, so it is left
open.

**DirLock.** Every system call of `vf_lock_mkdir`, `vf_lockfile` and
`vf_lock_release` is an action, because everything that can go wrong happens
between two of them. A lock belongs to a pair (process, inode), as POSIX says:
closing any descriptor of the inode drops it. `entry[d]` is the name in the
directory; an inode is reused once no name and no descriptor refers to it.
`Fetch` is `vf_fetch`, which may call itself for a redirect and then locks the
directory it already holds; `Clean` is `do_cachedir_clean`. The pid written into
the lock file is read by nobody (`vf_readlockfile` is compiled out) and left out.
`left[p]` are files that `p` keeps open with no `struct vflock` to release them by:
`OpendirFails` is the return of `do_cachedir_clean` that forgets `vf_lock_release`
(`vfile.c:88-91`). They stay locked until the process ends (`Crash`, or `Exit` when it
has nothing more to do).

**Install.** One record of `stack` per active `do_process_package`; its `marked`
and `obsoleted` are what `i3pkg` remembers for a rollback. `Retry` is the loop of
`i3_process_pkg_requirements`, `Rollback` is `rollback_package` with its
consequences on `inset`, `unset`, colours and errors; `NoRollback` is its early
return for packages marked by hand and, if such a package was to be rolled back,
the failing assertion (`phase = "crashed"`). Scores that choose among candidates
are abstracted: any candidate the trimming leaves may be best. A choice of the
user (`opts.ask`) may be any candidate left. When the requirements are done,
`BeginConflicts` reports the conflicts of the package with others of the set
(`i3_process_pkg_conflicts`); then `LookUpCap` asks the database which installed
packages conflict with its capabilities and `LookUpCnfl` which have what it
conflicts with. Each pair found is a `resolve_conflict`: `MarkForConflict` marks a
newer package of the name, a provider of the opposite that obsoletes it, or whoever
else obsoletes it, and processes it in a frame above; `ConflictResolved` finds such
a one in the set; otherwise it is an error. `NothingToFree` is a call of
`n_array_free` with `NULL` when no package of the name is on offer
(`conflicts.c:47`): trurlib is not in the tree, so the model allows that it fails and
that it does not. `NameRank` orders names, because an obsoleting package counts only
if its name comes after (`conflicts.c:81`, "bug propably").

**Order.** `pass` is which of the two calls of `do_order` runs; `stack` is the C
stack of `visit_install_order`, one record per call. While a call has `reqs` it is
inside `process_reqs`: `ProcessReq` asks the cache or the package set and merges
the answer into `list` (`Merged` is `add_reqpkg` with `process_req`); `Listed` is
the return of `pkgset_get_required_packages`. Then one of `SkipRequired`,
`VisitRequired`, `LeaveRequired` and `CloseCycle` happens for each required
package, and `PackageOrdered` returns. `Preordered` starts the second walk over
the result of the first; `Ordered` ends it, with the reversal of
`reorder_packages`. A requirement is a key, the text the cache uses, with its
pre-requirement flags; who satisfies it is part of the repository. The lists are
arrays sorted by package id, and among entries with the same first package a
binary search finds any: the order of the visits and the entry found are left
open. `pkg_set_prereqed` is the set `prereqed`; it outlives the walk that set it.

**PndirUpdate.** Two actors that share files and nothing else. The *repository*
is a `mkidx` that writes the index (`StartMkidx`, `WriteIndex`), the digest
(`WriteDigest`) and, unless it was told not to or could not read the old index,
the patch and its line in the toc (`WriteDiff`, with the dropping of old lines by
`pndir_difftoc_vaccum`). It may die between any two (`MkidxDies`). The *client*
is one poldek command: `command` is what was asked, `pc` where it is. Opening an
index is the same code for six callers, so `opening` says for whom it is opened
and with which flags: `OpenDigest` and `OpenIndex` are `pndir_open_verify`,
`Opened` and `OpenFails` what the caller does next, and `Reopen` the recursion
after a broken cached index. `Compare` and `CompareA` are `is_uptodate` in
`pndir_m_update` and `pndir_m_update_a`; `ApplyPatch` is one turn of the loop over
the toc with `pkgdir_patch`; `PatchesApplied` is what follows the loop, up to
the comparison of digests; `RemoveIndex`, `SaveIndex` and `SaveDigest` are
`pkgdir_save`. `Die` may happen anywhere and breaks the file in hand. `published`,
`seen` and `coherent` are history: what was ever published, what the repository
showed while the command ran, and whether it began with the digest of its index.
`autoupa` is an option of the source and left open in `Desynchronized`.

**DirIndex.** `source` is what is published, with the time of it and the packages
that are kept of it, `file` the index file, which is being written (`by`), left
half-written or whole, `lock` that of its directory (as `DirLock` says when it works
alone). `task[p]` follows `open_dirindex`: `OpenDirIndex` looks for the file;
`BrokenFound`, `StillOutdated`, `Outdated` and `UpToDate` are `load_dirindex` with the
digest, the numbers of the packages and `update_pkgdir_packages`; `then` says why the
index is made, because of which the code looks at what is missing, gives up or tries
again (`GaveUp`). `CreateBegins`, `CreateFails` and `CreateEnds` are
`dirindex_create`, with the lock and with what it takes from the previous index
(`Stored`, `Made`). Neither opening nor unlinking takes the lock, so they may come
between the beginning and the end. `Load` and `Update` are the two callers, `Clean` is
`source_clean`. tndb is external: an index that is still written, or was never
finished, has a wrong digest, and who has opened one keeps what it has.
`unread`, of an index, and `alone`, of a task, are history: whose file list could not
be read when it was first stored, and whether another process was at the index.

**Store.** `pkg` is the package and `opts` how it is stored and loaded; `text` is the
record, a block after the other, as `pkg_store` writes it and `pkg_restore_st` reads
it. `StoreArray`, `StoreCap`, `Continue`, `RollBack` and `ArrayStored` are
`store_capreq_array` with `capreq_arr_store`; `Stored` is `capreq_store` with the
cutting of a long name (`split_capreq`). `RestoreArray` finds which array a block
belongs to (`restore_cont`), `RestoreCap`, `RestorePart` and `PartsRestored` are
`capreq_arr_restore` with `restore_parts`. `StoreFiles` divides the list of files,
`RestoreDepFiles` and `RestoreFiles` read of it what the loading asks for, and
`GetFiles` is who wants the whole list later. A name is a sequence of places, because
what counts is that each comes back once and in order; a version is its length.

**Transfer.** A process has a list of packages to fetch. `task` is where
`packages_fetch` is (which files it has checked, `urls` still to fetch from each site), `req` the
`struct vf_request` with its descriptor, `conn` the pool of connections, `dir` the
files in the cache, `server` what a site publishes. `CheckCached` and `Discard` are
the look at the cache before anything is fetched; `Open`, `UpToDate`,
`StatRedirected` and `StartAfresh` are `vf_stat` and the decision whether to
resume; `Asks`, `Reuse` and `Connect` get a connection; then comes the
conversation: `HttpBody`, `RangeRefused`, `HttpError`, `Redirected` and `Fails`, or
`FtpAsk`, `FtpAnswer` and `FtpError`; `Receive`, `EndOfBody` and `BreaksOff` are
`vfff_transfer_file`; `AttemptFails`, `GivesUp` and `Stopped` the loop of
`do_vfile_req`; `Verify` is the digest at the end. `Client` is an external program,
which may leave anything. Outside the processes, a site publishes another version
or withdraws one (`Publish`), the user interrupts, a process dies. A file is a
sequence of parts, each of some version and at some place, so that a body put in
the wrong place, or after a part of another version, can be told from a whole file.
`disturbed` is history: packages whose file another process took away or wrote on
after this one had verified it.

**Session.** `db` and `dbtime` are rpm's database and its mtime, `view[s]` is
`cctx->dbpkgdir`, `touched[s]` `cctx->ts_dbpkgdir`, `cache` the file
`packages.rpmdbcache`, `task[s]` the command in progress. `Load` is
`load_installed_pkgdir`; it leads to the cache (`OpenCache`, `BrokenCache`) or to
rpm (`Stamp` reads the mtime, `ReadDb` the packages, `OpenFails`). A command that
installs goes through `Mark` (`i3_pre_ts_install`), `Plan` (one particle or
everything, with what it replaces), `Confirmed` or `Declined`, rpm (`RpmInstalls`,
`RpmFails` with any part of the work done, `OldErased` and `OldNotErased` for a
package with several instances) and `VerifyInstall`; one that uninstalls through
`Resolve`, `RpmErases`, `EraseFails` and `VerifyErase`. `Apply` is
`poclidek_apply_iinf`. `Quit` saves: `NotSaved` and `Save` are the comparisons of
times, `Create`, `Close`, `Mtime` and `Utime` the steps of writing the file, which
two sessions may take at once. `OutsideChange` is any other program that runs rpm.
The ways in which the code lets a view go wrong are named in `doubts`, which the
model keeps as history and the properties except: *changed* (somebody else ran
rpm after the view was loaded), *touched* (the session then set its own time over
that change, by a transaction or by a reload that failed), *late* (the change came
between the last comparison and the end of writing), *interrupted* (an interrupt
while the database was read leaves an empty view that counts as loaded),
*instances* (a transaction met several instances of a package).

**PkgSet.** A sequence of commands over one set, as in a shell: `Load` builds the
set from the sources that can be loaded, `Resolve` turns the arguments into hand
marks, and `VisitNext`, `SkipRequired`, `VisitRequired` and `LeaveVisited` are
`visit_mark_reqs` with its C stack. `Required` is `pkgset_get_required_packages`:
it asks the cache of answers first, which is kept for the life of the set, and
`Remember` keeps what was found; `Chosen` and `Drags` choose among
equivalents with trial runs (`pkgmark_pkg_drags`). `VerifyConflicts`,
`VerifyFileConflicts` (a directory at a time, in the order of a hash table),
`VerifyFileOrphans`, and `AskRequired`, `LookForPath` and `FollowPath`
(`is_required` with `is_path_to` and its cache of paths) are the reports of
`--verify`; `InstallNext` is one package of `--install-dist`. `indexed` says
whether the lazily built indexes exist.

**Repository.** `files` is the directory of the database, `repo` that of another
source, `index` the saved index of the first. A session's `task` has the list of
packages it has in memory (`dir`), the package set it searches (`ps`) with those
indexes it has made so far, the links it made (`ours`) and what it has to unlink and
copy (`removed`, `added`). `Open` loads; `SearchCaps` and `SearchReqs` make an index
when it is first needed; `Uninstall` and `Install` are one group of packages handed
to `pm_pset_packages_uninstall` and `_install`, which change set, indexes and lists
but no file; `InstallAsserts` is a failing assertion of `do_install`; `Commit`,
`Unlink`, `Copy` and `Save` are `pm_pset_tx_commit`, a file at a time; `Die` may
leave half of a file or of the index. `MkidxStarts`, `MkidxReads` and `MkidxWrites`
scan the directory, a file at a time, taking unchanged ones from the previous index.
`torn`, `touched` and `since` are history: packages whose file and entry are known
to differ, what a session has changed and not saved, and what others have changed
since it loaded.

**Conf.** `text` is what the files say, a line being a header of a section, an
option with its values, an inclusion or nonsense; `load` is a loading, with a stack
of the files that are open (`afile` and the recursion of `do_ldconf`). `ReadSection`
opens a section or goes on with it (`Reopens`), `ReadOption` is `add_param` with
aliases and lists, `ReadInclude` and `OpenIncluded` begin another file, for one
section only if the tag says so; at the end of a file `ExpandSection` replaces macros
(`expand_section_vars`) and checks, a section at a time, and `Merge` adds it to its
includer's. A value is either said or refers to a macro: only the two differ for the
properties.

**Setup.** `proc` is where the process is and which words are left, `srcopt`, `cmd`
and `ops` are the states of the groups of options, `ctx` is the library, `ran` what
has been run. `DoSu` and `Su` read the configuration on their own to find the user;
where `poldek_su` fails, the process exits (`BecomeUser`).
Then each word is a step of the group that knows it (`SourceByName`, `MainOption`,
`MajorMode`, `TransactionOption`, ...), `Parsed` checks that the modes agree,
`Peek` and `Configure` are the loading of the configuration with the lines of `-O`
and the two looks at the cache directory, `SetUp` is `poldek_setup` with the sources
(`Prepare` of `Sources`), and `RunSources` to `RunVerify` are the groups' `run`
functions in the order of `main`. A transaction is recorded with its type, options,
words and what they mark; one with a list of packages that cannot be read fails.

**Shell.** `known` are commands and aliases, `sh` is the line at hand: words, how
often it was expanded, the chain of commands and what is in the pipe. `ParseWords` is
one round of `prepare_cmdline`, `RunLine` divides the chain into pipelines, and each
command is a step (`List`, `RunExternal`, `InstallCommand`, `UninstallCommand`,
`OtherCommand`, `Quit`, `EmptyPipe`). The same line runs from the command line
(`StartBatch`), where all commands share one transaction, or in the shell
(`TypeLine`), where each has its own. `did` is what was run, with its words, what came
through the pipe, and the transaction as it was.

## Runs

| Run | Instance | Shows |
|---|---|---|
| `uninstall_walks` | 3 packages, every graph with up to two requirements each, versioned or with a common name provided by two, circles, self-requirements, directories; databases where providers lack the version or the release that is required; following, greedy up to depth 2, both kinds of test, no follow | `ReverseDepsFollowed`, `RemovalsJustified`, `RemovedIsGone`, `Terminates`; refinement of `RemovalPlan` |
| `dirlock_calls` | 2 processes, three calls between them, one death, failing `open`, `fcntl`, `mkdir` and `opendir` | `WorksAlone`, `OnlyOpendirLeaks`, `CallsEnd` |
| `install_solver` | 8 packages, three families of repositories and two single ones with packages that seem to replace an installed one, 5 sets of options, 6 requests | `HandMarkedStay`, `ObsoletesAreExact`, `NothingIsHidden`, `OrphansKeptWhole`, `Terminates` |
| `order_walks` | 3 packages, up to two requirements each on each other or on two capabilities that one, two or three of them provide, installed and removed, all or a part | `EveryPackageOnce`, `PrereqsFirst`, `LoopsAreReal` |
| `pndir_mixtures` | 2 packages, 3 versions, any number of commands and deaths | `CacheIsAuthentic`, `NoAssertionFails`, `UpdatedIsCurrent`, `CommandsEnd` |
| `dirindex_shared` | 2 processes, 3 loads or updates, a list of packages and another published after it, out of three with a rebuilt package, two keys alike and none at all, one file list that cannot be read; deaths, interrupts, cleaning | `AnswersAreRight`, `OpensFindIndex`, `OpensEnd` |
| `store_records` | packages with up to three requirements out of seven, short, versioned, split, too large, and one whose version leaves no room; 5 ways of storing and loading; at most 9 bytes for a capability, 24 for an array | `PackageComesBack`, `SizesFit` |
| `transfer_fetches` | 2 processes (one retries and is interrupted, one dies), one package of 3 versions with 3, 2 and 1 parts, HTTP, FTP and an external client | `FetchedAreThere`, `PartsInPlace`, `FetchesEnd` |
| `session_views` | 2 sessions (one changes things and is interrupted, one lists and dies), a package in 3 versions, an outside change, two commands | `ViewIsCurrent`, `CacheIsCurrent`, `NothingInvented` |
| `pkgset_marks` | 5 packages of 4 names; sets with alternatives, circles, self-requirements and unmet requirements, and sets that share files and directories; one or two commands | `UnmetIsKnown`, `MarksAreExact` (`MarkedAreRequired` and `MarkedIsClosed`), `FilesAnswered` |
| `repository_tx` | 2 sessions, or a session and mkidx; a package in two versions, one of them for two architectures, and another one; a replaced file, two groups of packages | `DamageIsKnown`, `SearchIsScan`, `SourcesIntact` |
| `shell_lines` | every configuration of up to three lines out of eight with two that it may include, and nine written to go wrong; some fifty command lines, some with lists of packages that are empty or cannot be read, over three larger configurations; thirty lines of commands, each as `--cmd` and `--shcmd`, and any two in the shell | `ConfAsWritten`, `SetUpAsAsked` (`SourcesAsAsked` and `TypedFirst`), `LinesAsTyped` (`OwnWords`, `AskedIsMarked` and `AllOrNothing`) |

The modules before `Conf` have a type invariant `TypeOK`; a theorem states it for
seven of them, and it is no property of its own in a run. The order
lists hold nothing that was not asked for (`NoInventedPrereqs`), which is proved.

**Bounds.** *Uninstall:* three packages are the least with a chain of two reverse
dependencies and an alternative provider; two versions separate who satisfies a
versioned requirement; in the promoted databases a provider without a release or a version, one
of another version, and a dependant that provides the name itself meet in one chain of
removals. *DirLock:* there are three inodes for the two names, so that one can be
unlinked and still open while another has its name; with a fourth the properties were
found to hold as well. One redirect is enough for a directory locked twice by one
process. Three calls are the least in which a process leaves a lock, calls again and
another one waits for it; `MaxCalls` and `MaxCrashes` bound history, not the protocol.
*Install:* the first family
has a requirement with two alternatives, one of which fails late, after it pulled
in and obsoleted other packages; the second has upgrades that orphan an installed
package which can be mended in several ways; the third has conflicts in the set, of
the new with the installed and the reverse, with and without versions, to be resolved
by each of the three kinds of replacement or by none. `SeemingDatabases` are the two
repositories in which the solver takes for a replacement who is none. In a family each package takes one
of the listed requirement sets; the families were reduced to those in which every
action happens. *Order:* three packages have circles of two and three, so a walk
can enter a circle anywhere and close one through a package that is no
prerequisite; two capabilities give lists with several entries for the same first
package, the case where merging matters; a pool without one of the packages has
required packages that are not to be ordered. *PndirUpdate:* three versions are
the least with a patch from the middle and a gap in the chain of patches; two
packages give versions that differ in either direction and come back to earlier
contents, which is what a digest cannot tell apart. `MaxTs` bounds only how often
something new is published; commands, failures and deaths are not bounded. Time
stamps of successive versions are taken to grow, which `pkgdir_save_as` enforces
when it compares with the old index, and which is left to the clock otherwise.
*DirIndex:* two processes can race in every way, each with the other's file, lock or
remains; the third load finds what they left; a second publication gives an index
made from that of an earlier list, in which packages have other numbers, are shadowed
by a rebuilt one or are not at all. The lists are few so that one run can check the
liveness too. *Store:* six bytes of nine
are no name, so names of three, five and nine letters take one, two and three parts and a
version takes a letter more of each; 24 bytes hold two short capabilities or one in two
parts, and none in three, so three requirements give two continuations, the case where
a continuation follows another, and one too large for any. `Max8` and `Max16` are 255
and 65535 in the code and play no other part.
*Transfer:* versions get shorter, so a partial file may be as long as, or longer
than, what the server has now; three parts are the least with a broken body in the
middle of which another can begin; two attempts give a resumed one; one package
has every interleaving of two processes over one file. The bound on redirects is
0 instead of 32: a process is redirected until the bound is met and once over it.
*Session:* three versions are the least with two older instances of what is
upgraded; two typed commands give load, transaction and save in one session or a
transaction of one between two commands of the other; `MaxTime` bounds changes
from outside and the passing of time without one, not those of transactions; the
database begins with one or two instances. The times of two changes are taken to
differ: rpm needs more than a second. *PkgSet:* of two versions of a name one is
in either source, so a source that fails changes who satisfies what; two
capabilities with up to two providers each give equivalents and trial runs; a
directory with two files is the least in which an entry is last; the second of
two commands finds the caches of the first. *Repository:* `MaxRuns` gives two
transactions that overlap in every way, or one and a scan; `MaxGroups` gives an
installation after a removal, as a multi-instance upgrade does, and the removal of
what was just installed; a group removes at most one package and brings in at most
one; one replaced file of the same time and size is what a scan cannot see.
*Shell:* three lines are the least with a section, an option and an inclusion in any
order, and with a section that is opened twice around another; `MaxDepth = 3` files
are open at a time, where the code has no bound (a file that includes itself fails
there as it does in the code at its limit of descriptors); two members and a pattern
make a group that is matched twice; `MaxLines = 2` lines in the shell are the least in
which one could leave something for the next, and `MaxExpansions = 4` alias expansions
of a line stand for an alias of itself, which the code expands for ever. There are four
packages of three names, one of them not installed.

**Conditions in the properties of Uninstall and DirLock.** `ReverseDepsFollowed`
counts a requirement as met by whatever `pkgdb_match_req` takes for it. `process_package`
passes `strict`, which is 1, where flags are expected (`uninstall.c:260`,
`pm/pkgdb.c:456`), and 1 is `POLDEK_MA_PROMOTE_VERSION` (`pkg.h:180`): a provider
without a version, or without a release, meets a versioned requirement, and the
dependant stays. `Broken` is thus what the code takes for broken; the strict reading,
that whoever stays keeps what it requires, is proved where nothing is provided less
precisely than it is required (`NothingStaysBroken` under `PreciseCaps`). It excepts
`SelfMatched`: a package that satisfies a removed capability itself is not asked what it
loses (`pm/pkgdb.c:632`), which matters when the capability is less precise than the
requirement it stood for. `OnlyOpendirLeaks` and `CallsEnd` except what a failed
`opendir` leaves: the lock stays as long as the process lives, and who wants the
directory waits that long (`Stuck`).

**Conditions in the properties of Install.** The properties hold under
conditions, and each condition is what the code needs:
`ReplacedAreRemoved` and `UnmetIsKnown` (half of `NothingIsHidden`) ask that nothing was given up
(`black = {}`) or that the user's packages are one group and orphan upgrades
bring none in early (`AskedApart`); otherwise a hand-marked package that failed
early keeps its mark without its consequences (the code marks the place, "have
inconsistency here", and asserts it away, `install3/process.c:189-192`). `OrphansKeptWhole` is about versioned requirements, because
`pkg_requires_cap` returns none for an unversioned requirement of a versioned
capability (`pkg.c:901-904`), and about runs without a rollback.
`NoConflictsInstalled`, the other half of `NothingIsHidden`, is about upgrades with
obsoletes, because a replacement is taken for a solution without a look at whether it
removes anything, and it leaves out conflicts whose opposite is in the set, which
`i3_find_req` takes for resolved (`conflicts.c:139`, `:159`).

Three of them have one named exception each, a case in which the code loses what the
property is about; the run reaches the last two by `SeemingDatabases`, the first in the
family of upgrades:

* `TakenByAnother`, of `UnmetIsKnown`: a requirement of a package of the set that an
  installed package met when it was looked at, and that another package of the set takes
  away afterwards. `i3_process_pkg_obsoletes` looks for what loses
  it among installed packages only (`obsoletes.c:74-107`), so it is lost without an
  error. Only a package that the requiring one does not itself replace counts.
* `SeemsToObsolete`, of `NoConflictsInstalled`: `resolve_conflict` takes for a replacement
  of an installed package one that obsoletes *any* of the capabilities with its name
  (`pkg_caps_obsoletes_pkg_caps`, `pkg.c:980-1024`), but what a package removes is looked
  up by the version of the installed one (`pkgdb_q_obsoletedby_pkg`). If the installed `o`
  has version 1 and provides `o = 2` as well, a package that obsoletes `o = 2` is
  installed, the conflict is taken for resolved, and `o` stays.
* `SeemsToSucceed`, of `OrphansKeptWhole`: `find_successor`
  (`install3/requirements.c:317-353`) takes for the upgrade of an orphan whoever provides
  or obsoletes its name, and the orphan is not looked at again. If the installed `u` needs
  `o = 1`, `o` is upgraded to 2 and nothing provides `o = 1`, a package that merely
  provides `u` is installed beside `u`, which stays and lacks `o = 1`, and no error is
  told.

**Fairness.** The solvers are one thread that runs until it returns: weak
fairness of `Step`; the user need not interrupt, so `Interrupt` has none. A
process inside a locking call always goes on (the sleep between two attempts
ends): weak fairness of `Advance(p)` for each process, none of new calls,
deaths and exits, for a shell may live for ever, so `CallsEnd` excepts waiting for a
lock that a living process has left. A poldek command goes on until it returns, as every fetch succeeds or
fails: weak fairness of `Step` in `PndirUpdate`, none of starting a command,
publishing or dying. The same goes for a process that fetches (`Step` of
`Transfer`: a server answers or times out), for one that opens an index of directories
(`IndexStep(p)` of `DirIndex`: who holds the lock ends its work or dies) and for a command of a session (`Step`
of `Session`: the user answers what is asked, and rpm ends; no property
of `Session` depends on it); nothing is assumed of
servers that publish, users who type, clocks and deaths. `CommandsEnd` thus says that no sequence of broken, missing
and changing files keeps an update opening, fetching and patching for ever.

## Findings

Three disagreements of the code with its own documentation, met while modelling. No
property of a run states what the text promises; the models do what the code does,
and the properties say what is left:

1. *Instances that were to be kept are removed.* `install3/obsoletes.c:279` says
   "when multiple instances are installed, obsolete only one and keep the rest
   installed". Of several installed versions an upgrade replaces the nearest one and
   keeps the others, but only when the set has no other package
   (`install3/install.c:182`, `OneOfSeveral` in `Session`); otherwise `rpm --upgrade`
   gets them all and removes every older instance.
2. *The configured user is not switched to.* `doc/manual.xml:926` says "Configured by
   runas option poldek will automatically switch to an ordinary user if detects being
   executed by root". `runas`, and its alias `run as`, are kept under `runas`, and
   `do_su` asks for `run_as`, which is only looked up as `run as`
   (`cli/main.c:624`, `DoSu` in `Setup`); root goes on as root.
3. *Whether a path belongs to a package is answered at random.*
   `pkgdir/pkgdir_dirindex.h:36` says "path belongs to pkg?".
   `pkgdir_dirindex_pkg_has_path` returns a variable that is set only when the package
   is among the owners of the path and never initialised
   (`pkgdir/pkgdir_dirindex.c:996`, `HasPath` in `DirIndex`); the install solver takes
   it for an answer (`install3/iset.c:202`). `AnswersAreRight` is about the owners.

Also met, without a text that promises the contrary, and therefore
named exceptions of properties instead of findings: answers are cached by the
text of a requirement, but a package that satisfies its own requirement caches an
empty answer for everybody (`pkgset-dep.c:206-229`), so a walk may miss what
others need (`AnsweredForOther` in `PkgSet`), and the order of a removal a
prerequisite (`PrereqsFirst` is about those that were found); in a list of required
packages the only one who satisfies a requirement may be hidden behind
equivalents for another (`Shadowed`); the last entry of a directory is compared
with no other (`fileindex.c:438`); a check of files before anything needed an
index, and an argument that only packages not asked for provide, dereference NULL
(`at = "crash"`); an interrupt while rpm's
database is read leaves an empty list of installed packages, which is saved when
the shell ends and believed until the database changes (`pkgdir.c:693` takes 0
packages for success); a reload that fails, or any transaction, sets the time of a
view over changes it has not seen, so that an outdated list may be saved as
current (`reload.c:46`, `cli.c:983`); a cache file left broken by a dying session
is never replaced until the database changes (`dbcache.c:290`); the release of a lock is not atomic: unlock first, unlink
after, so a second process may own the unlinked file and a third the new one, and
both work (`WorksAlone` says what is left, `vflock.c:129`); emptying the cache does
not release a lock when `opendir` fails (`vfile.c:88-91`), and who waits for it waits as
long as the process lives; the uninstaller takes a provider without a version for one of
the version required and leaves the dependant (`uninstall.c:260`), and does not ask one
that satisfies the removed capability itself (`pm/pkgdb.c:632`); the install solver does
not ask the packages it is about to install whether they lose what they were promised by
an installed one (`obsoletes.c:74`); with *auto
directory dependencies* a package that loses the owner of its directory is not
removed with it, because the capability of a removed path is built without
`CAPREQ_ISDIR` (`uninstall.c:104`); the commit of a package directory may stop
half-way with its index not saved, which `pkgdb_tx_commit` ignores, and from then on
a package whose file is gone can never be removed, because the unlink stops every
commit (`pset.c:678`); a package installed and replaced in one transaction is removed
from the repository it came from (`pset.c:629`); one that is reinstalled by force
keeps its old entry (`pset.c:589`); an upgrade of one of several instances in such a
database ends in an assertion; and a merged `mkidx` whose first source cannot be
loaded reports success (`source_mkidx.c:273`); a rollback of the install solver
forgets the error of a package on which one that stays depends, so an unmet
requirement may go unreported (`install3/process.c:68`; `UnmetIsKnown` is about packages that did
not fail); a conflict with a package that is marked after the one that has it was
processed is not seen, since each looks at its own conflicts once
(`install3/conflicts.c:338`); a rollback leaves the error of a conflict with a package
it unmarked; and a hand-marked package that fails at a crossroad skips its conflicts
(`process.c:121`); a
refresh that fails after it removed the cached digest leaves the old index, with which
the next update pairs the new digest, and finds that it is up to date
(`pndir/update.c:243`; `UpdatedIsCurrent` is about an update that begins with a digest
and an index that belong together); a package whose file list could not be read when an
index of directories was made has no directories in any later one
(`pkgdir_dirindex.c:215`, `Doubtful`); a capability larger than 64 KB takes those behind
it away, without a word (`pkg_store.c:170`, `Comes` in `Store`), and one whose version
leaves no room for a name is cut for ever (`capreq.c:512`, `pc = "stuck"`).

Of configuration, set-up and shell: `follow = no` alone changes nothing, because the
default of greedy turns follow on again; sections are merged in the order of a hash
and of a reversed list; `-O cachedir=` loses to the file's, and of two `--cachedir` the
transaction has the second and vfile the first (`TypedFirst` says which is used); a
failed load of the configuration goes unnoticed when there are lines of `-O`; a
grouped section without a name, and a destination group of two members with equal
numbers, fail an assertion; `-P` after `-s PATH` without a type compares NULL
(`at = "dead"`); a `source =` of `[global]` loses its priority; the automatic name of
a nameless source depends on how many are taken. Two differing modes are accepted
(`cli/op.c:58-93`), so that `-e a --verify` runs the transaction twice. In batch mode
the commands of a line share one transaction: words and options accumulate and the
first type stays, so that `install a; uninstall b` installs both, which is why
`OwnWords` is about the shell. An alias that takes parameters is expanded without what
is typed beyond them; one whose line ends with a pipe leaves a pipeline without a
command (`sh.at = "dead"`). Of the masks: the capability and the pattern of a default
of a list are swapped (`arg_packages.c:635`), optional members never match on the
command line, a capability asked for where no mask was resolved before is looked up in a
table that was never made (`arg_packages.c:631`, `AsksNoTable`), a list that cannot be
read fails the first transaction with it while the next one of the same transaction goes
on with what was read (`arg_packages.c:387`), and `--caplookup` of what is already installed runs with no arguments.

## Proofs

`UninstallProofs` proves, for all databases, packages and options:

* `TypesCorrect`, `RemovedAreGone`, `TestIsHarmless` (a test removes nothing),
  `RemovalsAreJustified` without further assumptions;
* `ReverseDependenciesFollowed` and `ImplementsRemovalPlan` under `DistinctIds`, that
  no two installed packages share an id, which is necessary: without multilib the id
  leaves out the architecture and the marks of two packages are one;
* `NothingStaysBroken`, the same without the exception of `SelfMatched`, where also
  nothing is provided less precisely than it is required (`PreciseCaps`).

The argument: `ReverseDepsFollowed` speaks about the end of the walk and is far
from inductive. `FollowInv` says at every moment that each requirement already
broken is *covered*: some active call will still get to it, either because it
has its package among the orphans it has to visit, or because it has yet to ask
who depends on the provider, which may be anything that was taken for one
(`TakenFor`). It needs `MarksInv` (the three sets of marks and
`unpkgs` agree), which needs `DistinctIds`. That `get_orphanedby_pkg` finds
everybody who may lose something and is not self matched is `OrphansFound`. That with
precise providers nobody who is self matched loses anything (`NothingSelfMatched`) is a
fact about strict matching (`SelfMatch`): if a package satisfies a capability read as a
requirement, it satisfies every requirement that capability satisfies. `Idle` says what holds outside the walk. When
the stack is empty nothing is covered, hence nothing is broken.

`DirLockProofs` proves `TypesCorrect`, `OnlyLeftLocksLeak` and `WorkersAreAlone`
for every number of processes, inodes, calls and deaths. Its invariant relates
the program counter to the locks held (`ShapeInv`, `FileInv`), says that an inode
serves one directory only (`OneDir`), and that whoever works relies on a lock it
owns (`OwnInv`); `OneDir` is what makes closing the parent's descriptor harmless
to the lock of the new directory.

`OrderProofs` proves, for every repository, pool and order of packages:
`TypesCorrect`; `PackagesComeOnce`; `PrerequisitesComeFirst`; `PrereqsAreAsked`;
`LoopsAreLoops`.
`ColorInv` ties the three colours to the stack (gray, each package once), the
result (black, each once) and what is left to start from (white), so that a walk
that is over has ordered everything. `PrereqInv` is about the second walk while
no loop has been counted: every call but the first was made for a prerequisite,
and the prerequisites a call has looked at are black or are the call above it.
The heart of it is `CloseCycle`: a prerequisite that is gray is further down the
stack, everything above it was reached as a prerequisite, and so the code counts
a loop. Hence a package turns black after its prerequisites, and reversing turns
"before" into "after". `AskedInv` says what the cache and the half-made lists
hold. `LoopsAreReal` says of a loop what can be said without a closure: a set of
packages each of which has another one as a prerequisite, which, being finite, holds
a loop. `LinkInv` has it that in the second walk each call is a prerequisite of the
one below it, by the lists that are cached, of which none is replaced while a walk
lasts; so the calls above a gray prerequisite are such a set. No assumption but the
types of the constants is needed.

`PndirProofs` proves, for every set of packages and every number of
versions: `TypeCorrect`, `CachedIsAuthentic`, `AssertionsHold`, `EndsUpToDate`.
`Steps` says what each point of a command has in hand (for instance that `dg` is
the cached digest until something is saved, and that a patched index is saved
only with the digest fetched from the repository); with `TypeOK` it is inductive.
`AInv` adds what is true of everything published: the index that can be read is
the latest version, each line of a toc leads to a published version and none was
published between its two ends (`Steady`), and the time stamp in hand is a
published one. So a line that is later than the index in hand cannot begin before
it, which is the second assertion of `pkgdir_patch`. `Current` follows the digest
that is compared: it is the cached index's if it was when the command began, and
everything fetched is in `seen`. No assumption is needed but that `None` and
`Broken` are no files.

It also proves `IndexTypesCorrect`, `AnswersRight` and `OpensFind` of `DirIndex`, for
every number of processes, packages and publications. `Right` says of an index by
itself that what it has of a package is what the files of the package say, or nothing
if they could not be read, and that its two directions agree; `FileInv` says it of the
file, whole or not, `TaskOK` of what a process has in hand, with which packages an open
index must have. That making an index keeps this, though it takes from the previous
one what that knows and numbers the packages anew (`Made`), rests on equal keys having
equal files, which is `KeysAssumption`. `Undisturbed` is for `OpensFindIndex`: of a
process that has been alone, nobody else is at work, and the file is what it wrote or
found. `MaxExists` finds the last package with a key, by the well-order of the numbers.

`SessionProofs` proves `TypesCorrect`, `NothingIsInvented`, `ViewsAreCurrent` and
`CachesAreCurrent` for every number of sessions, packages and commands. What has to be added to the types is what a task
has in hand (`TaskInv`): at each point of the saving there is a view and a file,
though other sessions unlink and rewrite it and some of them die; a time that was
read is not later than now; and packages noted as installed have been, which for
a failing rpm is what the look at the database gives, and for the two runs of rpm
on several instances what the first one left.

That views and the cache are current needs more (`Current`). `Agrees` says at each
point of a command by what the view and the database differ: by what has been noted
and not yet applied and, while rpm has half done its work, by some part of what is
planned, which the look at the database then finds. That it is found depends on
names (`NamesInv`): what is planned, done and left are of different names, one
package of each, and nothing goes but what is older than its replacement. A view
with nothing to doubt but a change by somebody else is right as long as its time
stamp is not older than the database (`Trusted`). For the file, `FileInv` says that
one with the wrong packages looks old and `Beside` that no session which is about to
stamp it will make it look young: whoever has come as far as `utime` with a time
that is not older than the database had a view that was right. It is assumed that
there are finitely many packages, whose versions are numbers.

`TransferProofs` proves `TypesCorrect`, `FetchedReally` and `PartsStayInPlace` for
every number of processes, files, versions and attempts, and for lists that name a
package twice. `Accounted` says that as long as no error was reported each wanted
package has still to be looked at, is in the hands of the transfer (`InHand`: to be
fetched or verified) or was verified, and then is whole unless somebody else took it
away; `TaskInv` and `ReqInv` keep what is fetched at the head of the array of its
site. `PartInv` counts: the versions of which a file in the making has parts, and
the attempts that are left, are together no more than the attempts there were,
because only an attempt can bring in another version. That `NoFile` is no file and
that there is one are the assumptions.

`InstallProofs` proves `TypesCorrect`, `HandMarkedStays`, `RemovalsAreExact`,
`NothingGetsHidden` and `OrphansStayWhole` for every family of databases, whatever the
packages require, obsolete and conflict with, every set of options and every request.
The invariants look at the stack of active calls as a path in the tree of choices.
`PathInv` says that a package in the making is in no list of what is to be rolled back
but those of its own call and the calls below; `HandInv` that what is marked by hand is
in no such list but its own, where `rollback_package` stops. `RemovalInv` is the one
that needed thought. That everything removed is replaced by somebody who stays is not
inductive: after a rollback, who is to say that the replacement was not rolled back too?
So it also says for each range of calls from the i-th to the j-th that whatever a
package marked in it would remove is either kept removed by someone outside (`Kept`) or
taken back by a call of the range (`Guarded`), which is what `obsoleted` of those calls
is for. It has to speak of all packages marked *at any time*, because `marked` of a call
keeps what was rolled back meanwhile. `ReplacedInv` is the converse: what is settled has
all it replaces removed, and goes with whoever takes that back. It needs `ApartInv`,
that under `AskedApart` only the first call is of a package marked by hand; without it a
hand-marked package stays after its replacements were taken back, which is the
inconsistency the code names.

`NothingGetsHidden` and `OrphansStayWhole` are about what is still open while calls are
on the stack. For each kind of obligation there is a predicate that says which call has
still to see to it: `Needs` (a requirement of the call's package), `Bears` and `Fears`
(a conflict of the package with what is installed, and the reverse), `Misses` (a
requirement of an orphan). `ReqGoes`, `CnflGoes` and `OrphanGoes` say that a step of the
call on top settles what it takes from its list or leaves it there; they are proved
action by action and once (`CallGoes`). The invariants then say that every obligation is
met, known as an error, or some call's (`UnmetInv`, `ClashInv`, `OrphanInv`). For
requirements that is not inductive: a rollback takes away from the set whoever met one.
So `UnmetInv` says it on `Levels`: what would stand if all calls from the i-th on were
rolled back (`Stands`) has its requirements met by what would stand too, or by an error
that a rollback does not forget, or the call below the i-th waits for it (`Awaits`) and
fails when it is rolled back, which is why the code returns -1. `BottomInv` has what
this rests on: the first call is of a hand-marked package, so something is left to
return to; an upgrade installs nothing that is installed, so the errors that are
forgotten with what was obsoleted are not of a package in the set; what is begun with is
in the set.

One assumption was found by these proofs, that the name of a package has a version
(`SelfCapAssumption`), which holds of every package the readers make. `SeemsToObsolete`
and `SeemsToSucceed` were found by them too: without these exceptions `ClashInv` and
`OrphanInv` are not kept where a package is chosen by one test and removes by another.
No hypothesis about the repository is left in either theorem.

`RepositoryProofs` proves `DamagesAreKnown` and `SourcesStayIntact` for every number of
sessions, packages, builds and transactions, whatever the packages hold and require.
`Agrees` says, for a session and a package nobody else has touched since it loaded, how
the list in memory, the file and what is left of the commit fit together: what is
still to be copied is listed as the source has it, unless the source has lost it or
will have before, and then the commit stops; what is still to be unlinked is not listed;
and what is done is listed as it lies there. `Told` says that a session at work has
been told of everything the others have changed and not saved, which is what makes
an entry that one of them corrects safe to trust for the next. `ScanInv` is the same for
a scan. What goes into and out of the package set and its indexes matters for none of this:
those are folds, of which nothing is used but that they change no other part of a
session. It is assumed that what the directories hold at first can be read.

`SearchesAreScans` is about those folds. Each adds a package to an index, or takes it
out, one name or path after the other, in an order that is chosen. Induction over
data cannot be had from the library, whose theorems take an operator, but for a
*set* `T` of the subsets that do what they should it is an argument by a smallest
counterexample, and the well-order of the numbers gives that (`SubsetInduction`,
`NumberInduction`). With it a recursive function over the subsets of a finite set exists
(`SubsetRecursion`), so that the one a fold chooses is one, and what holds of the empty
set and is kept with each element holds of what the fold leaves (`FoldIsRight`).
`OneEach` says that the entries of a name are the packages that have it, each once
(`Entries` of a whole index); the lemmas from `AppendOne` to `EntryRemoved` say what
one step of an update does to them, those from `CapsIndexed` to `FilesUnindexed` what
the update for a package does, `AllCapsIndexed` and its likes what indexing of a whole
set does. Removal goes by name and version, not by identity, so it is right only as
long as no two packages of a set agree in both (`Apart`), which is why the invariant
`SearchInv` speaks of all a session has met (`Known`): what it removed may come back.
That the sorted list has each package once (`SortedIs`) needs the order to be total.
The assumptions are `SetAssumption`, that packages, capabilities and files are finitely
many and are typed, and that two names have two places in the order of `strcmp`.

Model-checked only: termination and liveness (`Terminates`, `CallsEnd`,
`CommandsEnd`, `FetchesEnd`, `OpensEnd`), which are out of TLAPS's reach;
`PkgSet`, `Conf`, `Setup`, `Shell` and `Store`, whose results are made by folds over
whole inputs, each of which would need an argument of its own as `SearchesAreScans`
has.

## Not modelled

Suggestions, rich dependencies, multilib, downgrade, reinstall, force and `--mercy`,
held packages and several instances of a name are left out of `Install`. `Repository` is
of a poldek without multilib, too: with it, packages that differ in their architecture
only are told apart (`pkgcmp.c:190`), which `AddToSet` does not do. The
transfer itself is left out of `DirLock` and the overlap of locks out of `Transfer`,
which has proxies, authentication, progress and listings left out too. `Session`
leaves out `--skip-installed`, other transactions than install, upgrade and
uninstall, and keeps no directory tree apart from the view. `Order` leaves out requirements on
`rpmlib`. `PkgSet` leaves out the
order in which `--install-dist` installs (that is `Order`), suggestions, and the
index of directories. `Repository` leaves out a database of several sources,
the merging of sources into one index, and what `--nodesc` and its like leave out of
it. `Conf` leaves out quoting and escapes and
has a small table of options; `Setup` leaves out usage errors, help, options that are
only copied and `--skip-installed`; `Shell` leaves out the directory tree (`cd`,
`pwd`, names beginning with a directory), completion, history and the commands that
only read and print; `ArgPackages` leaves out package files and the syntax of
patterns. `PndirUpdate` leaves out
description files, languages, compression, patches kept in the cache, and the
stub index made when a command ends. `DirIndex` leaves out the link by which the index
of the installed packages is found, the reading of its whole content
(`verify_dirindex`, a test), and answers longer than 8192 bytes. `Store` leaves out
the texts of a record, what it does with a record broken on the way, which ends the
loading of it, and patches. See the plan for
what is to come. Left
out for good: formatting, logging,
terminal and listing commands, the bindings (data or output without control worth
checking), librpm and trurlib (not in the tree).

## Plan

1. `Uninstall` with `RemovalPlan` and proofs -- done
2. `DirLock` with proofs -- done
3. `Install` -- done with conflicts; next suggestions, several instances of a
   name
4. `Order` with proofs -- done
5. `PndirUpdate` with proofs -- done; next an abstract register of published
   versions that it implements
6. `DirIndex` with proofs and `Store` -- done; next the stub index
7. `Transfer` with proofs -- done; next its composition with `DirLock`
8. `Session` with proofs -- done; next the tree of packages
9. `PkgSet` and `Repository` over `PkgIndex`, the latter with proofs -- done; next rich dependencies as pure functions against their definition
10. `Conf`, `Options`, `Sources`, `ArgPackages`, `Setup`, `Shell` -- done; next a
    session whose commands are `Shell`'s, and theorems about the order of sources
11. Inductive invariants of `Install`'s rollback, of requirements, conflicts and
    orphans, with proofs -- done
