# melchior in TLA+

melchior lets the agents of one project find, start, stop, tell and ask each other, and asks
models of providers on their behalf. Nothing coordinates it: every session is a process of its
own (`melchior serve`), every call of a tool is another (`melchior tool`), every ask of a model a
third (`melchior ask`), and what they know of each other is a directory of sockets and small files
under the runtime directory. Files are made, locked, read and removed by path while other processes
do the same, any of them may be killed between two system calls, and names are used again. This
project models those protocols, checks them with TLC on small instances and proves the most
important of them with TLAPS.

Paths below are relative to `src/src`. `PROJECT.json` maps every definition to its lines.

## The system

| part | state it keeps | operations | what makes it correct |
|---|---|---|---|
| socket and lease (`places/locking.rs`, `serving/binding.rs`) | `<id>`, a socket; `<id>.lock`, flocked for life; a flock on the directory | bind, announce, release, sweep | one lease of a name, nobody takes the files of a living session, the files of a dead one go |
| directory (`directory.rs`) | `<id>.parent`, `.session`, `.role`, `.ui` | listing, sweeping, walking up and down | notes say what the launch said; every walk ends, also in a ring |
| claims (`directory/claims.rs`) | one file for each piece of work | take, let go, list and clear | one holder; the work of the dead is free again |
| kinship and reach (`policy.rs`, `kin.rs`) | nothing; read off the notes | may one tell, ask, stop another | the walls are the same from both sides, and those of the roster |
| adoption (`directory/pending.rs`, `main/adopting.rs`, `answering/taking.rs`) | `<id>.adopting`, a nonce, a secret handed over | ask, answer, hand over, withdraw | only who asked is adopted, no two adopt each other, a parent can stop its child |
| minting (`answering.rs`, `directory/reserved.rs`) | `<id>.reserved`, the secrets the loop keeps | mint, come up, release | no two children of one name, none refused without cause, the secret arrives |
| connection (`asking.rs`, `serving/talking.rs`) | a stream of frames | ask, answer, hang up, turn away | a caller gets the answer to its own call |
| inbox (`answering/keeping.rs`) | 50 messages in the loop's memory | tell, keep, consume, page | a message said to be taken is not lost unread |
| limits (`directory/sending.rs`, `answering/keeping.rs`) | `<id>.sent`; times in memory; a count in each handoff | allow, hear, hand on | no flood, no echo, no work that goes round for ever |
| spending (`mind/spending.rs`) | a ledger file for each run, its lock | charge, check, close | the ledger is the sum of the charges |
| credentials (`mind/provider/oauth`) | one file for all providers, a lock for each and one for the file | renew, sign in, sign out | a refresh token is kept, where one was given, and spent once; nothing another wrote is lost |
| an ask (`mind/provider/client.rs`, `mind/running.rs`) | the try in progress, what was told and spent | send, stream, retry, give up | the reader has one whole answer, all of the cost and one ending |
| events (`events/`) | a bounded queue, counts, a worker | emit, forward, finish | nothing goes missing without being counted |
| main loop, roster signals, watches (`main.rs`, `main/`, `directory/watches.rs`) | the peers as last seen; `<id>.watches` | look round, signal, watch | who waits for a session learns that it is lost |
| roles (`directory/roles.rs`, `answering/roles.rs`) | `<id>.role`; the name in the session's copy | launch, say, show | the last word stays, and nobody is listed for what another session of the name was |
| the tools (`verbs/`, `serving/callers.rs`) | none | send, assign, ask, stop, fan out, ... | only its own are stopped and named; both ends of a call decide the same |
| branches (`verbs/branching.rs`) | none | stop and look on | who is said to be gone has gone, and nobody is forgotten |
| tasks (`verbs/tasking.rs`) | none; read off the inbox | where a question has got to | what came back first decides, however many ask |
| reports (`verbs/reporting.rs`) | `<id>.report`, which outlives the session | hand in, tell, read by pages | a page is of one report; read by who may be told |
| event stream (`mind/provider/sse.rs`) | a partial line, a partial event | feed, finish | events do not depend on how the bytes were cut |
| dialects (`config/apis.lua`, `mind/lua/adapter`) | what is remembered between the events of a reply | read an event; count what was used | pieces and calls come through whole; an answer is one that was ended; what is measured was said |
| frames (`framing.rs`, `mind/lua/stream.rs`) | the bytes of a connection | read, refuse, write | replies stay in step, whatever is sent |
| packages (`mind/catalog.rs`, `mind/acknowledged.rs`, `mind/speaking.rs`) | files of declarations, a manifest of digests, a given file | load, acknowledge, configure, forget | only what was acknowledged as it is runs |
| discovery (`mind/discovering.rs`) | a cache that all processes share | fetch, read, fall back | a load keeps what was known |
| the cost of an ask (`mind/accounting.rs`, `mind/provider/client/observing.rs`) | a tally and a trace | each try begins, reports and ends | stream and events tell of the same tries |
| engine, description layers, prices (`mind/lua`, `mind/model`, ...) | files read at the start | conversions | not modelled |

The parts meet in the session's loop (`main.rs`, `serve`): each connection has a task that answers a
call, on a thread of its own, from a copy of the session's state, and then passes what has to change
to the loop through a bounded channel; the loop changes its state, publishes a new copy and writes
to the harness through a pipe. Loop and tasks share one thread, so none of them goes on while
another is in a call that does not wait, such as `forget`. A poller on a thread of its own looks
round the project and hands the loop a roster.
Everything that two *sessions* share is in the directory. Everything that two asks share is the
ledger and the credentials file.

What is hard here: steps of two processes on one path, with a decision read before and used after
(sweeps, claims, reservations, adoption, the sender's note, credentials); processes killed at any
call (leases, ledger, credentials); names that pass to another session; replies that are late and
tries that failed half way; queues and inboxes that are full; and ends that must not wait for what
never comes. `PROJECT.json` lists the hazards line by line with the properties that watch them.

## Modules

| module | models | state and actions |
|---|---|---|
| `NameOwner` | what a name promises | who owns it, who answers under it |
| `SocketLease` | bind, announce, release and the sweep of one name | paths are inodes, inodes are used again; a step is one system call; `Crash` at any of them; `Wipe` is a cleaner of the temporary directory |
| `Claims` | one piece of work | the record as the session it names; a claim is made by a tool, a process of its own that speaks for a session and does not end with it; tools that list; sessions that leave, die and return |
| `Kinship` | the walks over notes and the walls of `policy.rs` | operators only; walks are recursive functions bounded as the code bounds them |
| `Roster` (extends `Kinship`) | notes as sessions come, are grafted and end | every ring and orphan that can be made is a state; `Tiered`, `Under`, `Crew` are what is read off |
| `Adoption` (extends `Kinship`) | the exchange of an adoption | an asking is its nonce and a stage; each call on the directory is a step |
| `Minting` | naming a child and its coming up | a child is the mint that named it; each look at the directory is a step; the secret goes by the queue of the process that answered; a name may be handed out that could not be reserved |
| `Exchange` | what a connection promises | calls, their results, what was done |
| `Connection` | `Held.ask` against `talk` | frames in two directions, lost at either end |
| `Retaining` | what `Vec::retain` leaves | one operator, which `Inbox` and `Sending` keep their lists with |
| `Inbox` | a message from `tell` to the harness | the connection, the channel, the loop, the pipe, a tool that pages |
| `Dialects` | a reply, as each dialect reads it | a piece is known by its place, a call by its number; one `on_event` each, into deltas, and what is put together of them |
| `Measures` | the counts a dialect makes of what was reported | extends `Accounting`: a report is made of figures that are said, left out or no count |
| `Framing` | frames on a connection, byte by byte | a byte is a digit; the near end sends anything, or is a config's `h:call` |
| `Calls` (extends `Kinship`) | one call of a tool and its two ends | what the near end copied; sessions that come, end, are taken on and pass their names on between any two steps; `Ask`, `CopyNotes`, `CopyMinted` and `Decide` are the near end, `Carry` the dial and the far end |
| `Branch` (extends `Kinship`) | a branch that is ended and looked at | three generations that come, end and are killed; a look lists, reads the notes and dials, one session at a time |
| `Tasks` | where a question has got to | calls that overlap, each a copy of the inbox page by page, which may lack rows, then the first word about it, then the dial, which may fail |
| `Reports` (extends `Kinship`) | the report of a name | a report is the lengths of its lines; hand-in, telling and each page are steps |
| `Roles` | what a session is for | the note emptied, then written; the copy; the channel between |
| `Sending` | the two counts of what one session sends | the note read, emptied and filled by tools that run at once; time |
| `Handoff` | how far work may be handed on | counts that ride the messages of an inbox, taken from a copy that may lack some; `send`, which counts nothing |
| `Spending` | the ledger and its lock | asks that settle, file call by file call; `Close` as the run ends |
| `Credentials` | renewal, sign-in and sign-out | two locks, a file, servers that give a refresh token or none and may retire it |
| `Signals` | what a session is told of those it waits for | the poller, name by name and note by note; the channel of rosters; the loop's comparison; other sessions that come, work, are grafted, end, are killed and swept; tools at the watches |
| `Turn` | one ask of a provider | tries, the stop held back, the cost, and what the reader has |
| `Accounting` | what is said of the tries of an ask, twice | the counts of a try, the tally of the stream, the trace of the events |
| `Packages` | what a process runs before it asks | a digest is the content it is of; each file call a step; kills between |
| `Offers` | the cache of a provider's models | written in place: empty, then whole |
| `Stream` | the parser of server-sent events | `Push` of a chunk is a fold of `Byte`; the events of a whole text are defined apart, from its line ends |
| `Events` | emit, forward and finish | a program counter for each thread; the end of the forwarding between any two steps |

Most have an `MC` module that gives them small sets; where a `.cfg` can say all of them
(`claims`, `minting`, `signals_lost`) the run is of the module itself. Four runs are of several parts that share no state: a behaviour is one of one part,
chosen at the start, and the properties of a part are conjuncts of what is checked there.

| MC module | parts |
|---|---|
| `MCSpending` | `Spending`, `Reports` |
| `MCKinship` | `Adoption`, `Roster`, `Branch`, `Calls`, `Tasks`, `Roles` |
| `MCTalk` | `Connection`, `Inbox`, `Sending`, `Handoff`, `Signals` |
| `MCProvider` | `Turn`, `Accounting`, `Stream`, `Credentials`, `Packages`, `Offers`, `Framing`, `Dialects`, `Measures` |

`...Proofs` modules hold the theorems.
Definitions that begin with the comment "As it would be ..." are not part of any specification:
each is a plausible mistake, and stands beside the definition it would replace to show that a
property notices.

## Runs

| run | instance | shows |
|---|---|---|
| `socket_lease` | two sessions and a sweep on one name, a few inodes | leases exclude, notes are the living holder's, and the files implement `NameOwner` |
| `socket_lease_live` | one session killed anywhere, two sweeps, files wiped from outside | a dead socket or note goes; no sweep unlinks a socket somebody listens on |
| `claims` | two sessions, two tools that claim for either, one that lists | one holder, named by the record; dead holders yield |
| `claims_taken` (violation) | the tools of two sessions and the claim of a dead third | both are told the work is theirs, against `directory/claims.rs:5-6` |
| `kinship` | two that ask each other, one of whom asks a third; four sessions of three runs; a branch of three generations; one call among three sessions; one question that two ask after; one name told what it is for | consent, no swap, the parent has the key; rosters, branches, grafts and walls, in rings too; who is gone; only its own are stopped; answers and roles that stand |
| `adoption_swap` (violation) | an asking made after the other side withdrew its own | two parents of each other, against `main/adopting.rs:46-47` |
| `minting` | three mints on two mains and their children, one of which need not get its reservation | names apart, children counted once, keys that arrive |
| `talk` | five parts, see above | own answers, messages delivered, floods and echoes stopped, who is lost is said to be |
| `signals_lost` (violation) | one child that is killed between two looks at it | nobody is told, against `main/roster.rs:90-91` |
| `spending` | three asks that cost nothing or much, a lock made twice; two processes that report under one name to three that read | the ledger is the sum; one at a time; refused at the cap only; pages are of one report and read within the walls |
| `provider` | one ask of up to four tries, and the accounts of two; streams of up to six bytes; replies of up to four pieces in each dialect, and any reports of usage; frames on a line; two processes with two providers, signed in to with a refresh token or without, a package, a list of models | a whole answer, the whole cost, told alike twice; every piece in its place; cuts that do not matter; tokens spent once; nothing runs unacknowledged; no list is lost |
| `events` | two threads that emit twice | counts are exact, the last status is the last, the end ends |

The bounds. Two actors meet at every pair of steps; a third is there where the code treats a
third differently (a sweep beside two sessions, a dead holder, a third ask whose settlement falls
between two others). Names, claims and providers are independent in the code, so one of each is
enough where nothing relates two, and two are there where something does (`Credentials`: the file
holds all providers; `Handoff`: two works in one inbox). Inodes are as few as make the kernel reuse one. Queues hold two, so that
full, empty and neither are distinct, and one in `Signals`, where a roster also waits in the poller.
`Signals` has one other session, whose name is taken twice: rows of a roster do not meet in the
code, and everything that goes wrong does with one name. Six bytes hold two lines with an end each
and a CRLF cut in two; one chunk more than `Total` is within them. `Full` in
`Spending` and `HopLimit` in `Handoff` are reached in a few steps, between two sessions: work that goes round in a
larger ring meets no other inbox than one that holds it. `Unheld` are the calls of `mint` for which
no try to reserve need succeed: in the code that takes 64 names that are all had.
`Calls` lets one thing change among three sessions while a call is under way (`Changes`), at any
step of it, and two names pass on; a second change only repeats the first at another step.
`Branch` ends a chain of three below a main: the first is dialled, the second ends because the
first did, and the third because of that. `Accounting` has two tries and two columns, each not
said, none or one: a third try adds what the second did, and columns meet only in pairs.
`Packages` has one package of two contents, two pids that may be had again, and a word that is not
fit beside one that is; `Offers` two processes and two lists. `Dialects` has four pieces, two of them calls: what begins a call, goes on
with another and comes back to the first. `Measures` has figures up to three, so that a total, a read
below it, a larger and a smaller one differ. `Framing` counts in digits of base
`Most + 1`, so that a header of two says more than `Most`, and sends three frames: one before and
one after the one that goes wrong. `Roles` has two connections, a channel of two, two words and two
holders. Every counter that the code leaves unbounded has a constant that stops it: `Calls`,
`Tries`, `Frames`, `Said`, `MaxTime`, `Sayings`, `Last`, `Each`, `Lives`, `Turns`, `Longest`, `MaxAttempts`
(the last is the code's own).

Deadlock is not checked: in every model all actors may have done what the bounds let them do.

Fairness. `SocketLease`: a process that holds a lock goes on (it is never blocked while it does,
and everything it waits for has a time limit); a sweep that is repeated gets the directory's flock
and finds the socket's lock free sooner or later (strong fairness: `main.rs` sweeps on every tick
for as long as somebody serves). `Claims`: somebody lists again and again, which every roster look
does (`main/roster.rs`). `Signals`: the poller goes on, since each of its calls has a time limit,
and the loop takes the rosters; nothing is asked of other sessions, and the tick may not come.
`Minting`: the loop takes from its channel. `Turn`: a try ends, because
`QUIET` and the connection's time limits end it; a body that dribbles on for ever without
stopping is not excluded by the code, and the fairness of `Whole \/ Broken` sets that aside.
An ask is sent or refused before it is tried. `Credentials`: a process goes on with its job, except
that nobody need come back from the browser; a sign-in that waits there has no deadline, and `Ends`
excuses it. `Events`: the worker and the thread that ends it go
on; nothing is asked of threads that emit.

## Proofs

| theorem | says | rests on |
|---|---|---|
| `SocketLeaseProofs` `LeaseExcludes`, `NameKept`, `NoteKept` | one lease; a lease keeps its path, lock and directory; no stale note | `IInv` |
| `SocketLeaseProofs` `NameImplemented` | the files refine `NameOwner` | `IInv`, step by step |
| `SocketLeaseProofs` `SocketsStand` | nobody unlinks a socket another listens on, though files are wiped from outside | `WInv` |
| `ClaimsProofs` `Settled`, `Recorded` | of those that claim one holds, and the record names it, while they stay and none lets go | `IInv` |
| `AdoptionProofs` `Consented`, `Swapless` | consent; no swap among askings made once | `ConsentInv`; `Placed`, `OneWay` |
| `AdoptionProofs` `ParentsHoldTheKey` | a parent that was answered has the secret its child goes by | `Keyed` |
| `AdoptionProofs` `TasksStand` | what came back first decides what is said, however many ask at once; nothing is said done with or failed without cause | `TaskInv` |
| `AdoptionProofs` `TheGoneAreGone` | who is said to have gone has gone; nobody with its notes is missed | `BranchInv` |
| `AdoptionProofs` `TheGatesAgree` | what the near end lets through is not refused for who calls | `CallInv` |
| `AdoptionProofs` `OnlyItsOwnIsDone` | a call stops and names its caller's own; a session is listed for its own last word | `CallInv`, `RoleInv` |
| `AdoptionProofs` `GraftsAlwaysFit` | an adoption that is let through makes no ring and nobody too deep | `RosterInv`; `BelowRises`, `HeightOver` |
| `AdoptionProofs` `ReachIsMutual`, `StopsDownOnly` | may reach is may be answered; stop goes down | the definitions |
| `MintingProofs` `NamedApart` | no two children on their way have one name | `ComingInv` |
| `MintingProofs` `RoomForAll` | none is refused for want of room that is there | `RoomInv` |
| `SpendingProofs` `SettledApart` | one settlement at a time until close | `Kept` |
| `SpendingProofs` `AllAccounted`, `NoneRefusedEarly` | the ledger is the sum of the charges; refused at the cap only | `Ledgers` |
| `SpendingProofs` `ReportsAreWhole` | pages make up a report, who is told of one finds it, nobody reads past its writer's walls | `RepInv` |
| `EventsProofs` `Holds`, `FinalIsFinal` | the count of who emits is exact; nothing comes after the end that saw nobody | `IInv` |
| `EventsProofs` `EverythingReckoned` | every event is counted where it is; the last status is exact | `Books` |
| `TalkProofs` `AnswersItsOwn`, `WritesInStep` | each call gets its own answer | `Inv` |
| `TalkProofs` `KeepsThePromise` | a connection refines `Exchange` | `Inv`, `Books`, step by step |
| `TalkProofs` `AllDelivered`, `CriesStay` | what is said to be taken is read or stands, in its order; nothing urgent is dropped | `InboxInv` |
| `TalkProofs` `SharesAreKept` | no more than the share of a window is sent, nothing twice, and no more than it is heard | `SentInv`, `HeardInv` |
| `TalkProofs` `ToldRightly` | who is waited for is shown or was said to be lost; only entering a phase is signalled as it | `SigInv` |
| `ProviderProofs` `NobodyIsShutOut` | a refresh token that was given is kept, spent once and can be exchanged; no write takes back another's | `CredInv` |
| `ProviderProofs` `RunsWhatIsDeclared` | only what was acknowledged runs; a load keeps what was known | `PackInv`, `OfferInv` |
| `ProviderProofs` `LeavesAllWith` | a reader has all of one try and was told all that it cost; the events agree; what is measured was said; the replies on a line stay in step | `TurnInv`, `AccInv`, `MeasInv`, `LineInv` |
| `TalkProofs` `WorkStopsInTime` | counted over whole copies, work is handed on no more than `HopLimit` times in a row | `HandInv` |

and the type invariants `Typed`. They hold for every value of the constants (any number of
sessions, sweeps, inodes, asks, threads), under the assumptions each module names, which only say
that the "none" values are not members of the sets they stand beside, that bounds are numbers, that names
that are counted are finitely many, and that no harness calls a phase `lost`, which is the loop's own word.

Why the invariants are not inductive as they stand, and what they are strengthened with:

* *Leases.* That two sessions do not both hold a lease follows from flocks only if both flocked
  the same inode. `IInv` adds that whoever holds the directory's flock and found it the
  same holds the directory at the path (`DirSafe`), that the lock at the path is the one a leased
  session flocked (`LockSafe`, `LockNamed`), and that only who holds the directory may unlink the
  socket (`SocketSafe`). An inode is not reused while anybody has it open; that is what excludes a
  new file from passing for the old.
* *Claims.* While `calm`, which is until a session ends with a claim or a call in its name, a tool claims
  for one that is gone, or one lets go, the record is that of whoever was told, who is there, and nobody
  is about to unlink it (`Kept`): whoever asks the holder asks the one recorded, and it answers.
* *Adoption.* A note is with at most one of the path and `aside` (`Placed`); of two opposite
  askings, one past its withdrawal means that the other lost its note for good or is taken
  (`OneWay`).
  `StopKey` needs, of each answer that the asker's loop has taken, that the token is that answer's
  (`Keyed`); a session that renewed its name, or asked twice, is what `SameHands` and `Once` set aside.
* *Tasks.* What a call is due to say is what the first row said when it began. Until its copy is whole
  that is still the first row, and its copy begins with it (`CallDue`), since a row that goes leaves the
  calls that are reading with nothing due; what was copied are sorts that came (`TaskHeard`).
* *Branches.* Whoever started another was announced, and keeps its notes as long as it lives
  (`Rooted`); so the whole line of whoever is to be found is still to be listed, is found, or is read
  (`Missing`), and every set that has what was named and is closed under what was read has it
  (`LineFound`). That all of them are read as of the run needs the walk up the notes, which stays
  among them (`WalkStays`).
* *Calls.* What a call has copied is of its own session (`CallCopies`), whose secrets name who made
  them and for whom (`CallSecrets`); and while nothing changes the copy is what is there
  (`CallCurrent`), so the two ends put the same question to the same notes (`GatesMeet`).
* *Grafts.* Who does not answer has no parent note, since it is taken away with the session
  (`RosterInv`), so that a way down through the notes is one through sessions that answer. Who is below
  another has it somewhere in the notes above it (`BelowRises`), and the height of a branch is at least
  the way down to any that answers in it, up to the depth at which the walk stops (`HeightOver`): what
  `adoptable` counts is then no less than what the graft makes, although it counts levels and not names.
* *Roles.* The last word that was handed on is at the end of the queue, or with the loop once the
  queue is empty, or in the note (`Latest`, `RoleLast`); and an identity that saw no change has the
  name that is in the note (`RoleShows`).
* *Minting.* That a session was refused with room left speaks of what it counted some steps ago.
  `Known` says that all it counted were children named for it, and `Spent` that a name is not counted
  both as reserved and as up: between them the count is of distinct names (`Full`), as long as no two
  children have one name (`Distinct`, which is `OneComing`'s condition).
* *Sockets.* With files wiped from outside, the lock that a leased session flocked may no longer be
  at the path, so `IInv` is of no use. `WInv` has two facts in its stead that survive a wipe: only one
  is under the lock of the directory at the path (`OneInside`), and who is about to unlink has, under
  that lock, seen the socket dead (`SeenDead`), which only a binding could undo.
* *Spending.* `Ledgers` follows one settlement through: what was read is the sum, the total to be
  written is that sum with one charge replaced, or full (`NewTotal`), and charge and ledger change
  together at the rename. An ask that failed to settle owes (`MadeGood`).
* *Reports.* What a process of a session holds is of that session, unless the name has passed on since
  (`RepHolds`), so the file is of a session that was in its parent's run (`RepFile`, `Fits`). What a
  reader was shown is the beginning of a report that was handed in, or is of two (`Shown`): a page that
  begins past the end of a shorter report shows nothing and ends the reading.
* *Connections.* At most one frame is on its way back, and it is that of the call in progress. That
  it refines `Exchange` needs what each end has noted of a call: the far end answered no call
  beyond the near end's turn, and the reply on its way is of an answered one (`Books`).
* *Inbox.* What is held and what is on its way are one sequence (`Way`); each step takes a part of it
  (`Part`) or adds at its end. `InOrder` needs that nothing in it stands before what its connection told
  earlier (`AsTold`) and that nothing newer than what the connection holds is in it (`Behind`).
* *Sending.* The note is the last of what was sent, and what it forgot is too old to count
  (`NoteIsRight`); while a tool has it in hand, so is what that tool will write (`HeldIsRight`), and one
  tool is at it at a time (`OneAtNote`). Then a window cannot hold more than the note does (`SentApart`).
  The peer's count is the same without a note (`HeardInv`).
* *Handing on.* No message counts fewer hops than its work was passed on (`Counted`); and what a
  session works on is covered by the handoff that brought it, which is still in its inbox (`Covered`):
  without it a session would begin a fresh count. Both hold until a handoff was `missed`.
* *Signals.* A phase is counted along its way, from the roster that is shown over those in the channel,
  the one in the making and the last answer to the session (`Before`, `Ahead`): where the next says
  another than the one before, the count goes up, and what was said is no more than the count at the
  head. Of a name that did not pass on, a roster says no less than the one before it (`Chain`), since a
  session that rosters tell of is known to the poller or is gone (`Looked`); and rows that name a phase say whose
  child it is (`Whose`), but where the notes went first. So who was said to be at work is shown so, and
  is kin when it goes (`AtWork`).
* *Credentials.* A worker holds its provider while it asks and the file while it writes, so what it found
  stands until it is done (`CredFound`), and what a server gave it since is neither spent, stored nor
  another's (`CredOwn`), which needs that all of them were issued and none twice (`CredIssues`). So what is stored is not spent,
  unless who holds the provider is about to store what it was spent for (`Spendable`); and a sign-in that
  cannot be renewed ends before it is exchanged (`KeepsRefresh`).
* *Packages, offers.* `PackInv` has that what is in the manifest, and what a process that is loading read
  there, was vouched for; `OfferInv` that a load that found the cache whole did not find it empty.
* *Turn.* The text a reader holds is of the try in progress, up to where that has come, until it waits for
  the next (`TurnHolds`); what the ask cost is the sum of what its tries were said to, and the one in progress
  was said to cost what is told of it (`TurnPays`).
* *Accounting.* Of each column the trace has the count the reader was told or does not know it, apart for the
  tries that are over and the one in progress (`AccCosts`), and what it knows every try said (`AccKnows`); an
  ending is the last of a try's events (`AccEnds`).
* *Measures.* The counts held, those known and those measured are related to the set of all that was said
  (`MeasParts`): the prompt held is between the largest total and the largest of either, and while the reports
  fit, the cached part is the largest read. The sums over columns and over tries are `SumOver`, of which
  `SumChange` says how one member changes them.
* *Frames.* The far end knows a frame by its length alone. What it has of one, and what is on its way to
  it, is said to be the frames that were sent, from the first that is not answered, each at its place
  (`Laid`), and the last cut short only by who has gone; while it reads, all before that were calls, and
  were answered (`InHand`). What was sent last is put behind (`SentAfter`), a byte that is read moves from
  the one to the other (`ByteRead`), and an answer takes all of one frame away (`CallAnswered`), since as
  much of a frame as is read before it is refused or whole says what all of it does (`ReadsAre`).
* *Events.* `active` is the number of threads between their entry and their leaving; after the
  worker is joined the queue only grows by threads counted there. `AllReckoned` needs the sums that a
  step leaves alone: enqueued is dequeued and what is queued, but for threads that have sent and not
  counted yet (`QueueCounted`), and every status is sent, lost or the one just made (`SenderCounted`).

Sums over sets and least elements of sets of numbers stand in for inductions: a sum changes by what
one member of its set contributes, which the theorems on finite sets give, and the first message out of
order is the least of those that are. A recursive function is shown to exist the same way, by the least
number of steps for which there would be none (`Walks`, `Rises`, `Waves`, `Levels`), and what holds of
each of its values by the least step at which it would not.

Only model-checked: everything under fairness (`CorpseGoes`, `DeadYield`, `KeyArrives`, `CatchesUp`,
`Ends`, `ShutdownEnds`), since the prover has no `ENABLED`; what the walks that tiers and crews are read off
compute (`AllShown`), of which some holds only as far as the walk's bound on these instances goes, and what
folds over bytes and over deltas do (`CutsDoNotMatter`), since that needs induction over data.

## What the models say of the code

Three runs refute what a comment says (`findings` in `PROJECT.json`): the claim of a dead session
can be taken by two (`claims_taken`), two sessions can adopt each other when one asks after
the other withdrew (`adoption_swap`), and a child can go without being said lost
(`signals_lost`).

The other places where the code does less than one may think are conditions of the properties:

* `OneHolder`, `RecordBehind` hold while the sessions that claim stay and none lets go: the clearing of a
  record is by path, and a tool that outlives its session may link a claim for one that is gone, which
  two others then clear. `DeadYield` has no such condition.
* `CorpseGoes` is of a dead socket and of notes without a socket. A session that is killed between its
  lock and its socket (`serving/binding.rs`) leaves a lone `<id>.lock`, which no listing looks for
  (`directory.rs:497-512`): it stays until the name is bound again. Nobody holds its flock.
* `Consent` holds while names keep their session: `main/adopting.rs:58` writes the note under a
  name after the run was compared, and the name may have passed to another session between.
* `StopKey` holds of sessions that asked once: two parents that answer one asker write the note
  and hand over the secret each in its own time.
* `OneComing` holds until a reservation runs out, `reserved::taken` removing a stale one by path, or a name
  is handed out without one: after 64 tries `free_beside` gives up reserving (`directory.rs:455-462`).
* `KeyArrives` is of the process that answered: `Then::Minted` goes to its loop (`main.rs:510-515`), and a
  later session of its name has no secret of the children it finds. A key is by id: where a name is read
  as free because its child came up between the listing and the reading of the reservations, it is
  handed out again and the secret of the second call takes the place of the first's; `KeyArrives`
  excuses that. The channel to the loop holds few and makes who sends wait; the model's holds all.
* `Delivered` holds of a harness that names what it read: one that only counts what is left has a
  message taken out that came after it counted.
* A page of an inbox begins after as many rows as were seen, so rows that moved up meanwhile are
  skipped.
* `CapKept` holds while the note is one tool's at a time: `std::fs::write` empties the file before
  it fills it, so a tool that reads between finds a fresh window. What the peer counts
  (`HeardCap`, its last conjunct) has no such gap. A tool that outlives its session leaves a note to the next holder
  of the name.
* `StopsInTime` holds while a harness leaves a handoff in the inbox until its model is done with it, while
  no full inbox drops one whose work is being done, and while the copy of the inbox has the deepest
  handoff in it, which one that could not be read whole need not (`directory.rs:181-195`): each sets
  `missed`, and a count starts anew. `send` with the sort of a handoff counts nothing and is never refused
  (`verbs/doing.rs:50-54, 117-125`), so what is bounded is how often work is handed on in a row.
* `OneAtATime` and `Accounted` hold until the run is closed: `close` unlinks the lock file under
  whoever holds it, and a survivor starts a ledger anew.
* `StaysSignedIn` has `CanRenew` only while no answer and no write is lost: a rotating server has then retired the
  token that is stored. It is of sign-ins that came with a refresh token; one without ends as `expired`
  (`client.rs:679-682`). `KeepsRefresh` is of all. Of the servers the model takes that one that retires
  refresh tokens gives a new one with each renewal, and one that does not gives none.
* `RightlyTold` (its `LostTold`) and `CatchesUp` hold unless a child went between the dial of it and the look at its
  notes (`torn`), and of sessions that keep name, parent and watch while they are shown
  (`excused`): a name that is taken again within a look is taken for the same session.
* A watch may be lost: `directory/watches.rs` reads the note and writes it whole, without a lock.
  A sweep leaves `.watches` where it is, and the next holder of the name inherits it.
* The last status of the events may fall in the second after the one before, and is then not sent
  (`events/forwarding/status.rs:113`); `AllReckoned` is of a status that is.
* *Ending a branch* (`GoneIsGone`). Once the notes of the child that was named are gone, the run of
  a grandchild is no longer that of the caller, and `crew` leaves it out: a session below it that
  comes up then, or was not looked at yet, is never seen and so never said to be left, against
  `verbs/branching.rs:11-14`. `NobodyMissed` is of those whose notes and whose parents' notes stand.
* *Calls* (`OnlyItsOwn`, `GatesAgree`). The notes may make a ring by names: an orphan starts a child,
  which takes the name of the orphan's starter that has gone, and each is then the other's
  `.parent`. The near end says child, the far end parent, and a stop is refused; `Ring` excuses it.
  `mint` reserves the name before it looks at the secret and the role (`answering.rs:274-295`), so a
  refused one leaves a reservation until it runs out. `free_of` returns a name that is taken when
  all are (`identity.rs:95-98`).
* *Tasks* (`TaskStands`). The first message about a question decides, so an earlier note hides a
  later answer. The inbox is copied before the dial: an answer that comes between, from a session
  that then ends, is reported as failed. Once the harness has consumed the answer the task is
  submitted or failed again, against `verbs/tasking.rs:169`; and a new session under the name makes
  it submitted. Any dial that fails says failed, also of a session that is there with its backlog full
  (`asking.rs:165-175`) or to a caller without descriptors. A slower call that copied before the answer
  may say so after another said completed. The property is of what is held when a call begins, and of
  calls that copy the inbox whole.
* *Reports* (`ReportIsTheirs`). A page says no revision to one who reads the next, so a
  report handed in between two pages is put together with the earlier one unnoticed; the property is
  of pages that are of one. A reader that copied its children before the name passed on reads the next
  holder's as a child's. A tool that outlives its session hands in under the next holder. The parent
  that is recorded is a name, which may pass on too.
* The id of a message is its sender and a millisecond (`wire.rs`, `Message::sent`), so two of one
  millisecond have one id.
* *Discovery* (`AsDeclared`). The cache is written in place, so a process whose own fetch fails
  meanwhile falls back on nothing, against `mind/discovering.rs:3-4`. The text is read before the
  time of the file, so an old list may pass for a fresh one.
* *Packages* (`AsDeclared`). A `melchior.lua.<pid>` left by a process that was killed makes the next
  configure under that pid fail once. A given file that raises fails every load until it is
  forgotten (`mind/catalog.rs:88-92`). An older acknowledge that finishes late puts back the digests
  it read.
* *Accounting* (`LeftWith`). A try that did not measure a column makes it unknown in every later
  snapshot of the ask, while the reader of the stream is told a number. That is meant, and
  `SaidInFull` says where the two agree.
* *Dialects* (`CutsDoNotMatter`). A delta of arguments names no call, so fragments of two calls that alternate
  are told as the later one's: `OneAfterAnother` excuses it, though `config/apis.lua` reads the index
  they come with. Only the last two events are looked at for an error (`client.rs:456-462`), so the model
  has at most one event follow a failure; after two, a reply of Completions that ends in `[DONE]` would
  be taken for an answer. A reason that is not in a dialect's table is read as the end of the turn.
* *Measures* (`LeftWith`). A count that was measured stays measured while it is the same number. So
  where a whole prompt had been read from a cache, and a later report says a larger prompt and a read
  larger still, the input is measured as none, though the read is not
  (`measured_usage.rs:26-28`; `measured_tests.rs` has that a contradiction is not claimed to be exact,
  in a first report). `fits` is the condition.
* *Roles* (`OnlyItsOwn`). `identity` joins the name of the copy with the sentence of the note, read
  on another thread afterwards: while a role changes the two may be of two records. A note that was
  emptied and then not written reads as `main` while the copy keeps the name. The answer to `role`
  is given before the note is written.
* *Sign-in*. One request to the port is listened to, so any other request there ends the sign-in.
* `magi.load` queues files (`mind/lua/engine.rs:21-23`), and nothing in the repository takes them out
  of `Config.loads`: read, not modelled.

## Not modelled

Text: what is said to a model, rows, logs, the words of reports and refusals. Durations, beyond
their order: how long a wait is, which `retry.rs` computes. Conversions without state: how a
request is written for a provider, JSON and its schema, how the layers of a model's description are
merged, how a list of models is read, prices, the texts that mean an overflow. `scratch.rs` is the directories of
tests, `noted.rs` a log whose lines are appended whole. Signals and the end of a process, which is
`Crash`, `Killed` or `Fail` here. Torn notes: `directory::wrote` empties and fills, and the models
write a note in one step, save for the sender's, the role, the manifest and the cache of models,
where somebody reads between. Half of the lines of the repository are tests beside the code, which
nothing maps.

## Plan

1. Restatements in the style of `Exchange` for `Packages` (what is acknowledged runs) and `Reports`
   (a reader has one report), with the refinements.
2. The start of a session, from the environment to the first answer: `event_start.rs`,
   `events/forwarding/bootstrap.rs`, `mind/setup.rs`.
