----------------------------- MODULE SocketLease -----------------------------
(***************************************************************************)
(* How a session takes the socket path of one name, holds it, and gives it *)
(* back, while other processes sweep names that no longer answer.          *)
(*                                                                         *)
(* One name of one project is modelled: every decision below is about the  *)
(* files of that name and the directory they sit in.  A file is its inode; *)
(* a path is a variable holding the inode it names, or NoInode.            *)
(*                                                                         *)
(*   bind      places::locking::Directory, serving::binding::bind          *)
(*   announce  directory::announce, the .parent note only                  *)
(*   release   directory::forget, binding::Lease::release, directory::leave*)
(*   sweep     directory::listening, directory::forget_id                  *)
(*                                                                         *)
(* A step is one system call on the shared directory, so everything else   *)
(* may happen between any two of them, and a process may die there.        *)
(***************************************************************************)
CONSTANTS
  Sessions,   \* processes that serve under the name, one incarnation at a time
  Sweepers,   \* processes that list the project and sweep what is dead
  Inodes,     \* inode numbers, used again once nothing names or opens them
  NoInode,    \* no file at a path, or no file open
  NoSession   \* no note

ASSUME Kinds == /\ NoInode \notin Inodes
                /\ NoSession \notin Sessions
                /\ Sessions \cap Sweepers = {}

VARIABLES
  dir,        \* inode of the project directory
  lockPath,   \* inode at <id>.lock
  sockPath,   \* inode at <id>
  parentNote, \* which session's launch left <id>.parent
  children,   \* the sessions started by another session: the rest are mains
  phase,      \* what each process is doing
  at,         \* the call it makes next
  dirFd,      \* the directory it opened, flocked from step "same" on
  lockFd,     \* the lock file it opened, flocked from step "match" on
  listening   \* the socket inode a session listens on

vars == <<dir, lockPath, sockPath, parentNote, children, phase, at, dirFd, lockFd, listening>>
disk == <<dir, lockPath, sockPath, parentNote>>

Actors == Sessions \cup Sweepers

\* "release" ends a session that served, "abandon" one whose notes could not be written.
Phases == {"down", "bind", "bound", "serving", "release", "abandon", "leave", "sweep"}
Releasing == {"release", "abandon"}

\* The steps of Directory::take, of Directory::lock, and of what is done under both.
TakeSteps == {"open", "flock", "same"}
LockSteps == {"lock", "exclusive", "match"}
WorkSteps == {"probe", "clear", "listen", "verify", "lease", "socket", "note", "lockfile", "rmdir"}
Steps == {"rest"} \cup TakeSteps \cup LockSteps \cup WorkSteps

----------------------------------------------------------------------------
\* Which flock is held by whom follows from where a process stands.

\* a holds the flock on the directory inode it opened.
HasDir(a) == at[a] \notin {"rest", "open", "flock"}

\* a holds the flock on the lock-file inode it opened, if it opened one.
HasLock(a) == \/ at[a] \in {"match", "probe", "clear", "listen", "verify", "socket", "note"}
              \/ phase[a] \in {"bound", "serving", "leave"} \cup Releasing
              \/ phase[a] = "sweep" /\ at[a] = "lockfile"

\* asking::alive: a socket answers while a process listens on that inode.
Alive(i) == i # NoInode /\ \E p \in Sessions : listening[p] = i

\* The lease bind returned.  A release that could not take the directory leaves it in force until
\* the process ends.
Leased(p) == \/ phase[p] \in {"bound", "serving"}
             \/ phase[p] \in Releasing /\ at[p] # "lockfile"
             \/ phase[p] = "leave" /\ lockFd[p] = lockPath

FreeDirs  == Inodes \ ({dir} \cup {dirFd[a] : a \in Actors})
FreeLocks == Inodes \ ({lockPath} \cup {lockFd[a] : a \in Actors})
FreeSocks == Inodes \ ({sockPath} \cup {listening[p] : p \in Sessions})

----------------------------------------------------------------------------
Init ==
  /\ dir = NoInode /\ lockPath = NoInode /\ sockPath = NoInode
  /\ parentNote = NoSession
  /\ children \in SUBSET Sessions
  /\ phase = [a \in Actors |-> "down"]
  /\ at = [a \in Actors |-> "rest"]
  /\ dirFd = [a \in Actors |-> NoInode]
  /\ lockFd = [a \in Actors |-> NoInode]
  /\ listening = [p \in Sessions |-> NoInode]

\* a goes on to the next call of the same phase.
Go(a, from, to) == /\ at[a] = from
                   /\ at' = [at EXCEPT ![a] = to]

\* a stops holding the directory, as its Directory value is dropped, and stands at s of phase ph.
Drop(a, ph, s) ==
  /\ phase' = [phase EXCEPT ![a] = ph]
  /\ at' = [at EXCEPT ![a] = s]
  /\ dirFd' = [dirFd EXCEPT ![a] = NoInode]

\* The kernel closes what a held when a ends; nothing on disk changes.
Closed(a) ==
  /\ Drop(a, "down", "rest")
  /\ lockFd' = [lockFd EXCEPT ![a] = NoInode]
  /\ listening' = [p \in Sessions |-> IF p = a THEN NoInode ELSE listening[p]]
  /\ UNCHANGED children

\* a returns from what it was doing, done or refused.  The release of a session that served goes
\* on to leave; after any other phase the process ends, a sweep's included.
Return(a) ==
  \/ /\ phase[a] = "release"
     /\ Drop(a, "leave", "open")
     /\ UNCHANGED <<children, lockFd, listening>>
  \/ /\ phase[a] # "release"
     /\ Closed(a)

----------------------------------------------------------------------------
\* Directory::take

\* bind makes the directory when it is missing; the others fail without it.
OpenDir(a) ==
  /\ at[a] = "open"
  /\ \/ /\ dir # NoInode
        /\ at' = [at EXCEPT ![a] = "flock"]
        /\ dirFd' = [dirFd EXCEPT ![a] = dir]
        /\ UNCHANGED <<disk, children, phase, lockFd, listening>>
     \/ /\ dir = NoInode /\ phase[a] = "bind"
        /\ \E i \in FreeDirs : /\ dir' = i
                               /\ dirFd' = [dirFd EXCEPT ![a] = i]
        /\ at' = [at EXCEPT ![a] = "flock"]
        /\ UNCHANGED <<lockPath, sockPath, parentNote, children, phase, lockFd, listening>>
     \/ /\ dir = NoInode /\ phase[a] # "bind"
        /\ Return(a) /\ UNCHANGED disk

\* As it would be if the directory were opened and never flocked.
DirNeverBusy(a) == FALSE

\* Somebody else holds the flock of the inode a opened.
DirBusy(a) == \E b \in Actors \ {a} : HasDir(b) /\ dirFd[b] = dirFd[a]

\* A busy directory is tried again until WAIT is over; a sweep and a leave do not wait at all.
FlockDir(a) ==
  /\ at[a] = "flock"
  /\ \/ /\ ~DirBusy(a)
        /\ at' = [at EXCEPT ![a] = "same"]
        /\ UNCHANGED <<disk, children, phase, dirFd, lockFd, listening>>
     \/ /\ DirBusy(a) /\ phase[a] \in {"bind"} \cup Releasing
        /\ Drop(a, phase[a], "open")
        /\ UNCHANGED <<disk, children, lockFd, listening>>
     \/ /\ DirBusy(a)
        /\ Return(a) /\ UNCHANGED disk

\* As it would be if only what locks the name knew what to do with the directory.
FirstLocks(ph) == IF ph \in {"bind", "sweep"} THEN "lock" ELSE ph

\* What each phase does first under the directory's lock.
First(ph) == IF ph \in {"bind", "sweep"} THEN "lock" ELSE IF ph \in Releasing THEN "lease" ELSE "rmdir"

\* The inode locked must still be the one at the path: leave may have removed it in between.
SameDir(a) ==
  /\ at[a] = "same"
  /\ \/ /\ dirFd[a] = dir
        /\ at' = [at EXCEPT ![a] = First(phase[a])]
        /\ UNCHANGED <<disk, children, phase, dirFd, lockFd, listening>>
     \/ /\ dirFd[a] # dir /\ phase[a] = "bind"
        /\ Drop(a, "bind", "open")
        /\ UNCHANGED <<disk, children, lockFd, listening>>
     \/ /\ dirFd[a] # dir
        /\ Return(a) /\ UNCHANGED disk

----------------------------------------------------------------------------
\* Directory::lock

\* bind creates the lock file; a sweep that finds none goes on without one.
OpenLock(a) ==
  /\ at[a] = "lock"
  /\ \/ /\ lockPath # NoInode
        /\ at' = [at EXCEPT ![a] = "exclusive"]
        /\ lockFd' = [lockFd EXCEPT ![a] = lockPath]
        /\ UNCHANGED lockPath
     \/ /\ lockPath = NoInode /\ phase[a] = "bind"
        /\ \E i \in FreeLocks : /\ lockPath' = i
                                /\ lockFd' = [lockFd EXCEPT ![a] = i]
        /\ at' = [at EXCEPT ![a] = "exclusive"]
     \/ /\ lockPath = NoInode /\ phase[a] = "sweep"
        /\ at' = [at EXCEPT ![a] = "probe"]
        /\ UNCHANGED <<lockPath, lockFd>>
  /\ UNCHANGED <<dir, sockPath, parentNote, children, phase, dirFd, listening>>

LockBusy(a) == \E b \in Actors \ {a} : HasLock(b) /\ lockFd[b] = lockFd[a]

\* A lock file somebody holds: bind says the name is in use, a sweep leaves it alone.
FlockLock(a) ==
  /\ at[a] = "exclusive"
  /\ \/ /\ ~LockBusy(a)
        /\ at' = [at EXCEPT ![a] = "match"]
        /\ UNCHANGED <<disk, children, phase, dirFd, lockFd, listening>>
     \/ /\ LockBusy(a)
        /\ Return(a) /\ UNCHANGED disk

\* Directory::matches on the lock file: the directory and the path still name what is held.
Matches(a) == dirFd[a] = dir /\ lockFd[a] = lockPath

\* A lock file that was replaced is not found: a sweep goes on without one, bind fails.
MatchLock(a) ==
  /\ at[a] = "match"
  /\ \/ /\ Matches(a)
        /\ at' = [at EXCEPT ![a] = "probe"]
        /\ UNCHANGED <<disk, children, phase, dirFd, lockFd, listening>>
     \/ /\ ~Matches(a) /\ phase[a] = "sweep"
        /\ at' = [at EXCEPT ![a] = "probe"]
        /\ lockFd' = [lockFd EXCEPT ![a] = NoInode]
        /\ UNCHANGED <<disk, children, phase, dirFd, listening>>
     \/ /\ ~Matches(a) /\ phase[a] # "sweep"
        /\ Return(a) /\ UNCHANGED disk

----------------------------------------------------------------------------
\* bind, announce

\* A session starts; its harness says whether another session started it.
Start(p) ==
  /\ phase[p] = "down"
  /\ phase' = [phase EXCEPT ![p] = "bind"]
  /\ at' = [at EXCEPT ![p] = "open"]
  /\ \E child \in BOOLEAN : children' = IF child THEN children \cup {p} ELSE children \ {p}
  /\ UNCHANGED <<disk, dirFd, lockFd, listening>>

\* A socket at the path that nothing answers is removed; one that answers is left.
Probe(p) ==
  /\ phase[p] = "bind" /\ at[p] = "probe"
  /\ at' = [at EXCEPT ![p] = IF sockPath # NoInode /\ ~Alive(sockPath) THEN "clear" ELSE "listen"]
  /\ UNCHANGED <<disk, children, phase, dirFd, lockFd, listening>>

Clear(p) ==
  /\ Go(p, "clear", "listen")
  /\ sockPath' = NoInode
  /\ UNCHANGED <<dir, lockPath, parentNote, children, phase, dirFd, lockFd, listening>>

\* UnixListener::bind refuses a path that exists.
Listen(p) ==
  /\ at[p] = "listen"
  /\ \/ /\ sockPath = NoInode
        /\ \E i \in FreeSocks : /\ sockPath' = i
                                /\ listening' = [listening EXCEPT ![p] = i]
        /\ at' = [at EXCEPT ![p] = "verify"]
        /\ UNCHANGED <<dir, lockPath, parentNote, children, phase, dirFd, lockFd>>
     \/ /\ sockPath # NoInode
        /\ Return(p) /\ UNCHANGED disk

\* The socket opened by path is the one bound; the Lease is made and the directory let go.
Verify(p) ==
  /\ at[p] = "verify"
  /\ \/ /\ dirFd[p] = dir /\ sockPath = listening[p]
        /\ Drop(p, "bound", "rest")
        /\ UNCHANGED <<disk, children, lockFd, listening>>
     \/ /\ ~(dirFd[p] = dir /\ sockPath = listening[p])
        /\ Return(p) /\ UNCHANGED disk

\* As it would be if a main left the notes of its name alone.
AnnounceOver(p) ==
  /\ phase[p] = "bound"
  /\ phase' = [phase EXCEPT ![p] = "serving"]
  /\ parentNote' = IF p \in children THEN p ELSE parentNote
  /\ UNCHANGED <<dir, lockPath, sockPath, children, at, dirFd, lockFd, listening>>

\* A child leaves its .parent note, a main removes one an earlier holder left.
Announce(p) ==
  /\ phase[p] = "bound"
  /\ phase' = [phase EXCEPT ![p] = "serving"]
  /\ parentNote' = IF p \in children THEN p ELSE NoSession
  /\ UNCHANGED <<dir, lockPath, sockPath, children, at, dirFd, lockFd, listening>>

\* A note that cannot be written: the path is given back at once, without forget.
AnnounceFails(p) ==
  /\ phase[p] = "bound"
  /\ phase' = [phase EXCEPT ![p] = "abandon"]
  /\ at' = [at EXCEPT ![p] = "open"]
  /\ UNCHANGED <<disk, children, dirFd, lockFd, listening>>

----------------------------------------------------------------------------
\* forget, Lease::release, leave

Forget(p) ==
  /\ phase[p] = "serving"
  /\ phase' = [phase EXCEPT ![p] = "release"]
  /\ at' = [at EXCEPT ![p] = "open"]
  /\ parentNote' = NoSession
  /\ UNCHANGED <<dir, lockPath, sockPath, children, dirFd, lockFd, listening>>

\* Nothing is unlinked when the path no longer names this lease's own lock.
MatchLease(p) ==
  /\ at[p] = "lease"
  /\ \/ /\ Matches(p)
        /\ at' = [at EXCEPT ![p] = "socket"]
        /\ UNCHANGED <<disk, children, phase, dirFd, lockFd, listening>>
     \/ /\ ~Matches(p)
        /\ Return(p) /\ UNCHANGED disk

UnlinkOwn(p) ==
  /\ phase[p] \in Releasing /\ Go(p, "socket", "lockfile")
  /\ sockPath' = IF sockPath = listening[p] THEN NoInode ELSE sockPath
  /\ UNCHANGED <<dir, lockPath, parentNote, children, phase, dirFd, lockFd, listening>>

UnlinkLock(p) ==
  /\ phase[p] \in Releasing /\ at[p] = "lockfile"
  /\ lockPath' = NoInode
  /\ Return(p)
  /\ UNCHANGED <<dir, sockPath, parentNote>>

\* rmdir refuses while anything is in the directory, which may be another name's files.
Rmdir(p) ==
  /\ at[p] = "rmdir"
  /\ \/ /\ lockPath = NoInode /\ sockPath = NoInode /\ parentNote = NoSession
        /\ dir' = NoInode
     \/ UNCHANGED dir
  /\ Closed(p)
  /\ UNCHANGED <<lockPath, sockPath, parentNote>>

----------------------------------------------------------------------------
\* listening, forget_id

\* What makes a listing call forget_id: a socket nothing answers, or a note without a socket.
Corpse == \/ sockPath # NoInode /\ ~Alive(sockPath)
          \/ sockPath = NoInode /\ parentNote # NoSession

List(s) ==
  /\ phase[s] = "down" /\ Corpse
  /\ phase' = [phase EXCEPT ![s] = "sweep"]
  /\ at' = [at EXCEPT ![s] = "open"]
  /\ UNCHANGED <<disk, children, dirFd, lockFd, listening>>

\* As it would be if a sweep trusted the lock and did not ask the socket again.
SweepAskNothing(s) ==
  /\ phase[s] = "sweep" /\ Go(s, "probe", "socket")
  /\ UNCHANGED <<disk, children, phase, dirFd, lockFd, listening>>

\* Asked again under the locks.  A fresh reservation of the name also makes the sweep return.
SweepProbe(s) ==
  /\ phase[s] = "sweep" /\ at[s] = "probe"
  /\ \/ /\ ~Alive(sockPath)
        /\ at' = [at EXCEPT ![s] = "socket"]
        /\ UNCHANGED <<disk, children, phase, dirFd, lockFd, listening>>
     \/ Return(s) /\ UNCHANGED disk

SweepSocket(s) ==
  /\ phase[s] = "sweep" /\ Go(s, "socket", "note")
  /\ sockPath' = NoInode
  /\ UNCHANGED <<dir, lockPath, parentNote, children, phase, dirFd, lockFd, listening>>

\* As it would be if a sweep took the socket and left the note beside it.
SweepNoNote(s) ==
  /\ Go(s, "note", "lockfile")
  /\ UNCHANGED <<disk, children, phase, dirFd, lockFd, listening>>

SweepNote(s) ==
  /\ Go(s, "note", "lockfile")
  /\ parentNote' = NoSession
  /\ UNCHANGED <<dir, lockPath, sockPath, children, phase, dirFd, lockFd, listening>>

SweepLock(s) ==
  /\ phase[s] = "sweep" /\ at[s] = "lockfile"
  /\ lockPath' = NoInode
  /\ Closed(s)
  /\ UNCHANGED <<dir, sockPath, parentNote>>

----------------------------------------------------------------------------
\* SIGKILL, or anything else no destructor sees.
Crash(a) == phase[a] # "down" /\ Closed(a) /\ UNCHANGED disk

Take(a) == OpenDir(a) \/ FlockDir(a) \/ SameDir(a)
Lock(a) == OpenLock(a) \/ FlockLock(a) \/ MatchLock(a)

Bind(p) == Probe(p) \/ Clear(p) \/ Listen(p) \/ Verify(p)
Release(p) == MatchLease(p) \/ UnlinkOwn(p) \/ UnlinkLock(p) \/ Rmdir(p)
Sweep(s) == SweepProbe(s) \/ SweepSocket(s) \/ SweepNote(s) \/ SweepLock(s)

Step ==
  \/ \E a \in Actors : Take(a) \/ Lock(a)
  \/ \E p \in Sessions : Start(p) \/ Bind(p) \/ Announce(p) \/ AnnounceFails(p)
                           \/ Forget(p) \/ Release(p)
  \/ \E s \in Sweepers : List(s) \/ Sweep(s)

Next == Step \/ \E a \in Actors : Crash(a)

Spec == Init /\ [][Next]_vars

\* Something outside the program, a cleaner of the temporary directory or a person, unlinks the
\* lock file or the socket of a session that serves.  Only FairSpec has it.
Wipe ==
  /\ \E p \in Sessions : phase[p] = "serving"
  /\ \/ lockPath' = NoInode /\ UNCHANGED sockPath
     \/ sockPath' = NoInode /\ UNCHANGED lockPath
  /\ UNCHANGED <<dir, parentNote, children, phase, at, dirFd, lockFd, listening>>

\* A process that is not killed makes its next call, and every session lists the project on a
\* timer (main.rs, every two seconds).  A sweep that is tried again and again finds the directory
\* unlocked once, and does not meet a fresh reservation for ever: one is fresh for five minutes.
Fairness ==
  /\ \A p \in Sessions : WF_vars(Take(p) \/ Lock(p) \/ Bind(p) \/ Announce(p) \/ Release(p))
  /\ \A s \in Sweepers : /\ WF_vars(List(s) \/ Take(s) \/ Lock(s) \/ Sweep(s))
                          /\ SF_vars(FlockDir(s) /\ at'[s] = "same")
                          /\ SF_vars(SweepProbe(s) /\ at'[s] = "socket")

\* Sessions are killed at any call and the files wiped, sweepers are not killed.
FairSpec == Init /\ [][Step \/ Wipe \/ \E p \in Sessions : Crash(p)]_vars /\ Fairness

----------------------------------------------------------------------------
\* Properties

\* The shape of every variable.
TypeOK ==
  /\ {dir, lockPath, sockPath} \subseteq Inodes \cup {NoInode}
  /\ parentNote \in Sessions \cup {NoSession}
  /\ children \subseteq Sessions
  /\ phase \in [Actors -> Phases]
  /\ at \in [Actors -> Steps]
  /\ dirFd \in [Actors -> Inodes \cup {NoInode}]
  /\ lockFd \in [Actors -> Inodes \cup {NoInode}]
  /\ listening \in [Sessions -> Inodes \cup {NoInode}]

\* bind gives a lease to one session at a time: a second one is refused as long as the first
\* holds its lock, however sweeps, releases, crashes and rmdirs fall between the calls.
OneLease == \A p, q \in Sessions : Leased(p) /\ Leased(q) => p = q

\* While a session holds its lease the name is its own: the path leads to the socket it listens
\* on, the lock at the path is the one it flocked, and the directory is there.
LeaseHoldsName ==
  \A p \in Sessions : phase[p] \in {"bound", "serving"} =>
    /\ sockPath = listening[p] /\ listening[p] # NoInode
    /\ lockPath = lockFd[p] /\ lockFd[p] # NoInode
    /\ dir # NoInode

\* Where a serving session stands in the tree, as everybody else reads it, is what its launch
\* said: no sweep begun against a dead holder of the name takes a live child's .parent note, and
\* no note of a dead holder makes a main read as a child.
StandsAsLaunched ==
  \A p \in Sessions :
    phase[p] = "serving" => parentNote = IF p \in children THEN p ELSE NoSession

\* No process unlinks a socket that another session is listening on, even when the lock file or
\* the socket was removed from outside and two sessions believe they hold the name.
LiveSocketStands ==
  [][ \A p \in Sessions :
        (phase # phase' \/ at # at') /\ listening[p] # NoInode /\ sockPath = listening[p]
          => \/ sockPath' = sockPath
             \/ phase[p] \in Releasing /\ at[p] = "socket" ]_vars

\* A name does not stay dead: once no more sessions come for it, a socket nobody listens on, or a
\* .parent note without a socket, is taken down by the sweeps, which lock each other out, at
\* whichever call the last session was killed.  A lone <id>.lock, left between lock and listen, is
\* no corpse: no listing looks for one, it stays until the next bind of the name takes it over.
CorpseGoes == (<>[](\A p \in Sessions : phase[p] = "down")) => <>[]~Corpse

\* The name, as NameOwner promises it.
Holders == {p \in Sessions : Leased(p)}
Answering == {p \in Sessions : sockPath # NoInode /\ listening[p] = sockPath}
Name == INSTANCE NameOwner WITH owners <- Holders, answering <- Answering
NameIsOwned == Name!Spec
=============================================================================
