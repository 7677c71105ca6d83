-------------------------- MODULE SocketLeaseProofs --------------------------
(***************************************************************************)
(* For every number of sessions and sweepers: a lease is held by one       *)
(* session at a time, a held lease keeps its name, no sweep takes a live   *)
(* session's note, and SocketLease implements NameOwner.                   *)
(*                                                                         *)
(* The argument: everything that unlinks or makes <id>.lock is done under  *)
(* the flock of the directory now at the path, so that a process standing  *)
(* there sees the lock file stand still; everything that unlinks <id> or   *)
(* <id>.parent holds, besides, the flock of the lock file now at the path. *)
(* A lease is that flock kept.                                             *)
(***************************************************************************)
EXTENDS SocketLease, TLAPS

\* Which steps belong to which phase, and which phases to which kind of process.
Order ==
  \A a \in Actors :
    /\ phase[a] \in {"down", "bound", "serving"} <=> at[a] = "rest"
    /\ at[a] \in LockSteps \cup {"probe"} => phase[a] \in {"bind", "sweep"}
    /\ at[a] \in {"clear", "listen", "verify"} => phase[a] = "bind"
    /\ at[a] = "lease" => phase[a] \in Releasing
    /\ at[a] \in {"socket", "lockfile"} => phase[a] \in Releasing \cup {"sweep"}
    /\ at[a] = "note" => phase[a] = "sweep"
    /\ at[a] = "rmdir" => phase[a] = "leave"
    /\ phase[a] \notin {"down", "sweep"} => a \in Sessions

\* The flock of one directory inode has one holder, and whoever has checked it holds the one at
\* the path.  The directory is there as long as the lock file is.
DirSafe ==
  /\ \A a, b \in Actors : HasDir(a) /\ HasDir(b) /\ dirFd[a] = dirFd[b] => a = b
  /\ \A a \in Actors : HasDir(a) /\ at[a] # "same" => dirFd[a] = dir
  /\ \A a \in Actors : HasDir(a) \/ at[a] = "flock" => dirFd[a] # NoInode
  /\ lockPath # NoInode => dir # NoInode

\* The flock of one lock-file inode has one holder.
LockSafe ==
  \A a, b \in Actors :
    HasLock(a) /\ HasLock(b) /\ lockFd[a] = lockFd[b] /\ lockFd[a] # NoInode => a = b

\* Whoever works under the lock, or keeps it as a lease, has the file now at the path; only a
\* sweep may stand there with no file at all.
LockNamed ==
  \A a \in Actors :
    /\ at[a] \in {"exclusive", "match"} => lockFd[a] # NoInode
    /\ HasLock(a) /\ phase[a] # "sweep" => lockFd[a] # NoInode
    /\ HasLock(a) /\ phase[a] # "leave" => lockFd[a] = lockPath
    /\ at[a] = "exclusive" => lockFd[a] = lockPath
    /\ phase[a] = "down" => lockFd[a] = NoInode
    /\ phase[a] \in {"bind", "sweep"} /\ at[a] \in TakeSteps \cup {"lock"} => lockFd[a] = NoInode

\* A leased session answers at the path, and nobody else does but one that is about to be leased.
SocketSafe ==
  /\ \A p, q \in Sessions : listening[p] = listening[q] /\ listening[p] # NoInode => p = q
  /\ \A p \in Sessions :
       Leased(p) \/ at[p] = "verify" => sockPath = listening[p] /\ listening[p] # NoInode
  /\ \A p \in Sessions :
       listening[p] = sockPath /\ sockPath # NoInode => Leased(p) \/ at[p] = "verify"

IInv == /\ TypeOK /\ Order /\ DirSafe /\ LockSafe /\ LockNamed /\ SocketSafe
        /\ StandsAsLaunched

-----------------------------------------------------------------------------
\* One lemma per action, one step per conjunct of the invariant.

LEMMA OpenDirKeeps ==
  ASSUME NEW x \in Actors, IInv, OpenDir(x)
  PROVE  IInv'
<1> USE DEF IInv, OpenDir, Return, Closed, Drop, disk, Actors, Releasing
<1>1. TypeOK'
  BY DEF TypeOK, Phases, Steps, TakeSteps, LockSteps, WorkSteps, FreeDirs
<1>2. Order'
  BY DEF TypeOK, Order, LockSteps
<1>3. DirSafe'
  BY DEF TypeOK, Order, DirSafe, HasDir, FreeDirs
<1>4. LockSafe'
  BY DEF TypeOK, Order, LockSteps, LockSafe, LockNamed, HasLock
<1>5. LockNamed'
  BY DEF TypeOK, Order, TakeSteps, LockSteps, DirSafe, LockSafe, LockNamed, HasDir, HasLock
<1>6. SocketSafe'
  BY DEF TypeOK, Order, LockSafe, LockNamed, SocketSafe, Leased, HasLock
<1>7. StandsAsLaunched'
  BY DEF TypeOK, Order, LockSafe, LockNamed, StandsAsLaunched, HasLock
<1>8. QED
  BY <1>1, <1>2, <1>3, <1>4, <1>5, <1>6, <1>7

LEMMA FlockDirKeeps ==
  ASSUME NEW x \in Actors, IInv, FlockDir(x)
  PROVE  IInv'
<1> USE DEF IInv, FlockDir, Return, Closed, Drop, DirBusy, disk, Actors, Releasing
<1>1. TypeOK'
  BY DEF TypeOK, Phases, Steps, TakeSteps, LockSteps, WorkSteps
<1>2. Order'
  BY DEF TypeOK, Order, LockSteps
<1>3. DirSafe'
  BY DEF TypeOK, Order, DirSafe, HasDir
<1>4. LockSafe'
  BY DEF TypeOK, Order, LockSteps, LockSafe, LockNamed, HasLock
<1>5. LockNamed'
  BY DEF TypeOK, Order, TakeSteps, LockSteps, DirSafe, LockSafe, LockNamed, HasDir, HasLock
<1>6. SocketSafe'
  BY DEF TypeOK, Order, LockSafe, LockNamed, SocketSafe, Leased, HasLock
<1>7. StandsAsLaunched'
  BY DEF TypeOK, Order, LockSafe, LockNamed, StandsAsLaunched, HasLock
<1>8. QED
  BY <1>1, <1>2, <1>3, <1>4, <1>5, <1>6, <1>7

LEMMA SameDirKeeps ==
  ASSUME NEW x \in Actors, IInv, SameDir(x)
  PROVE  IInv'
<1> USE DEF IInv, SameDir, Return, Closed, Drop, First, disk, Actors, Releasing
<1>1. TypeOK'
  BY DEF TypeOK, Phases, Steps, TakeSteps, LockSteps, WorkSteps
<1>2. Order'
  BY DEF TypeOK, Order, LockSteps, Phases
<1>3. DirSafe'
  BY DEF TypeOK, Order, DirSafe, HasDir
<1>4. LockSafe'
  BY DEF TypeOK, Order, LockSteps, LockSafe, LockNamed, HasLock
<1>5. LockNamed'
  BY DEF TypeOK, Order, TakeSteps, LockSteps, DirSafe, LockSafe, LockNamed, HasDir, HasLock
<1>6. SocketSafe'
  BY DEF TypeOK, Order, LockSafe, LockNamed, SocketSafe, Leased, HasLock
<1>7. StandsAsLaunched'
  BY DEF TypeOK, Order, LockSafe, LockNamed, StandsAsLaunched, HasLock
<1>8. QED
  BY <1>1, <1>2, <1>3, <1>4, <1>5, <1>6, <1>7

LEMMA OpenLockKeeps ==
  ASSUME NEW x \in Actors, IInv, OpenLock(x)
  PROVE  IInv'
<1> USE DEF IInv, OpenLock, disk, Actors, Releasing
<1>1. TypeOK'
  BY DEF TypeOK, Phases, Steps, TakeSteps, LockSteps, WorkSteps, FreeLocks
<1>2. Order'
  BY DEF TypeOK, Order, LockSteps
<1>3. DirSafe'
  BY DEF TypeOK, Order, DirSafe, HasDir
\* A sweep that stands under the lock without a file would stand in the directory beside x.
<1>4. ASSUME NEW b \in Actors, b # x, HasLock(b), phase[b] # "leave"
      PROVE  lockFd[b] = lockPath /\ lockPath # NoInode
  <2>1. HasDir(x) /\ at[x] # "same" /\ dirFd[x] = dir
    BY DEF DirSafe, HasDir
  <2>2. CASE phase[b] = "sweep"
    BY <1>4, <2>1, <2>2 DEF DirSafe, HasDir, HasLock
  <2>3. CASE phase[b] # "sweep"
    BY <1>4, <2>3 DEF LockNamed
  <2>4. QED
    BY <2>2, <2>3
<1>5. ASSUME NEW b \in Actors, b # x, at[b] = "exclusive"
      PROVE  FALSE
  BY <1>5 DEF DirSafe, HasDir
\* x itself comes to hold no flock, or goes on as a sweep without a file.
<1>6. /\ HasLock(x)' => lockFd'[x] = NoInode /\ phase[x] = "sweep"
      /\ lockFd'[x] = lockPath'
  BY DEF TypeOK, HasLock, Order, TakeSteps, LockSteps, LockNamed
<1>7. LockSafe'
  BY <1>4, <1>6 DEF TypeOK, LockSafe, HasLock
<1>8. LockNamed'
  BY <1>4, <1>5, <1>6 DEF TypeOK, Order, TakeSteps, LockSteps, LockNamed, HasLock, FreeLocks
<1>9. \A p \in Sessions : Leased(p)' <=> Leased(p)
  <2>1. \A p \in Sessions : phase[p] = "leave" => lockFd[p] # NoInode /\ p # x
    BY DEF Order, LockSteps, LockNamed, HasLock
  <2>2. QED
    BY <2>1 DEF TypeOK, Order, Leased, FreeLocks
<1>10. SocketSafe'
  BY <1>9 DEF TypeOK, SocketSafe
<1>11. StandsAsLaunched'
  BY DEF StandsAsLaunched
<1>12. QED
  BY <1>1, <1>2, <1>3, <1>7, <1>8, <1>10, <1>11

LEMMA FlockLockKeeps ==
  ASSUME NEW x \in Actors, IInv, FlockLock(x)
  PROVE  IInv'
<1> USE DEF IInv, FlockLock, Return, Closed, Drop, LockBusy, disk, Actors, Releasing
<1>1. TypeOK'
  BY DEF TypeOK, Phases, Steps, TakeSteps, LockSteps, WorkSteps
<1>2. Order'
  BY DEF TypeOK, Order, LockSteps
<1>3. DirSafe'
  BY DEF TypeOK, Order, DirSafe, HasDir
<1>4. LockSafe'
  BY DEF TypeOK, Order, LockSteps, LockSafe, LockNamed, HasLock
<1>5. LockNamed'
  BY DEF TypeOK, Order, TakeSteps, LockSteps, DirSafe, LockSafe, LockNamed, HasDir, HasLock
<1>6. SocketSafe'
  BY DEF TypeOK, Order, LockSafe, LockNamed, SocketSafe, Leased, HasLock
<1>7. StandsAsLaunched'
  BY DEF TypeOK, Order, LockSafe, LockNamed, StandsAsLaunched, HasLock
<1>8. QED
  BY <1>1, <1>2, <1>3, <1>4, <1>5, <1>6, <1>7

LEMMA MatchLockKeeps ==
  ASSUME NEW x \in Actors, IInv, MatchLock(x)
  PROVE  IInv'
<1> USE DEF IInv, MatchLock, Return, Closed, Drop, Matches, disk, Actors, Releasing
<1>1. TypeOK'
  BY DEF TypeOK, Phases, Steps, TakeSteps, LockSteps, WorkSteps
<1>2. Order'
  BY DEF TypeOK, Order, LockSteps
<1>3. DirSafe'
  BY DEF TypeOK, Order, DirSafe, HasDir
<1>4. LockSafe'
  BY DEF TypeOK, Order, LockSteps, LockSafe, LockNamed, HasLock
<1>5. LockNamed'
  BY DEF TypeOK, Order, TakeSteps, LockSteps, DirSafe, LockSafe, LockNamed, HasDir, HasLock
<1>6. SocketSafe'
  BY DEF TypeOK, Order, LockSafe, LockNamed, SocketSafe, Leased, HasLock
<1>7. StandsAsLaunched'
  BY DEF TypeOK, Order, LockSafe, LockNamed, StandsAsLaunched, HasLock
<1>8. QED
  BY <1>1, <1>2, <1>3, <1>4, <1>5, <1>6, <1>7

LEMMA StartKeeps ==
  ASSUME NEW x \in Sessions, IInv, Start(x)
  PROVE  IInv'
<1> USE DEF IInv, Start, disk, Actors, Releasing
<1>1. TypeOK'
  BY DEF TypeOK, Phases, Steps, TakeSteps, LockSteps, WorkSteps
<1>2. Order'
  BY DEF TypeOK, Order, LockSteps
<1>3. DirSafe'
  BY DEF TypeOK, Order, DirSafe, HasDir
<1>4. LockSafe'
  BY DEF TypeOK, Order, LockSteps, LockSafe, LockNamed, HasLock
<1>5. LockNamed'
  BY DEF TypeOK, Order, TakeSteps, LockSteps, DirSafe, LockSafe, LockNamed, HasDir, HasLock
<1>6. SocketSafe'
  BY DEF TypeOK, Order, LockSafe, LockNamed, SocketSafe, Leased, HasLock
<1>7. StandsAsLaunched'
  BY DEF TypeOK, Order, LockSafe, LockNamed, StandsAsLaunched, HasLock
<1>8. QED
  BY <1>1, <1>2, <1>3, <1>4, <1>5, <1>6, <1>7

LEMMA ProbeKeeps ==
  ASSUME NEW x \in Sessions, IInv, Probe(x)
  PROVE  IInv'
<1> USE DEF IInv, Probe, disk, Actors, Releasing
<1>1. TypeOK'
  BY DEF TypeOK, Phases, Steps, TakeSteps, LockSteps, WorkSteps
<1>2. Order'
  BY DEF TypeOK, Order, LockSteps
<1>3. DirSafe'
  BY DEF TypeOK, Order, DirSafe, HasDir
<1>4. LockSafe'
  BY DEF TypeOK, Order, LockSteps, LockSafe, LockNamed, HasLock
<1>5. LockNamed'
  BY DEF TypeOK, Order, TakeSteps, LockSteps, DirSafe, LockSafe, LockNamed, HasDir, HasLock
<1>6. SocketSafe'
  BY DEF TypeOK, Order, LockSafe, LockNamed, SocketSafe, Leased, HasLock
<1>7. StandsAsLaunched'
  BY DEF TypeOK, Order, LockSafe, LockNamed, StandsAsLaunched, HasLock
<1>8. QED
  BY <1>1, <1>2, <1>3, <1>4, <1>5, <1>6, <1>7

LEMMA ClearKeeps ==
  ASSUME NEW x \in Sessions, IInv, Clear(x)
  PROVE  IInv'
<1> USE DEF IInv, Clear, Go, disk, Actors, Releasing
<1>1. TypeOK'
  BY DEF TypeOK, Phases, Steps, TakeSteps, LockSteps, WorkSteps
<1>2. Order'
  BY DEF TypeOK, Order, LockSteps
<1>3. DirSafe'
  BY DEF TypeOK, Order, DirSafe, HasDir
<1>4. LockSafe'
  BY DEF TypeOK, Order, LockSteps, LockSafe, LockNamed, HasLock
<1>5. LockNamed'
  BY DEF TypeOK, Order, TakeSteps, LockSteps, DirSafe, LockSafe, LockNamed, HasDir, HasLock
<1>6. SocketSafe'
  BY DEF TypeOK, Order, LockSafe, LockNamed, SocketSafe, Leased, HasLock
<1>7. StandsAsLaunched'
  BY DEF TypeOK, Order, LockSafe, LockNamed, StandsAsLaunched, HasLock
<1>8. QED
  BY <1>1, <1>2, <1>3, <1>4, <1>5, <1>6, <1>7

LEMMA ListenKeeps ==
  ASSUME NEW x \in Sessions, IInv, Listen(x)
  PROVE  IInv'
<1> USE DEF IInv, Listen, Return, Closed, Drop, disk, Actors, Releasing
<1>1. TypeOK'
  BY DEF TypeOK, Phases, Steps, TakeSteps, LockSteps, WorkSteps, FreeSocks
<1>2. Order'
  BY DEF TypeOK, Order, LockSteps
<1>3. DirSafe'
  BY DEF TypeOK, Order, DirSafe, HasDir
<1>4. LockSafe'
  BY DEF TypeOK, Order, LockSteps, LockSafe, LockNamed, HasLock
<1>5. LockNamed'
  BY DEF TypeOK, Order, TakeSteps, LockSteps, DirSafe, LockSafe, LockNamed, HasDir, HasLock
<1>6. SocketSafe'
  BY DEF TypeOK, Order, LockSafe, LockNamed, SocketSafe, Leased, HasLock, FreeSocks
<1>7. StandsAsLaunched'
  BY DEF TypeOK, Order, LockSafe, LockNamed, StandsAsLaunched, HasLock
<1>8. QED
  BY <1>1, <1>2, <1>3, <1>4, <1>5, <1>6, <1>7

LEMMA VerifyKeeps ==
  ASSUME NEW x \in Sessions, IInv, Verify(x)
  PROVE  IInv'
<1> USE DEF IInv, Verify, Return, Closed, Drop, disk, Actors, Releasing
<1>1. TypeOK'
  BY DEF TypeOK, Phases, Steps, TakeSteps, LockSteps, WorkSteps
<1>2. Order'
  BY DEF TypeOK, Order, LockSteps
<1>3. DirSafe'
  BY DEF TypeOK, Order, DirSafe, HasDir
<1>4. LockSafe'
  BY DEF TypeOK, Order, LockSteps, LockSafe, LockNamed, HasLock
<1>5. LockNamed'
  BY DEF TypeOK, Order, TakeSteps, LockSteps, DirSafe, LockSafe, LockNamed, HasDir, HasLock
<1>6. SocketSafe'
  BY DEF TypeOK, Order, LockSafe, LockNamed, SocketSafe, Leased, HasLock
<1>7. StandsAsLaunched'
  BY DEF TypeOK, Order, LockSafe, LockNamed, StandsAsLaunched, HasLock
<1>8. QED
  BY <1>1, <1>2, <1>3, <1>4, <1>5, <1>6, <1>7

LEMMA AnnounceKeeps ==
  ASSUME NEW x \in Sessions, IInv, Announce(x)
  PROVE  IInv'
<1> USE DEF IInv, Announce, disk, Actors, Releasing
<1>1. TypeOK'
  BY DEF TypeOK, Phases, Steps, TakeSteps, LockSteps, WorkSteps
<1>2. Order'
  BY DEF TypeOK, Order, LockSteps
<1>3. DirSafe'
  BY DEF TypeOK, Order, DirSafe, HasDir
<1>4. LockSafe'
  BY DEF TypeOK, Order, LockSteps, LockSafe, LockNamed, HasLock
<1>5. LockNamed'
  BY DEF TypeOK, Order, TakeSteps, LockSteps, DirSafe, LockSafe, LockNamed, HasDir, HasLock
<1>6. SocketSafe'
  BY DEF TypeOK, Order, LockSafe, LockNamed, SocketSafe, Leased, HasLock
<1>7. StandsAsLaunched'
  BY DEF TypeOK, Order, LockSafe, LockNamed, StandsAsLaunched, HasLock
<1>8. QED
  BY <1>1, <1>2, <1>3, <1>4, <1>5, <1>6, <1>7

LEMMA AnnounceFailsKeeps ==
  ASSUME NEW x \in Sessions, IInv, AnnounceFails(x)
  PROVE  IInv'
<1> USE DEF IInv, AnnounceFails, disk, Actors, Releasing
<1>1. TypeOK'
  BY DEF TypeOK, Phases, Steps, TakeSteps, LockSteps, WorkSteps
<1>2. Order'
  BY DEF TypeOK, Order, LockSteps
<1>3. DirSafe'
  BY DEF TypeOK, Order, DirSafe, HasDir
<1>4. LockSafe'
  BY DEF TypeOK, Order, LockSteps, LockSafe, LockNamed, HasLock
<1>5. LockNamed'
  BY DEF TypeOK, Order, TakeSteps, LockSteps, DirSafe, LockSafe, LockNamed, HasDir, HasLock
<1>6. SocketSafe'
  BY DEF TypeOK, Order, LockSafe, LockNamed, SocketSafe, Leased, HasLock
<1>7. StandsAsLaunched'
  BY DEF TypeOK, Order, LockSafe, LockNamed, StandsAsLaunched, HasLock
<1>8. QED
  BY <1>1, <1>2, <1>3, <1>4, <1>5, <1>6, <1>7

LEMMA ForgetKeeps ==
  ASSUME NEW x \in Sessions, IInv, Forget(x)
  PROVE  IInv'
<1> USE DEF IInv, Forget, disk, Actors, Releasing
<1>1. TypeOK'
  BY DEF TypeOK, Phases, Steps, TakeSteps, LockSteps, WorkSteps
<1>2. Order'
  BY DEF TypeOK, Order, LockSteps
<1>3. DirSafe'
  BY DEF TypeOK, Order, DirSafe, HasDir
<1>4. LockSafe'
  BY DEF TypeOK, Order, LockSteps, LockSafe, LockNamed, HasLock
<1>5. LockNamed'
  BY DEF TypeOK, Order, TakeSteps, LockSteps, DirSafe, LockSafe, LockNamed, HasDir, HasLock
<1>6. SocketSafe'
  BY DEF TypeOK, Order, LockSafe, LockNamed, SocketSafe, Leased, HasLock
<1>7. StandsAsLaunched'
  BY DEF TypeOK, Order, LockSafe, LockNamed, StandsAsLaunched, HasLock
<1>8. QED
  BY <1>1, <1>2, <1>3, <1>4, <1>5, <1>6, <1>7

LEMMA MatchLeaseKeeps ==
  ASSUME NEW x \in Sessions, IInv, MatchLease(x)
  PROVE  IInv'
<1> USE DEF IInv, MatchLease, Return, Closed, Drop, Matches, disk, Actors, Releasing
<1>1. TypeOK'
  BY DEF TypeOK, Phases, Steps, TakeSteps, LockSteps, WorkSteps
<1>2. Order'
  BY DEF TypeOK, Order, LockSteps
<1>3. DirSafe'
  BY DEF TypeOK, Order, DirSafe, HasDir
<1>4. LockSafe'
  BY DEF TypeOK, Order, LockSteps, LockSafe, LockNamed, HasLock
<1>5. LockNamed'
  BY DEF TypeOK, Order, TakeSteps, LockSteps, DirSafe, LockSafe, LockNamed, HasDir, HasLock
<1>6. SocketSafe'
  BY DEF TypeOK, Order, LockSafe, LockNamed, SocketSafe, Leased, HasLock
<1>7. StandsAsLaunched'
  BY DEF TypeOK, Order, LockSafe, LockNamed, StandsAsLaunched, HasLock
<1>8. QED
  BY <1>1, <1>2, <1>3, <1>4, <1>5, <1>6, <1>7

LEMMA UnlinkOwnKeeps ==
  ASSUME NEW x \in Sessions, IInv, UnlinkOwn(x)
  PROVE  IInv'
<1> USE DEF IInv, UnlinkOwn, Go, disk, Actors, Releasing
<1>1. TypeOK'
  BY DEF TypeOK, Phases, Steps, TakeSteps, LockSteps, WorkSteps
<1>2. Order'
  BY DEF TypeOK, Order, LockSteps
<1>3. DirSafe'
  BY DEF TypeOK, Order, DirSafe, HasDir
<1>4. LockSafe'
  BY DEF TypeOK, Order, LockSteps, LockSafe, LockNamed, HasLock
<1>5. LockNamed'
  BY DEF TypeOK, Order, TakeSteps, LockSteps, DirSafe, LockSafe, LockNamed, HasDir, HasLock
<1>6. SocketSafe'
  BY DEF TypeOK, Order, LockSafe, LockNamed, SocketSafe, Leased, HasLock
<1>7. StandsAsLaunched'
  BY DEF TypeOK, Order, LockSafe, LockNamed, StandsAsLaunched, HasLock
<1>8. QED
  BY <1>1, <1>2, <1>3, <1>4, <1>5, <1>6, <1>7

LEMMA UnlinkLockKeeps ==
  ASSUME NEW x \in Sessions, IInv, UnlinkLock(x)
  PROVE  IInv'
<1> USE DEF IInv, UnlinkLock, Return, Closed, Drop, disk, Actors, Releasing
<1>1. TypeOK'
  BY DEF TypeOK, Phases, Steps, TakeSteps, LockSteps, WorkSteps
<1>2. Order'
  BY DEF TypeOK, Order, LockSteps
<1>3. DirSafe'
  BY DEF TypeOK, Order, DirSafe, HasDir
<1>4. LockSafe'
  BY DEF TypeOK, Order, LockSteps, LockSafe, LockNamed, HasLock
<1>5. LockNamed'
  BY DEF TypeOK, Order, TakeSteps, LockSteps, DirSafe, LockSafe, LockNamed, HasDir, HasLock
<1>6. SocketSafe'
  BY DEF TypeOK, Order, LockSafe, LockNamed, SocketSafe, Leased, HasLock
<1>7. StandsAsLaunched'
  BY DEF TypeOK, Order, LockSafe, LockNamed, StandsAsLaunched, HasLock
<1>8. QED
  BY <1>1, <1>2, <1>3, <1>4, <1>5, <1>6, <1>7

LEMMA RmdirKeeps ==
  ASSUME NEW x \in Sessions, IInv, Rmdir(x)
  PROVE  IInv'
<1> USE DEF IInv, Rmdir, Closed, Drop, disk, Actors, Releasing
<1>1. TypeOK'
  BY DEF TypeOK, Phases, Steps, TakeSteps, LockSteps, WorkSteps
<1>2. Order'
  BY DEF TypeOK, Order, LockSteps
<1>3. DirSafe'
  BY DEF TypeOK, Order, DirSafe, HasDir
<1>4. LockSafe'
  BY DEF TypeOK, Order, LockSteps, LockSafe, LockNamed, HasLock
<1>5. LockNamed'
  BY DEF TypeOK, Order, TakeSteps, LockSteps, DirSafe, LockSafe, LockNamed, HasDir, HasLock
<1>6. SocketSafe'
  BY DEF TypeOK, Order, LockSafe, LockNamed, SocketSafe, Leased, HasLock
<1>7. StandsAsLaunched'
  BY DEF TypeOK, Order, LockSafe, LockNamed, StandsAsLaunched, HasLock
<1>8. QED
  BY <1>1, <1>2, <1>3, <1>4, <1>5, <1>6, <1>7

LEMMA ListKeeps ==
  ASSUME NEW x \in Sweepers, IInv, List(x)
  PROVE  IInv'
<1> USE DEF IInv, List, disk, Actors, Releasing
<1>1. TypeOK'
  BY DEF TypeOK, Phases, Steps, TakeSteps, LockSteps, WorkSteps
<1>2. Order'
  BY DEF TypeOK, Order, LockSteps
<1>3. DirSafe'
  BY DEF TypeOK, Order, DirSafe, HasDir
<1>4. LockSafe'
  BY DEF TypeOK, Order, LockSteps, LockSafe, LockNamed, HasLock
<1>5. LockNamed'
  BY DEF TypeOK, Order, TakeSteps, LockSteps, DirSafe, LockSafe, LockNamed, HasDir, HasLock
<1>6. SocketSafe'
  BY DEF TypeOK, Order, LockSafe, LockNamed, SocketSafe, Leased, HasLock
<1>7. StandsAsLaunched'
  BY DEF TypeOK, Order, LockSafe, LockNamed, StandsAsLaunched, HasLock
<1>8. QED
  BY <1>1, <1>2, <1>3, <1>4, <1>5, <1>6, <1>7

LEMMA SweepProbeKeeps ==
  ASSUME NEW x \in Sweepers, IInv, SweepProbe(x)
  PROVE  IInv'
<1> USE DEF IInv, SweepProbe, Return, Closed, Drop, disk, Actors, Releasing
<1>1. TypeOK'
  BY DEF TypeOK, Phases, Steps, TakeSteps, LockSteps, WorkSteps
<1>2. Order'
  BY DEF TypeOK, Order, LockSteps
<1>3. DirSafe'
  BY DEF TypeOK, Order, DirSafe, HasDir
<1>4. LockSafe'
  BY DEF TypeOK, Order, LockSteps, LockSafe, LockNamed, HasLock
<1>5. LockNamed'
  BY DEF TypeOK, Order, TakeSteps, LockSteps, DirSafe, LockSafe, LockNamed, HasDir, HasLock
<1>6. SocketSafe'
  BY DEF TypeOK, Order, LockSafe, LockNamed, SocketSafe, Leased, HasLock
<1>7. StandsAsLaunched'
  BY DEF TypeOK, Order, LockSafe, LockNamed, StandsAsLaunched, HasLock
<1>8. QED
  BY <1>1, <1>2, <1>3, <1>4, <1>5, <1>6, <1>7

LEMMA SweepSocketKeeps ==
  ASSUME NEW x \in Sweepers, IInv, SweepSocket(x)
  PROVE  IInv'
<1> USE DEF IInv, SweepSocket, Go, disk, Actors, Releasing
<1>1. TypeOK'
  BY DEF TypeOK, Phases, Steps, TakeSteps, LockSteps, WorkSteps
<1>2. Order'
  BY DEF TypeOK, Order, LockSteps
<1>3. DirSafe'
  BY DEF TypeOK, Order, DirSafe, HasDir
<1>4. LockSafe'
  BY DEF TypeOK, Order, LockSteps, LockSafe, LockNamed, HasLock
<1>5. LockNamed'
  BY DEF TypeOK, Order, TakeSteps, LockSteps, DirSafe, LockSafe, LockNamed, HasDir, HasLock
<1>6. SocketSafe'
  BY DEF TypeOK, Order, LockSafe, LockNamed, SocketSafe, Leased, HasLock
<1>7. StandsAsLaunched'
  BY DEF TypeOK, Order, LockSafe, LockNamed, StandsAsLaunched, HasLock
<1>8. QED
  BY <1>1, <1>2, <1>3, <1>4, <1>5, <1>6, <1>7

LEMMA SweepNoteKeeps ==
  ASSUME NEW x \in Sweepers, IInv, SweepNote(x)
  PROVE  IInv'
<1> USE DEF IInv, SweepNote, Go, disk, Actors, Releasing
<1>1. TypeOK'
  BY DEF TypeOK, Phases, Steps, TakeSteps, LockSteps, WorkSteps
<1>2. Order'
  BY DEF TypeOK, Order, LockSteps
<1>3. DirSafe'
  BY DEF TypeOK, Order, DirSafe, HasDir
<1>4. LockSafe'
  BY DEF TypeOK, Order, LockSteps, LockSafe, LockNamed, HasLock
<1>5. LockNamed'
  BY DEF TypeOK, Order, TakeSteps, LockSteps, DirSafe, LockSafe, LockNamed, HasDir, HasLock
<1>6. SocketSafe'
  BY DEF TypeOK, Order, LockSafe, LockNamed, SocketSafe, Leased, HasLock
<1>7. StandsAsLaunched'
  BY DEF TypeOK, Order, LockSafe, LockNamed, StandsAsLaunched, HasLock
<1>8. QED
  BY <1>1, <1>2, <1>3, <1>4, <1>5, <1>6, <1>7

LEMMA SweepLockKeeps ==
  ASSUME NEW x \in Sweepers, IInv, SweepLock(x)
  PROVE  IInv'
<1> USE DEF IInv, SweepLock, Closed, Drop, disk, Actors, Releasing
<1>1. TypeOK'
  BY DEF TypeOK, Phases, Steps, TakeSteps, LockSteps, WorkSteps
<1>2. Order'
  BY DEF TypeOK, Order, LockSteps
<1>3. DirSafe'
  BY DEF TypeOK, Order, DirSafe, HasDir
<1>4. LockSafe'
  BY DEF TypeOK, Order, LockSteps, LockSafe, LockNamed, HasLock
<1>5. LockNamed'
  BY DEF TypeOK, Order, TakeSteps, LockSteps, DirSafe, LockSafe, LockNamed, HasDir, HasLock
<1>6. SocketSafe'
  BY DEF TypeOK, Order, LockSafe, LockNamed, SocketSafe, Leased, HasLock
<1>7. StandsAsLaunched'
  BY DEF TypeOK, Order, LockSafe, LockNamed, StandsAsLaunched, HasLock
<1>8. QED
  BY <1>1, <1>2, <1>3, <1>4, <1>5, <1>6, <1>7

LEMMA CrashKeeps ==
  ASSUME NEW x \in Actors, IInv, Crash(x)
  PROVE  IInv'
<1> USE DEF IInv, Crash, Closed, Drop, disk, Actors, Releasing
<1>1. TypeOK'
  BY DEF TypeOK, Phases, Steps, TakeSteps, LockSteps, WorkSteps
<1>2. Order'
  BY DEF TypeOK, Order, LockSteps
<1>3. DirSafe'
  BY DEF TypeOK, Order, DirSafe, HasDir
<1>4. LockSafe'
  BY DEF TypeOK, Order, LockSteps, LockSafe, LockNamed, HasLock
<1>5. LockNamed'
  BY DEF TypeOK, Order, TakeSteps, LockSteps, DirSafe, LockSafe, LockNamed, HasDir, HasLock
<1>6. SocketSafe'
  BY DEF TypeOK, Order, LockSafe, LockNamed, SocketSafe, Leased, HasLock
<1>7. StandsAsLaunched'
  BY DEF TypeOK, Order, LockSafe, LockNamed, StandsAsLaunched, HasLock
<1>8. QED
  BY <1>1, <1>2, <1>3, <1>4, <1>5, <1>6, <1>7

-----------------------------------------------------------------------------
-----------------------------------------------------------------------------
\* The theorems.

LEMMA InitIInv == Init => IInv
<1> SUFFICES ASSUME Init
             PROVE  IInv
  OBVIOUS
<1> USE DEF Init, Actors
<1>1. TypeOK
  BY DEF TypeOK, Phases, Steps
<1>2. Order /\ DirSafe /\ LockSafe /\ LockNamed
  BY DEF Order, DirSafe, LockSafe, LockNamed, HasDir, HasLock, TakeSteps, LockSteps, Releasing
<1>3. SocketSafe /\ StandsAsLaunched
  BY DEF SocketSafe, StandsAsLaunched, Leased, Releasing
<1>4. QED
  BY <1>1, <1>2, <1>3 DEF IInv

LEMMA StepIInv == IInv /\ [Next]_vars => IInv'
<1> SUFFICES ASSUME IInv, [Next]_vars
             PROVE  IInv'
  OBVIOUS
<1>1. ASSUME NEW a \in Actors, Take(a) \/ Lock(a) \/ Crash(a)
      PROVE  IInv'
  BY <1>1, OpenDirKeeps, FlockDirKeeps, SameDirKeeps, OpenLockKeeps, FlockLockKeeps,
     MatchLockKeeps, CrashKeeps
     DEF Take, Lock
<1>2. ASSUME NEW p \in Sessions,
             Start(p) \/ Bind(p) \/ Announce(p) \/ AnnounceFails(p) \/ Forget(p) \/ Release(p)
      PROVE  IInv'
  BY <1>2, StartKeeps, ProbeKeeps, ClearKeeps, ListenKeeps, VerifyKeeps,
     AnnounceKeeps, AnnounceFailsKeeps, ForgetKeeps, MatchLeaseKeeps, UnlinkOwnKeeps,
     UnlinkLockKeeps, RmdirKeeps
     DEF Bind, Release
<1>3. ASSUME NEW s \in Sweepers, List(s) \/ Sweep(s)
      PROVE  IInv'
  BY <1>3, ListKeeps, SweepProbeKeeps, SweepSocketKeeps, SweepNoteKeeps, SweepLockKeeps
     DEF Sweep
<1>4. CASE UNCHANGED vars
  BY <1>4 DEF vars, IInv, TypeOK, Order, DirSafe, LockSafe, LockNamed, SocketSafe,
              StandsAsLaunched, HasDir, HasLock, Leased
<1>5. QED
  BY <1>1, <1>2, <1>3, <1>4 DEF Next, Step

LEMMA Invariance == Spec => []IInv
BY InitIInv, StepIInv, PTL DEF Spec

\* Every variable keeps its shape (SocketLease!TypeOK), for any number of processes and inodes.
THEOREM Typed == Spec => []TypeOK
<1>1. IInv => TypeOK
  BY DEF IInv
<1>2. QED
  BY <1>1, Invariance, PTL

\* No two sessions hold a lease on the name at once (SocketLease!OneLease): serving::binding::bind
\* excludes, whatever sweeps, releases, kills and rmdirs fall between its calls.
THEOREM LeaseExcludes == Spec => []OneLease
<1>1. IInv => OneLease
  BY DEF IInv, OneLease, SocketSafe
<1>2. QED
  BY <1>1, Invariance, PTL

\* A session that holds its lease has the socket, the lock and the directory of its name
\* (SocketLease!LeaseHoldsName): no forget_id and no Lease::release of another takes them.
THEOREM NameKept == Spec => []LeaseHoldsName
<1>1. IInv => LeaseHoldsName
  <2> SUFFICES ASSUME IInv, NEW p \in Sessions, phase[p] \in {"bound", "serving"}
               PROVE  /\ sockPath = listening[p] /\ listening[p] # NoInode
                      /\ lockPath = lockFd[p] /\ lockFd[p] # NoInode
                      /\ lockPath # NoInode => dir # NoInode
    BY DEF LeaseHoldsName
  <2>1. Leased(p) /\ HasLock(p) /\ p \in Actors
    BY DEF Leased, HasLock, Actors
  <2>2. QED
    BY <2>1 DEF IInv, SocketSafe, LockNamed, DirSafe
<1>2. QED
  BY <1>1, Invariance, PTL

\* A serving session stands in the tree where its launch put it (SocketLease!StandsAsLaunched): a
\* sweep begun against a dead holder never takes the note of the live one.
THEOREM NoteKept == Spec => []StandsAsLaunched
<1>1. IInv => StandsAsLaunched
  BY DEF IInv
<1>2. QED
  BY <1>1, Invariance, PTL

-----------------------------------------------------------------------------
\* SocketLease implements NameOwner.

\* Whoever holds a lease answers, and one session answers at a time.
LEMMA OneAnswers ==
  ASSUME IInv
  PROVE  /\ Holders \subseteq Answering
         /\ \A p \in Answering : Answering = {p}
BY DEF IInv, SocketSafe, Holders, Answering

\* What a step may do to the name: nobody answers in the place of another, a holder stops holding
\* only as it stops answering, and none starts to hold as it starts to answer.
NameStep ==
  /\ Answering' \subseteq Answering \/ Answering = {}
  /\ Holders \subseteq Holders' \/ Answering' = {}
  /\ Holders' \subseteq Holders \/ Answering' = Answering

LEMMA NameStepSuffices ==
  ASSUME IInv, IInv', NameStep
  PROVE  [Name!Next]_(Name!vars)
<1>1. /\ Holders \subseteq Answering /\ \A p \in Answering : Answering = {p}
      /\ Holders' \subseteq Answering' /\ \A p \in Answering' : Answering' = {p}
  BY OneAnswers DEF IInv, SocketSafe, Holders, Answering
<1>2. Answering \subseteq Sessions /\ Answering' \subseteq Sessions
  BY DEF Answering
<1>3. CASE Answering' = Answering
  BY <1>1, <1>2, <1>3 DEF NameStep, Name!Next, Name!Own, Name!vars
<1>4. CASE Answering = {} /\ Answering' # {}
  BY <1>1, <1>2, <1>4 DEF NameStep, Name!Next, Name!Answer
<1>5. CASE Answering # {} /\ Answering' = {}
  BY <1>1, <1>2, <1>5 DEF NameStep, Name!Next, Name!Quit
<1>6. QED
  BY <1>1, <1>3, <1>4, <1>5 DEF NameStep

LEMMA EveryNameStep == IInv /\ [Next]_vars => NameStep
<1> SUFFICES ASSUME IInv, [Next]_vars
             PROVE  NameStep
  OBVIOUS
<1> USE DEF NameStep, Holders, Answering, Leased, IInv, TypeOK, Order, LockSteps, LockSafe, LockNamed,
            SocketSafe, HasLock, disk, Actors, Releasing
<1>1. ASSUME NEW x \in Actors, OpenDir(x) PROVE NameStep
  BY <1>1 DEF OpenDir, Return, Closed, Drop
<1>2. ASSUME NEW x \in Actors, FlockDir(x) PROVE NameStep
  BY <1>2 DEF FlockDir, Return, Closed, Drop, DirBusy
<1>3. ASSUME NEW x \in Actors, SameDir(x) PROVE NameStep
  BY <1>3 DEF SameDir, Return, Closed, Drop, First
<1>4. ASSUME NEW x \in Actors, OpenLock(x) PROVE NameStep
  BY <1>4 DEF OpenLock, FreeLocks
<1>5. ASSUME NEW x \in Actors, FlockLock(x) PROVE NameStep
  BY <1>5 DEF FlockLock, Return, Closed, Drop, LockBusy
<1>6. ASSUME NEW x \in Actors, MatchLock(x) PROVE NameStep
  BY <1>6 DEF MatchLock, Return, Closed, Drop, Matches
<1>7. ASSUME NEW x \in Actors, Crash(x) PROVE NameStep
  BY <1>7 DEF Crash, Closed, Drop
<1>8. ASSUME NEW x \in Sessions, Start(x) PROVE NameStep
  BY <1>8 DEF Start
<1>9. ASSUME NEW x \in Sessions, Probe(x) PROVE NameStep
  BY <1>9 DEF Probe
<1>10. ASSUME NEW x \in Sessions, Clear(x) PROVE NameStep
  BY <1>10 DEF Clear, Go
<1>11. ASSUME NEW x \in Sessions, Listen(x) PROVE NameStep
  BY <1>11 DEF Listen, Return, Closed, Drop
<1>12. ASSUME NEW x \in Sessions, Verify(x) PROVE NameStep
  BY <1>12 DEF Verify, Return, Closed, Drop
<1>13. ASSUME NEW x \in Sessions, Announce(x) PROVE NameStep
  BY <1>13 DEF Announce
<1>14. ASSUME NEW x \in Sessions, AnnounceFails(x) PROVE NameStep
  BY <1>14 DEF AnnounceFails
<1>15. ASSUME NEW x \in Sessions, Forget(x) PROVE NameStep
  BY <1>15 DEF Forget
<1>16. ASSUME NEW x \in Sessions, MatchLease(x) PROVE NameStep
  BY <1>16 DEF MatchLease, Return, Closed, Drop, Matches
<1>17. ASSUME NEW x \in Sessions, UnlinkOwn(x) PROVE NameStep
  BY <1>17 DEF UnlinkOwn, Go
<1>18. ASSUME NEW x \in Sessions, UnlinkLock(x) PROVE NameStep
  BY <1>18 DEF UnlinkLock, Return, Closed, Drop
<1>19. ASSUME NEW x \in Sessions, Rmdir(x) PROVE NameStep
  BY <1>19 DEF Rmdir, Closed, Drop
<1>20. ASSUME NEW x \in Sweepers, List(x) PROVE NameStep
  BY <1>20 DEF List
<1>21. ASSUME NEW x \in Sweepers, SweepProbe(x) PROVE NameStep
  BY <1>21 DEF SweepProbe, Return, Closed, Drop
<1>22. ASSUME NEW x \in Sweepers, SweepSocket(x) PROVE NameStep
  BY <1>22 DEF SweepSocket, Go
<1>23. ASSUME NEW x \in Sweepers, SweepNote(x) PROVE NameStep
  BY <1>23 DEF SweepNote, Go
<1>24. ASSUME NEW x \in Sweepers, SweepLock(x) PROVE NameStep
  BY <1>24 DEF SweepLock, Closed, Drop
<1>25. CASE UNCHANGED vars
  BY <1>25 DEF vars
<1>26. QED
  BY <1>1, <1>2, <1>3, <1>4, <1>5, <1>6, <1>7, <1>8, <1>9, <1>10, <1>11, <1>12,
     <1>13, <1>14, <1>15, <1>16, <1>17, <1>18, <1>19, <1>20, <1>21, <1>22,
     <1>23, <1>24, <1>25
  DEF Next, Step, Take, Lock, Bind, Release, Sweep

LEMMA InitName == Init => Name!Init
BY DEF Init, Name!Init, Holders, Answering, Leased, Actors, Releasing

\* Seen from outside, the files of a name behave as NameOwner says (SocketLease!NameIsOwned): one
\* owner at a time, who is reached under the name from before it owns it until it stops.
THEOREM NameImplemented == Spec => NameIsOwned
<1>1. IInv /\ IInv' /\ [Next]_vars => [Name!Next]_(Name!vars)
  BY EveryNameStep, NameStepSuffices
<1>2. QED
  BY <1>1, InitName, Invariance, PTL DEF Spec, Name!Spec, NameIsOwned

-----------------------------------------------------------------------------
\* That live sockets stand, whatever is wiped from outside.

\* a is under the lock of the directory and has seen that it is the one at the path.
Inside(a) == HasDir(a) /\ at[a] # "same"

\* One is inside at a time.
OneInside ==
  /\ \A a, b \in Actors : HasDir(a) /\ HasDir(b) /\ dirFd[a] = dirFd[b] => a = b
  /\ \A a \in Actors : Inside(a) => dirFd[a] = dir
  /\ \A a \in Actors : HasDir(a) \/ at[a] = "flock" => dirFd[a] # NoInode

\* No two listen on one socket; and whoever is about to unlink another's has seen it dead.
Apart == \A p, q \in Sessions : listening[p] = listening[q] /\ listening[p] # NoInode => p = q
SeenDead ==
  \A a \in Actors : at[a] = "clear" \/ (phase[a] = "sweep" /\ at[a] = "socket") => ~Alive(sockPath)

WInv == TypeOK /\ Order /\ OneInside /\ Apart /\ SeenDead

LEMMA OpenDirLeaves ==
  ASSUME NEW x \in Actors, WInv, OpenDir(x)
  PROVE  WInv'
<1> USE Kinds DEF WInv, OpenDir, Return, Closed, Drop, disk, Actors, Releasing
<1>1. TypeOK'
  BY DEF TypeOK, Phases, Steps, TakeSteps, LockSteps, WorkSteps, FreeDirs
<1>2. Order'
  BY DEF TypeOK, Order, LockSteps
<1>3. OneInside'
  BY DEF TypeOK, Order, OneInside, HasDir, Inside, FreeDirs
<1>4. Apart' /\ SeenDead'
  BY DEF TypeOK, Order, OneInside, HasDir, Inside, Apart, SeenDead, Alive
<1> QED
  BY <1>1, <1>2, <1>3, <1>4

LEMMA FlockDirLeaves ==
  ASSUME NEW x \in Actors, WInv, FlockDir(x)
  PROVE  WInv'
<1> USE Kinds DEF WInv, FlockDir, Return, Closed, Drop, disk, Actors, Releasing
<1>1. TypeOK'
  BY DEF TypeOK, Phases, Steps, TakeSteps, LockSteps, WorkSteps
<1>2. Order'
  BY DEF TypeOK, Order, LockSteps
<1>3. OneInside'
  BY DEF TypeOK, Order, OneInside, HasDir, Inside, DirBusy
<1>4. Apart' /\ SeenDead'
  BY DEF TypeOK, Order, OneInside, HasDir, Inside, Apart, SeenDead, Alive
<1> QED
  BY <1>1, <1>2, <1>3, <1>4

LEMMA SameDirLeaves ==
  ASSUME NEW x \in Actors, WInv, SameDir(x)
  PROVE  WInv'
<1> USE DEF WInv, SameDir, Return, Closed, Drop, First, disk, Actors, Releasing
<1>1. TypeOK'
  BY DEF TypeOK, Phases, Steps, TakeSteps, LockSteps, WorkSteps
<1>2. Order'
  BY DEF TypeOK, Order, LockSteps, Phases
<1>3. OneInside'
  BY DEF TypeOK, Order, OneInside, HasDir, Inside, First
<1>4. Apart' /\ SeenDead'
  BY DEF TypeOK, Order, OneInside, HasDir, Inside, Apart, SeenDead, Alive, First
<1> QED
  BY <1>1, <1>2, <1>3, <1>4

LEMMA OpenLockLeaves ==
  ASSUME NEW x \in Actors, WInv, OpenLock(x)
  PROVE  WInv'
<1> USE Kinds DEF WInv, OpenLock, Return, Closed, Drop, disk, Actors, Releasing
<1>1. TypeOK'
  BY DEF TypeOK, Phases, Steps, TakeSteps, LockSteps, WorkSteps, FreeLocks
<1>2. Order'
  BY DEF TypeOK, Order, LockSteps
<1>3. OneInside'
  BY DEF TypeOK, Order, OneInside, HasDir, Inside
<1>4. Apart' /\ SeenDead'
  BY DEF TypeOK, Order, OneInside, HasDir, Inside, Apart, SeenDead, Alive
<1> QED
  BY <1>1, <1>2, <1>3, <1>4

LEMMA FlockLockLeaves ==
  ASSUME NEW x \in Actors, WInv, FlockLock(x)
  PROVE  WInv'
<1> USE Kinds DEF WInv, FlockLock, Return, Closed, Drop, disk, Actors, Releasing
<1>1. TypeOK'
  BY DEF TypeOK, Phases, Steps, TakeSteps, LockSteps, WorkSteps
<1>2. Order'
  BY DEF TypeOK, Order, LockSteps
<1>3. OneInside'
  BY DEF TypeOK, Order, OneInside, HasDir, Inside
<1>4. Apart' /\ SeenDead'
  BY DEF TypeOK, Order, OneInside, HasDir, Inside, Apart, SeenDead, Alive
<1> QED
  BY <1>1, <1>2, <1>3, <1>4

LEMMA MatchLockLeaves ==
  ASSUME NEW x \in Actors, WInv, MatchLock(x)
  PROVE  WInv'
<1> USE Kinds DEF WInv, MatchLock, Return, Closed, Drop, disk, Actors, Releasing
<1>1. TypeOK'
  BY DEF TypeOK, Phases, Steps, TakeSteps, LockSteps, WorkSteps
<1>2. Order'
  BY DEF TypeOK, Order, LockSteps
<1>3. OneInside'
  BY DEF TypeOK, Order, OneInside, HasDir, Inside
<1>4. Apart' /\ SeenDead'
  BY DEF TypeOK, Order, OneInside, HasDir, Inside, Apart, SeenDead, Alive
<1> QED
  BY <1>1, <1>2, <1>3, <1>4

LEMMA CrashLeaves ==
  ASSUME NEW x \in Actors, WInv, Crash(x)
  PROVE  WInv'
<1> USE Kinds DEF WInv, Crash, Return, Closed, Drop, disk, Actors, Releasing
<1>1. TypeOK'
  BY DEF TypeOK, Phases, Steps, TakeSteps, LockSteps, WorkSteps
<1>2. Order'
  BY DEF TypeOK, Order, LockSteps
<1>3. OneInside'
  BY DEF TypeOK, Order, OneInside, HasDir, Inside
<1>4. Apart' /\ SeenDead'
  BY DEF TypeOK, Order, OneInside, HasDir, Inside, Apart, SeenDead, Alive
<1> QED
  BY <1>1, <1>2, <1>3, <1>4

LEMMA StartLeaves ==
  ASSUME NEW x \in Sessions, WInv, Start(x)
  PROVE  WInv'
<1> USE Kinds DEF WInv, Start, Return, Closed, Drop, disk, Actors, Releasing
<1>1. TypeOK'
  BY DEF TypeOK, Phases, Steps, TakeSteps, LockSteps, WorkSteps
<1>2. Order'
  BY DEF TypeOK, Order, LockSteps
<1>3. OneInside'
  BY DEF TypeOK, Order, OneInside, HasDir, Inside
<1>4. Apart' /\ SeenDead'
  BY DEF TypeOK, Order, OneInside, HasDir, Inside, Apart, SeenDead, Alive
<1> QED
  BY <1>1, <1>2, <1>3, <1>4

LEMMA ProbeLeaves ==
  ASSUME NEW x \in Sessions, WInv, Probe(x)
  PROVE  WInv'
<1> USE Kinds DEF WInv, Probe, Return, Closed, Drop, disk, Actors, Releasing
<1>1. TypeOK'
  BY DEF TypeOK, Phases, Steps, TakeSteps, LockSteps, WorkSteps
<1>2. Order'
  BY DEF TypeOK, Order, LockSteps
<1>3. OneInside'
  BY DEF TypeOK, Order, OneInside, HasDir, Inside
<1>4. Apart' /\ SeenDead'
  BY DEF TypeOK, Order, OneInside, HasDir, Inside, Apart, SeenDead, Alive
<1> QED
  BY <1>1, <1>2, <1>3, <1>4

LEMMA ClearLeaves ==
  ASSUME NEW x \in Sessions, WInv, Clear(x)
  PROVE  WInv'
<1> USE Kinds DEF WInv, Clear, Return, Closed, Drop, Go, disk, Actors, Releasing
<1>1. TypeOK'
  BY DEF TypeOK, Phases, Steps, TakeSteps, LockSteps, WorkSteps
<1>2. Order'
  BY DEF TypeOK, Order, LockSteps
<1>3. OneInside'
  BY DEF TypeOK, Order, OneInside, HasDir, Inside
<1>4. Apart' /\ SeenDead'
  BY DEF TypeOK, Order, OneInside, HasDir, Inside, Apart, SeenDead, Alive
<1> QED
  BY <1>1, <1>2, <1>3, <1>4

LEMMA ListenLeaves ==
  ASSUME NEW x \in Sessions, WInv, Listen(x)
  PROVE  WInv'
<1> USE Kinds DEF WInv, Listen, Return, Closed, Drop, disk, Actors, Releasing
<1>1. TypeOK'
  BY DEF TypeOK, Phases, Steps, TakeSteps, LockSteps, WorkSteps, FreeSocks
<1>2. Order'
  BY DEF TypeOK, Order, LockSteps
<1>3. OneInside'
  BY DEF TypeOK, Order, OneInside, HasDir, Inside
<1>4. Apart' /\ SeenDead'
  BY DEF TypeOK, Order, OneInside, HasDir, Inside, Apart, SeenDead, Alive, FreeSocks
<1> QED
  BY <1>1, <1>2, <1>3, <1>4

LEMMA VerifyLeaves ==
  ASSUME NEW x \in Sessions, WInv, Verify(x)
  PROVE  WInv'
<1> USE Kinds DEF WInv, Verify, Return, Closed, Drop, disk, Actors, Releasing
<1>1. TypeOK'
  BY DEF TypeOK, Phases, Steps, TakeSteps, LockSteps, WorkSteps
<1>2. Order'
  BY DEF TypeOK, Order, LockSteps
<1>3. OneInside'
  BY DEF TypeOK, Order, OneInside, HasDir, Inside
<1>4. Apart' /\ SeenDead'
  BY DEF TypeOK, Order, OneInside, HasDir, Inside, Apart, SeenDead, Alive
<1> QED
  BY <1>1, <1>2, <1>3, <1>4

LEMMA AnnounceLeaves ==
  ASSUME NEW x \in Sessions, WInv, Announce(x)
  PROVE  WInv'
<1> USE Kinds DEF WInv, Announce, Return, Closed, Drop, disk, Actors, Releasing
<1>1. TypeOK'
  BY DEF TypeOK, Phases, Steps, TakeSteps, LockSteps, WorkSteps
<1>2. Order'
  BY DEF TypeOK, Order, LockSteps
<1>3. OneInside'
  BY DEF TypeOK, Order, OneInside, HasDir, Inside
<1>4. Apart' /\ SeenDead'
  BY DEF TypeOK, Order, OneInside, HasDir, Inside, Apart, SeenDead, Alive
<1> QED
  BY <1>1, <1>2, <1>3, <1>4

LEMMA AnnounceFailsLeaves ==
  ASSUME NEW x \in Sessions, WInv, AnnounceFails(x)
  PROVE  WInv'
<1> USE Kinds DEF WInv, AnnounceFails, Return, Closed, Drop, disk, Actors, Releasing
<1>1. TypeOK'
  BY DEF TypeOK, Phases, Steps, TakeSteps, LockSteps, WorkSteps
<1>2. Order'
  BY DEF TypeOK, Order, LockSteps
<1>3. OneInside'
  BY DEF TypeOK, Order, OneInside, HasDir, Inside
<1>4. Apart' /\ SeenDead'
  BY DEF TypeOK, Order, OneInside, HasDir, Inside, Apart, SeenDead, Alive
<1> QED
  BY <1>1, <1>2, <1>3, <1>4

LEMMA ForgetLeaves ==
  ASSUME NEW x \in Sessions, WInv, Forget(x)
  PROVE  WInv'
<1> USE Kinds DEF WInv, Forget, Return, Closed, Drop, disk, Actors, Releasing
<1>1. TypeOK'
  BY DEF TypeOK, Phases, Steps, TakeSteps, LockSteps, WorkSteps
<1>2. Order'
  BY DEF TypeOK, Order, LockSteps
<1>3. OneInside'
  BY DEF TypeOK, Order, OneInside, HasDir, Inside
<1>4. Apart' /\ SeenDead'
  BY DEF TypeOK, Order, OneInside, HasDir, Inside, Apart, SeenDead, Alive
<1> QED
  BY <1>1, <1>2, <1>3, <1>4

LEMMA MatchLeaseLeaves ==
  ASSUME NEW x \in Sessions, WInv, MatchLease(x)
  PROVE  WInv'
<1> USE Kinds DEF WInv, MatchLease, Return, Closed, Drop, disk, Actors, Releasing
<1>1. TypeOK'
  BY DEF TypeOK, Phases, Steps, TakeSteps, LockSteps, WorkSteps
<1>2. Order'
  BY DEF TypeOK, Order, LockSteps
<1>3. OneInside'
  BY DEF TypeOK, Order, OneInside, HasDir, Inside
<1>4. Apart' /\ SeenDead'
  BY DEF TypeOK, Order, OneInside, HasDir, Inside, Apart, SeenDead, Alive
<1> QED
  BY <1>1, <1>2, <1>3, <1>4

LEMMA UnlinkOwnLeaves ==
  ASSUME NEW x \in Sessions, WInv, UnlinkOwn(x)
  PROVE  WInv'
<1> USE Kinds DEF WInv, UnlinkOwn, Return, Closed, Drop, Go, disk, Actors, Releasing
<1>1. TypeOK'
  BY DEF TypeOK, Phases, Steps, TakeSteps, LockSteps, WorkSteps
<1>2. Order'
  BY DEF TypeOK, Order, LockSteps
<1>3. OneInside'
  BY DEF TypeOK, Order, OneInside, HasDir, Inside
<1>4. Apart' /\ SeenDead'
  BY DEF TypeOK, Order, OneInside, HasDir, Inside, Apart, SeenDead, Alive
<1> QED
  BY <1>1, <1>2, <1>3, <1>4

LEMMA UnlinkLockLeaves ==
  ASSUME NEW x \in Sessions, WInv, UnlinkLock(x)
  PROVE  WInv'
<1> USE Kinds DEF WInv, UnlinkLock, Return, Closed, Drop, disk, Actors, Releasing
<1>1. TypeOK'
  BY DEF TypeOK, Phases, Steps, TakeSteps, LockSteps, WorkSteps
<1>2. Order'
  BY DEF TypeOK, Order, LockSteps
<1>3. OneInside'
  BY DEF TypeOK, Order, OneInside, HasDir, Inside
<1>4. Apart' /\ SeenDead'
  BY DEF TypeOK, Order, OneInside, HasDir, Inside, Apart, SeenDead, Alive
<1> QED
  BY <1>1, <1>2, <1>3, <1>4

LEMMA RmdirLeaves ==
  ASSUME NEW x \in Sessions, WInv, Rmdir(x)
  PROVE  WInv'
<1> USE Kinds DEF WInv, Rmdir, Return, Closed, Drop, disk, Actors, Releasing
<1>1. TypeOK'
  BY DEF TypeOK, Phases, Steps, TakeSteps, LockSteps, WorkSteps
<1>2. Order'
  BY DEF TypeOK, Order, LockSteps
<1>3. OneInside'
  BY DEF TypeOK, Order, OneInside, HasDir, Inside
<1>4. Apart' /\ SeenDead'
  BY DEF TypeOK, Order, OneInside, HasDir, Inside, Apart, SeenDead, Alive
<1> QED
  BY <1>1, <1>2, <1>3, <1>4

LEMMA ListLeaves ==
  ASSUME NEW x \in Sweepers, WInv, List(x)
  PROVE  WInv'
<1> USE Kinds DEF WInv, List, Return, Closed, Drop, disk, Actors, Releasing
<1>1. TypeOK'
  BY DEF TypeOK, Phases, Steps, TakeSteps, LockSteps, WorkSteps
<1>2. Order'
  BY DEF TypeOK, Order, LockSteps
<1>3. OneInside'
  BY DEF TypeOK, Order, OneInside, HasDir, Inside
<1>4. Apart' /\ SeenDead'
  BY DEF TypeOK, Order, OneInside, HasDir, Inside, Apart, SeenDead, Alive
<1> QED
  BY <1>1, <1>2, <1>3, <1>4

LEMMA SweepProbeLeaves ==
  ASSUME NEW x \in Sweepers, WInv, SweepProbe(x)
  PROVE  WInv'
<1> USE Kinds DEF WInv, SweepProbe, Return, Closed, Drop, disk, Actors, Releasing
<1>1. TypeOK'
  BY DEF TypeOK, Phases, Steps, TakeSteps, LockSteps, WorkSteps
<1>2. Order'
  BY DEF TypeOK, Order, LockSteps
<1>3. OneInside'
  BY DEF TypeOK, Order, OneInside, HasDir, Inside
<1>4. Apart' /\ SeenDead'
  BY DEF TypeOK, Order, OneInside, HasDir, Inside, Apart, SeenDead, Alive
<1> QED
  BY <1>1, <1>2, <1>3, <1>4

LEMMA SweepSocketLeaves ==
  ASSUME NEW x \in Sweepers, WInv, SweepSocket(x)
  PROVE  WInv'
<1> USE Kinds DEF WInv, SweepSocket, Return, Closed, Drop, Go, disk, Actors, Releasing
<1>1. TypeOK'
  BY DEF TypeOK, Phases, Steps, TakeSteps, LockSteps, WorkSteps
<1>2. Order'
  BY DEF TypeOK, Order, LockSteps
<1>3. OneInside'
  BY DEF TypeOK, Order, OneInside, HasDir, Inside
<1>4. Apart' /\ SeenDead'
  BY DEF TypeOK, Order, OneInside, HasDir, Inside, Apart, SeenDead, Alive
<1> QED
  BY <1>1, <1>2, <1>3, <1>4

LEMMA SweepNoteLeaves ==
  ASSUME NEW x \in Sweepers, WInv, SweepNote(x)
  PROVE  WInv'
<1> USE Kinds DEF WInv, SweepNote, Return, Closed, Drop, Go, disk, Actors, Releasing
<1>1. TypeOK'
  BY DEF TypeOK, Phases, Steps, TakeSteps, LockSteps, WorkSteps
<1>2. Order'
  BY DEF TypeOK, Order, LockSteps
<1>3. OneInside'
  BY DEF TypeOK, Order, OneInside, HasDir, Inside
<1>4. Apart' /\ SeenDead'
  BY DEF TypeOK, Order, OneInside, HasDir, Inside, Apart, SeenDead, Alive
<1> QED
  BY <1>1, <1>2, <1>3, <1>4

LEMMA SweepLockLeaves ==
  ASSUME NEW x \in Sweepers, WInv, SweepLock(x)
  PROVE  WInv'
<1> USE Kinds DEF WInv, SweepLock, Return, Closed, Drop, disk, Actors, Releasing
<1>1. TypeOK'
  BY DEF TypeOK, Phases, Steps, TakeSteps, LockSteps, WorkSteps
<1>2. Order'
  BY DEF TypeOK, Order, LockSteps
<1>3. OneInside'
  BY DEF TypeOK, Order, OneInside, HasDir, Inside
<1>4. Apart' /\ SeenDead'
  BY DEF TypeOK, Order, OneInside, HasDir, Inside, Apart, SeenDead, Alive
<1> QED
  BY <1>1, <1>2, <1>3, <1>4

LEMMA WipeLeaves ==
  ASSUME WInv, Wipe
  PROVE  WInv'
<1>1. (TypeOK /\ Order /\ OneInside)'
  BY DEF WInv, Wipe, TypeOK, Order, OneInside, HasDir, Inside
<1>2. Apart' /\ SeenDead'
  BY DEF WInv, Wipe, Apart, SeenDead, Alive
<1> QED
  BY <1>1, <1>2 DEF WInv

LEMMA InitWInv == Init => WInv
<1> SUFFICES ASSUME Init PROVE WInv
  OBVIOUS
<1> USE DEF Init, Actors
<1>1. TypeOK
  BY DEF TypeOK, Phases, Steps
<1>2. Order /\ OneInside /\ Apart /\ SeenDead
  BY DEF Order, OneInside, HasDir, Inside, Apart, SeenDead, TakeSteps, LockSteps, Releasing
<1> QED
  BY <1>1, <1>2 DEF WInv

LEMMA StepWInv == WInv /\ [Next \/ Wipe]_vars => WInv'
<1> SUFFICES ASSUME WInv, [Next \/ Wipe]_vars
             PROVE  WInv'
  OBVIOUS
<1>1. ASSUME NEW a \in Actors, Take(a) \/ Lock(a) \/ Crash(a)
      PROVE  WInv'
  BY <1>1, OpenDirLeaves, FlockDirLeaves, SameDirLeaves, OpenLockLeaves, FlockLockLeaves,
     MatchLockLeaves, CrashLeaves
     DEF Take, Lock
<1>2. ASSUME NEW p \in Sessions,
             Start(p) \/ Bind(p) \/ Announce(p) \/ AnnounceFails(p) \/ Forget(p) \/ Release(p)
      PROVE  WInv'
  BY <1>2, StartLeaves, ProbeLeaves, ClearLeaves, ListenLeaves, VerifyLeaves,
     AnnounceLeaves, AnnounceFailsLeaves, ForgetLeaves, MatchLeaseLeaves, UnlinkOwnLeaves,
     UnlinkLockLeaves, RmdirLeaves
     DEF Bind, Release
<1>3. ASSUME NEW s \in Sweepers, List(s) \/ Sweep(s)
      PROVE  WInv'
  BY <1>3, ListLeaves, SweepProbeLeaves, SweepSocketLeaves, SweepNoteLeaves, SweepLockLeaves
     DEF Sweep
<1>4. CASE UNCHANGED vars
  BY <1>4 DEF vars, WInv, TypeOK, Order, OneInside, Apart, SeenDead, HasDir, Inside, Alive
<1> QED
  BY <1>1, <1>2, <1>3, <1>4, WipeLeaves DEF Next, Step

\* No process unlinks a socket another session listens on (SocketLease!LiveSocketStands): Unlink in
\* binding.rs and forget_id ask first, under the lock of the directory.  It holds for any number of
\* processes though the lock file and the socket are removed from outside at any moment.
THEOREM SocketsStand == Init /\ [][Next \/ Wipe]_vars => LiveSocketStands
<1>1. ASSUME WInv, Next \/ Wipe, phase # phase' \/ at # at', NEW p \in Sessions,
             listening[p] # NoInode, sockPath = listening[p], sockPath' # sockPath
      PROVE  phase[p] \in Releasing /\ at[p] = "socket"
  <2>1. ~Wipe
    BY <1>1 DEF Wipe
  <2>2. Alive(sockPath)
    BY <1>1 DEF Alive
  <2>3. ASSUME NEW a \in Actors, Take(a) \/ Lock(a) \/ Crash(a)
        PROVE  FALSE
    BY <1>1, <2>3 DEF Take, OpenDir, FlockDir, SameDir, Lock, OpenLock, FlockLock, MatchLock, Crash, disk
  <2>4. ASSUME NEW q \in Sessions, Start(q) \/ Bind(q) \/ Announce(q) \/ AnnounceFails(q) \/ Forget(q)
        PROVE  FALSE
    BY <1>1, <2>2, <2>4
    DEF Start, Bind, Probe, Clear, Listen, Verify, Announce, AnnounceFails, Forget, Go, disk,
        WInv, SeenDead, Actors
  <2>5. ASSUME NEW s \in Sweepers, List(s) \/ Sweep(s)
        PROVE  FALSE
    BY <1>1, <2>2, <2>5
    DEF List, Sweep, SweepProbe, SweepSocket, SweepNote, SweepLock, Go, disk, WInv, SeenDead, Actors
  <2>6. ASSUME NEW q \in Sessions, Release(q)
        PROVE  phase[p] \in Releasing /\ at[p] = "socket"
    <3>1. UnlinkOwn(q)
      BY <1>1, <2>6 DEF Release, MatchLease, UnlinkLock, Rmdir, disk
    <3>2. listening[q] = listening[p]
      BY <1>1, <3>1 DEF UnlinkOwn
    <3>3. q = p
      BY <1>1, <3>2 DEF WInv, Apart
    <3> QED
      BY <3>1, <3>3 DEF UnlinkOwn, Go
  <2> QED
    BY <1>1, <2>1, <2>3, <2>4, <2>5, <2>6 DEF Next, Step
<1>2. WInv /\ [Next \/ Wipe]_vars =>
        [\A p \in Sessions :
           (phase # phase' \/ at # at') /\ listening[p] # NoInode /\ sockPath = listening[p]
             => \/ sockPath' = sockPath
                \/ phase[p] \in Releasing /\ at[p] = "socket"]_vars
  BY <1>1
<1> QED
  BY <1>2, InitWInv, StepWInv, PTL DEF LiveSocketStands
=============================================================================
