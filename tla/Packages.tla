-------------------------------- MODULE Packages --------------------------------
(***************************************************************************)
(* Whose declarations a process of melchior runs before it asks a model.   *)
(*                                                                         *)
(*   Catalog::load   the shipped files and the owner's, then each fetched  *)
(*                   package that is cleared, and last what a coordinator  *)
(*                   gave; a package is read once, and what was read is    *)
(*                   what is checked and run                               *)
(*   assigned        the owner's files and the given ones, no package      *)
(*   acknowledge     the digest of every package, written over the         *)
(*                   manifest in place                                     *)
(*   configure       words tried first, then written beside the given file *)
(*                   under the writer's own pid and renamed over it        *)
(*   forget          the given file removed                                *)
(*                                                                         *)
(* Each is a process of its own, which may be killed between two of its    *)
(* steps.  A digest is the content it is of; a manifest that is not there  *)
(* or half written is read as one that names nothing.                      *)
(***************************************************************************)
EXTENDS Naturals

CONSTANTS
  Processes,  \* pids; one that ended may be had again
  Fetched,    \* the files of packages
  Contents,   \* what such a file may hold
  Words,      \* what a coordinator may say
  Unfit       \* those of it that do not run, or set what nothing takes

None == 0
PackageKinds == Contents \subseteq Nat \ {None} /\ Words \subseteq Nat \ {None} /\ Unfit \subseteq Words

VARIABLES
  content,   \* the content of each package's file
  manifest,  \* installed.json
  given,     \* melchior.lua in the directory the coordinator named
  beside,    \* melchior.lua.<pid>, for each pid: what it holds
  pc,        \* where each process is
  known,     \* the manifest each has read, or is about to write
  ran,       \* what each has run of every package
  word,      \* the words it has run, or is to keep
  vouched    \* what an acknowledgement of each package was of

files == <<content, manifest, given, beside>>
local == <<known, ran, word>>
packageVars == <<files, pc, local, vouched>>

Nothing == [f \in Fetched |-> None]

Init ==
  /\ content \in [Fetched -> Contents] /\ manifest = Nothing
  /\ given = None /\ beside = [p \in Processes |-> None]
  /\ pc = [p \in Processes |-> "idle"]
  /\ known = [p \in Processes |-> Nothing] /\ ran = known /\ word = [p \in Processes |-> None]
  /\ vouched = [f \in Fetched |-> {}]

Goes(p, from, to) == pc[p] = from /\ pc' = [pc EXCEPT ![p] = to]

----------------------------------------------------------------------------
\* Catalog::load and assigned

\* The files that are not fetched have been run.
Recorded(p) ==
  /\ Goes(p, "idle", "loading")
  /\ known' = [known EXCEPT ![p] = manifest] /\ ran' = [ran EXCEPT ![p] = Nothing]
  /\ word' = [word EXCEPT ![p] = None]
  /\ UNCHANGED <<files, vouched>>

\* As it would be if having been acknowledged once were enough.
ClearedByName(p, f) == known[p][f] # None
Cleared(p, f) == known[p][f] = content[f]

\* A file is read, and run if what was read is what was acknowledged; one that raises costs
\* itself.  The rest of them are not looked at again.
Package(p, f) ==
  /\ pc[p] = "loading" /\ ran[p][f] = None /\ Cleared(p, f)
  /\ ran' = [ran EXCEPT ![p][f] = content[f]]
  /\ UNCHANGED <<files, pc, known, word, vouched>>

\* What a coordinator said outranks what is on disk, and is run last.
Given(p) ==
  /\ Goes(p, "loading", "loaded")
  /\ word' = [word EXCEPT ![p] = given] /\ known' = [known EXCEPT ![p] = Nothing]
  /\ UNCHANGED <<files, ran, vouched>>

\* No package has a say in what this session is for.
Assigned(p) ==
  /\ Goes(p, "idle", "loaded")
  /\ word' = [word EXCEPT ![p] = given] /\ ran' = [ran EXCEPT ![p] = Nothing]
  /\ UNCHANGED <<files, known, vouched>>

----------------------------------------------------------------------------
\* acknowledge

\* The packages there are, listed first (runtimepath), and then read one by one.
Acknowledge(p) ==
  /\ Goes(p, "idle", "reading") /\ known' = [known EXCEPT ![p] = Nothing]
  /\ UNCHANGED <<files, ran, word, vouched>>

ReadOne(p, f) ==
  /\ pc[p] = "reading" /\ known[p][f] = None
  /\ known' = [known EXCEPT ![p][f] = content[f]]
  /\ UNCHANGED <<files, pc, ran, word, vouched>>

\* The manifest is emptied as it is opened, and a file that could not be read has no place in
\* it ...
Truncate(p) ==
  /\ Goes(p, "reading", "writing")
  /\ manifest' = Nothing
  /\ UNCHANGED <<content, given, beside, local, vouched>>

\* ... and written, unless that fails.
WriteManifest(p) ==
  /\ Goes(p, "writing", "idle")
  /\ \/ /\ manifest' = known[p]
        /\ vouched' = [f \in Fetched |-> vouched[f] \cup ({known[p][f]} \ {None})]
     \/ UNCHANGED <<manifest, vouched>>
  /\ known' = [known EXCEPT ![p] = Nothing]
  /\ UNCHANGED <<content, given, beside, ran, word>>

----------------------------------------------------------------------------
\* configure and forget

\* As it would be if what is refused were kept all the same.
TryAnyhow(p, w) ==
  /\ Goes(p, "idle", "keeping") /\ word' = [word EXCEPT ![p] = w]
  /\ UNCHANGED <<files, known, ran, vouched>>

\* Words that do not run, or of which anything is refused, are kept nowhere.
Try(p, w) ==
  /\ w \notin Unfit
  /\ Goes(p, "idle", "keeping") /\ word' = [word EXCEPT ![p] = w]
  /\ UNCHANGED <<files, known, ran, vouched>>

\* The file beside must not be there yet.  One that a killed process of the same pid left is
\* taken down, and the words are not kept.
Beside(p) ==
  /\ pc[p] = "keeping"
  /\ IF beside[p] = None
     THEN Goes(p, "keeping", "renaming") /\ beside' = [beside EXCEPT ![p] = word[p]]
     ELSE Goes(p, "keeping", "idle") /\ beside' = [beside EXCEPT ![p] = None]
  /\ UNCHANGED <<content, manifest, given, local, vouched>>

Rename(p) ==
  /\ Goes(p, "renaming", "idle")
  /\ given' = beside[p] /\ beside' = [beside EXCEPT ![p] = None]
  /\ UNCHANGED <<content, manifest, local, vouched>>

Forget(p) ==
  /\ pc[p] = "idle" /\ given # None
  /\ given' = None
  /\ UNCHANGED <<content, manifest, beside, pc, local, vouched>>

----------------------------------------------------------------------------

\* The process is over, or is killed where it is.
End(p) ==
  /\ pc[p] # "idle" /\ pc' = [pc EXCEPT ![p] = "idle"]
  /\ known' = [known EXCEPT ![p] = Nothing] /\ ran' = [ran EXCEPT ![p] = Nothing]
  /\ word' = [word EXCEPT ![p] = None]
  /\ UNCHANGED <<files, vouched>>

\* Whoever fetches packages puts another one in its place.
Fetch(f, c) ==
  /\ content' = [content EXCEPT ![f] = c]
  /\ UNCHANGED <<manifest, given, beside, pc, local, vouched>>

Next ==
  \/ \E p \in Processes :
       \/ Recorded(p) \/ Given(p) \/ Assigned(p)
       \/ Acknowledge(p) \/ Truncate(p) \/ WriteManifest(p)
       \/ (\E w \in Words : Try(p, w)) \/ Beside(p) \/ Rename(p) \/ Forget(p) \/ End(p)
       \/ \E f \in Fetched : Package(p, f) \/ ReadOne(p, f)
  \/ \E f \in Fetched, c \in Contents : Fetch(f, c)

----------------------------------------------------------------------------
\* Properties

Maybe(S) == S \cup {None}

\* The shape of every variable.
TypeOK ==
  /\ content \in [Fetched -> Contents] /\ manifest \in [Fetched -> Maybe(Contents)]
  /\ given \in Maybe(Words) /\ beside \in [Processes -> Maybe(Words)]
  /\ pc \in [Processes -> {"idle", "loading", "loaded", "reading", "writing", "keeping", "renaming"}]
  /\ known \in [Processes -> [Fetched -> Maybe(Contents)]]
  /\ ran \in [Processes -> [Fetched -> Maybe(Contents)]]
  /\ word \in [Processes -> Maybe(Words)] /\ vouched \in [Fetched -> SUBSET Contents]

\* No content of a fetched package is ever run that was not acknowledged as it is, whatever was
\* fetched, acknowledged again or cut short in the meantime.
RunsAcknowledged == \A p \in Processes, f \in Fetched : ran[p][f] \in Maybe(vouched[f])

\* Nobody runs words of a coordinator that were refused, nor finds them where they are kept.
RunsGiven ==
  given \notin Unfit /\ \A p \in Processes : pc[p] = "loaded" => word[p] \notin Unfit
=============================================================================
