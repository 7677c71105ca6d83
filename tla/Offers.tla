--------------------------------- MODULE Offers ---------------------------------
(***************************************************************************)
(* The models a provider lists, as the processes of one machine know them: *)
(* discovering.rs keeps what was fetched in a file they all share, and     *)
(* asks again when it is a day old, or when told to.                       *)
(*                                                                         *)
(*   cached        the text, and by a second call how old the file is      *)
(*   fetch         the provider asked, within its patience                 *)
(*   write_cache   the file written in place, whether or not that works    *)
(*                                                                         *)
(* A list is one of a number; a file that is not there, empty, or half     *)
(* written is read as none.                                                *)
(***************************************************************************)
EXTENDS Naturals

CONSTANTS
  Processes,  \* processes that load the catalog, one load after another
  Lists       \* what the provider may list

NoList == 0
Declared == 0  \* what the configuration declares, where nothing was discovered
OfferKinds == Lists \subseteq Nat \ {NoList}

VARIABLES
  offered,  \* what the provider lists now
  cache,    \* the text of the file
  fresh,    \* whether the file was written less than FRESH ago
  pc,       \* where each process is in discover
  refresh,  \* whether it was told to ask
  list,     \* the list it has in hand
  failed,   \* whether it names the provider among the failed
  whole     \* whether the cache has held a list throughout its load

local == <<refresh, list, failed>>
offerVars == <<offered, cache, fresh, pc, local, whole>>

Init ==
  /\ offered \in Lists /\ cache = NoList /\ fresh = FALSE
  /\ pc = [p \in Processes |-> "idle"] /\ refresh = [p \in Processes |-> FALSE]
  /\ list = [p \in Processes |-> NoList] /\ failed = refresh /\ whole = refresh

Goes(p, from, to) == pc[p] = from /\ pc' = [pc EXCEPT ![p] = to]
Holds(p, l) == list' = [list EXCEPT ![p] = l]
Cached(l) == /\ cache' = l
             /\ whole' = [p \in Processes |-> whole[p] /\ l # NoList]

----------------------------------------------------------------------------
\* discover_with_refresh

Begin(p, told) ==
  /\ Goes(p, "idle", "looking")
  /\ refresh' = [refresh EXCEPT ![p] = told] /\ failed' = [failed EXCEPT ![p] = FALSE]
  /\ Holds(p, NoList)
  /\ whole' = [whole EXCEPT ![p] = cache # NoList]
  /\ UNCHANGED <<offered, cache, fresh>>

\* The text is read first ...
Look(p) ==
  /\ Goes(p, "looking", IF cache = NoList THEN "asking" ELSE "dating")
  /\ Holds(p, cache)
  /\ UNCHANGED <<offered, cache, fresh, refresh, failed, whole>>

\* ... and how old it is after that, when the file may be another one's.
Date(p) ==
  /\ Goes(p, "dating", IF fresh /\ ~refresh[p] THEN "over" ELSE "asking")
  /\ UNCHANGED <<offered, cache, fresh, local, whole>>

Fetch(p) ==
  /\ Goes(p, "asking", "opening") /\ Holds(p, offered)
  /\ UNCHANGED <<offered, cache, fresh, refresh, failed, whole>>

\* Nobody there, a refusal, an answer that is late or lists nothing that can be read.
FetchFails(p) ==
  /\ Goes(p, "asking", "falling") /\ Holds(p, NoList)
  /\ failed' = [failed EXCEPT ![p] = TRUE]
  /\ UNCHANGED <<offered, cache, fresh, refresh, whole>>

\* The file is emptied as it is opened ...
Open(p) ==
  /\ Goes(p, "opening", "writing") /\ Cached(NoList) /\ fresh' = TRUE
  /\ UNCHANGED <<offered, local>>

\* ... and written.  The write may fail, or another's longer text may stand behind it, and the
\* process has its list all the same.
Write(p) ==
  /\ Goes(p, "writing", "over")
  /\ (Cached(list[p]) \/ Cached(NoList)) /\ fresh' = TRUE
  /\ UNCHANGED <<offered, local>>

\* As it would be if an old list were not worth falling back to.
FallBackFresh(p) ==
  /\ Goes(p, "falling", "over") /\ Holds(p, IF fresh THEN cache ELSE NoList)
  /\ UNCHANGED <<offered, cache, fresh, refresh, failed, whole>>

\* Whatever is there, however old.
FallBack(p) ==
  /\ Goes(p, "falling", "over") /\ Holds(p, cache)
  /\ UNCHANGED <<offered, cache, fresh, refresh, failed, whole>>

\* The process is over, or is killed where it is.
End(p) == /\ pc[p] # "idle" /\ pc' = [pc EXCEPT ![p] = "idle"]
          /\ refresh' = [refresh EXCEPT ![p] = FALSE] /\ failed' = [failed EXCEPT ![p] = FALSE]
          /\ whole' = [whole EXCEPT ![p] = FALSE] /\ Holds(p, NoList)
          /\ UNCHANGED <<offered, cache, fresh>>

----------------------------------------------------------------------------
\* Outside

Age == fresh /\ fresh' = FALSE /\ UNCHANGED <<offered, cache, pc, local, whole>>
Offer(l) == offered' = l /\ UNCHANGED <<cache, fresh, pc, local, whole>>

Next ==
  \/ \E p \in Processes :
       \/ (\E told \in BOOLEAN : Begin(p, told)) \/ Look(p) \/ Date(p) \/ Fetch(p)
       \/ FetchFails(p) \/ Open(p) \/ Write(p) \/ FallBack(p) \/ End(p)
  \/ Age \/ \E l \in Lists : Offer(l)

----------------------------------------------------------------------------
\* Properties

\* The shape of every variable.
TypeOK ==
  /\ offered \in Lists /\ cache \in Lists \cup {NoList} /\ fresh \in BOOLEAN
  /\ pc \in [Processes -> {"idle", "looking", "dating", "asking", "opening", "writing", "falling", "over"}]
  /\ refresh \in [Processes -> BOOLEAN] /\ list \in [Processes -> Lists \cup {NoList}]
  /\ failed \in [Processes -> BOOLEAN] /\ whole \in [Processes -> BOOLEAN]

\* A load is left with nothing but what is declared only if its provider could not be asked, which
\* it says, and the cache at some point of the load held nothing that could be read.
FallsBack == \A p \in Processes : pc[p] = "over" /\ list[p] = Declared => failed[p] /\ ~whole[p]
=============================================================================
