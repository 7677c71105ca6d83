------------------------------ MODULE MCProvider ------------------------------
(***************************************************************************)
(* The sides of asking a provider, which share no state: the tries of one  *)
(* ask, what is said of them twice over, the parser of the stream a try    *)
(* gets back, how a dialect reads its events and the counts in them, the   *)
(* stored credentials that all asks and every sign-in change, the packages *)
(* a process runs before it asks anything, the lists of models it finds,   *)
(* and the frames of a line to another session, which its config may open. *)
(* A behaviour is one of one of them.                                      *)
(***************************************************************************)
EXTENDS Turn

CONSTANTS
  Workers, Providers, Nobody, Last, Rotates,  \* Credentials
  Bytes, LineLimit, EventLimit, TotalLimit, Longest, Chunk,  \* Stream
  Tries, Columns, Figures, Unknown,         \* Accounting
  Prompts,                                  \* Measures, of the same columns
  Processes, Fetched, Contents, Words, Unfit,  \* Packages
  Lists,                                    \* Offers, of the same processes
  Most, Frames,                             \* Framing
  Said                                      \* Dialects

VARIABLES
  part,
  file, renewable, stale, issued, retired, claim, whole, stage, job, token, copy,
  body, parser, out, finished,
  at, turn, held, measured, before, now, sum, trace, snapshot, log, said,
  content, manifest, given, beside, pc, known, ran, word, vouched,
  offered, cache, fresh, place, refresh, list, failed, full,
  caller, frames, line, hungUp, heard, far, got, back,
  dialect, answer, ends, scratch, holds, tail, taken,
  inclusive, prompt, figured, fits

C == INSTANCE Credentials
P == INSTANCE Stream WITH Line <- LineLimit, Event <- EventLimit, Total <- TotalLimit,
                          text <- body, over <- finished

A == INSTANCE Accounting WITH try <- turn, paid <- before, this <- now, spent <- sum,
                              Amounts <- Figures
M == INSTANCE Measures WITH try <- turn, paid <- before, this <- now, spent <- sum,
                            Amounts <- Prompts, known <- prompt, told <- figured
K == INSTANCE Packages
O == INSTANCE Offers WITH pc <- place, whole <- full
F == INSTANCE Framing
D == INSTANCE Dialects

ASSUME ProviderKinds ==
  C!CredentialKinds /\ P!StreamKinds /\ A!AccountingKinds /\ K!PackageKinds /\ O!OfferKinds
  /\ M!MeasuresKinds /\ F!FramingKinds /\ D!DialectKinds

CONSTANTS w1, w2, p1, p2

TwoWorkers == {w1, w2}
TwoProviders == {p1, p2}
OneRotates == {p1}

signing == <<file, renewable, stale, issued, retired, claim, whole, stage, job, token, copy>>
parsing == <<body, parser, out, finished>>
accounting == <<at, turn, held, measured, before, now, sum, trace, snapshot, log, said>>
packing == <<content, manifest, given, beside, pc, known, ran, word, vouched>>
offering == <<offered, cache, fresh, place, refresh, list, failed, full>>
framing == <<caller, frames, line, hungUp, heard, far, got, back>>
reading == <<dialect, answer, ends, scratch, holds, tail, taken>>
measuring == <<inclusive, prompt, figured, fits>>
asking == vars

\* The parts that are left alone are in one of their initial states.
Begins ==
  /\ Init /\ C!Init /\ P!Init /\ M!MeasuresInit /\ K!Init /\ O!Init /\ F!Init /\ D!Init
  /\ part \in {"turn", "credentials", "stream", "accounting", "packages", "offers", "line", "dialect",
              "measures"}
  /\ part # "credentials" => job = [w \in Workers |-> [does |-> "ask", of |-> p1]]
  /\ part # "credentials" => \A p \in Providers : renewable[p]
  /\ part # "turn" => budget = Minimum
  /\ content = [f \in Fetched |-> 1] /\ offered = 1
  /\ part # "line" => caller = "stream"
  /\ part # "dialect" => dialect = "pi"
  /\ part # "measures" => inclusive

Asking == part = "turn"
Signing == part = "credentials"

Goes == /\ UNCHANGED part
        /\ \/ /\ Asking /\ Next
              /\ UNCHANGED <<signing, parsing, accounting, measuring, packing, offering, framing, reading>>
           \/ /\ Signing /\ C!Next
              /\ UNCHANGED <<asking, parsing, accounting, measuring, packing, offering, framing, reading>>
           \/ /\ part = "stream" /\ P!Next
              /\ UNCHANGED <<asking, signing, accounting, measuring, packing, offering, framing, reading>>
           \/ /\ part = "accounting" /\ A!Next
              /\ UNCHANGED <<asking, signing, parsing, measuring, packing, offering, framing, reading>>
           \/ /\ part = "measures" /\ M!MeasuresNext
              /\ UNCHANGED <<asking, signing, parsing, packing, offering, framing, reading>>
           \/ /\ part = "packages" /\ K!Next
              /\ UNCHANGED <<asking, signing, parsing, accounting, measuring, offering, framing, reading>>
           \/ /\ part = "offers" /\ O!Next
              /\ UNCHANGED <<asking, signing, parsing, accounting, measuring, packing, framing, reading>>
           \/ /\ part = "line" /\ F!Next
              /\ UNCHANGED <<asking, signing, parsing, accounting, measuring, packing, offering, reading>>
           \/ /\ part = "dialect" /\ D!Next
              /\ UNCHANGED <<asking, signing, parsing, accounting, measuring, packing, offering, framing>>

Runs == /\ Begins
        /\ [][Goes]_<<part, asking, signing, parsing, accounting, measuring, packing, offering, framing,
                   reading>>
        /\ WF_vars(Asking /\ (Asks \/ Unasked)) /\ WF_vars(Asking /\ (Whole \/ Broken))
        /\ WF_vars(Asking /\ (Answered \/ Refused))
        /\ WF_vars(Asking /\ (Retry \/ GiveUp)) /\ WF_vars(Asking /\ GoOn)
        /\ \A w \in Workers : WF_signing(Signing /\ C!Step(w))

----------------------------------------------------------------------------
\* When an ask is over its reader has all of one try that stopped, or is told that it failed, and
\* has been told all that it cost (Turn).  What the events of the ask know of its cost is what the
\* reader was told, they know nothing that a try left unmeasured, and each try is ended there once
\* (Accounting).  Nothing is said to be measured that the provider did not say, nor a prompt that is
\* less than it said (Measures).  And however the frames of a line run together, and whatever is wrong
\* with one of them, its replies are to the frames as they were sent, with none after a frame that
\* could not be read, and a config's call is left with its own reply or none (Framing).
LeftWith ==
  /\ Asking => TypeOK /\ WholeAnswer /\ AllSpent
  /\ part = "accounting" => A!TypeOK /\ A!SaidInFull
  /\ part = "measures" => A!TypeOK /\ M!MeasuresTypeOK /\ M!MeasuredWasSaid /\ M!PartsOfWhole
  /\ part = "line" => F!TypeOK /\ F!RepliesInStep /\ F!HearsItsOwn

\* No content of a package runs that was not acknowledged as it is, and no words of a coordinator
\* that were refused (Packages); and a load is left with nothing but what is declared only where
\* the provider could not be asked and nothing that could be read was kept (Offers).
AsDeclared ==
  /\ part = "packages" => K!TypeOK /\ K!RunsAcknowledged /\ K!RunsGiven
  /\ part = "offers" => O!TypeOK /\ O!FallsBack

\* Where a stream is cut into chunks does not matter to the events that are read off it, nor to
\* where it fails (Stream).  And however a reply comes in pieces, the reader has every piece in its
\* place and every call with its own arguments, and a reply taken for an answer stops for what the
\* provider ended it for (Dialects).
CutsDoNotMatter ==
  /\ part = "stream" => P!CutsDoNotMatter
  /\ part = "dialect" => D!TypeOK /\ D!PiecesWhole /\ D!StopsAsMeant

\* A refresh token that came with a sign-in is kept as long as the sign-in stands, and while no answer
\* and no write is lost it can be exchanged, and no server is asked with a token it has retired.
\* And a write of the file keeps what others wrote of their
\* providers, signs nobody in again who has signed out, and puts nothing older in the place of
\* what is there (Credentials).
StaysSignedIn ==
  /\ [](Signing => C!TypeOK /\ C!SpentOnce /\ C!KeepsRefresh /\ C!CanRenew)
  /\ [][C!KeepsOthers /\ C!OutStaysOut /\ C!NeverBack]_file

\* Every ask is ended by a stop or a failure that is said (Turn), and every renewal, sign-in and
\* sign-out comes to its end (Credentials).
Ends == (Asking => SaysItsEnd) /\ C!JobEnds
=============================================================================
