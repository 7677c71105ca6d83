------------------------------ MODULE Credentials ------------------------------
(***************************************************************************)
(* The credentials of a person who signed in: one file for all providers,  *)
(* changed by every process that renews, signs in or signs out.            *)
(*                                                                         *)
(*   hold      the claim on one provider, across the exchange with its     *)
(*             server and the write of what came of it                     *)
(*   amend     the claim on the file, across a read, a change and a rename *)
(*                                                                         *)
(* Both claims are flocks on files nobody removes: each is free or held by *)
(* a process that lives.  The tokens a server issues are numbered; a       *)
(* refresh token is retired when a rotating server has taken it once.  A   *)
(* server need not give a refresh token with a sign-in: then nothing can   *)
(* be renewed, and the person has to sign in again.                        *)
(***************************************************************************)
EXTENDS Naturals, FiniteSets

CONSTANTS
  Workers,    \* processes at work on credentials, one job each
  Providers,  \* providers one signs in to
  Nobody,     \* who holds a claim nobody holds
  Last,       \* how many tokens a server issues
  Rotates     \* the providers whose servers retire a refresh token once it is used

CredentialKinds == Nobody \notin Workers /\ Last \in Nat \ {0} /\ Rotates \subseteq Providers

NoToken == 0

VARIABLES
  file,     \* what is stored for each provider: an access token, and a refresh token if there is one
  renewable, \* whether what the person last signed in to each provider with could be renewed
  stale,    \* the access tokens that are about to expire
  issued,   \* how many tokens each server issued
  retired,  \* the refresh tokens each server no longer takes
  claim,    \* who holds each provider
  whole,    \* who holds the file
  stage,    \* where each process is
  job,      \* what it is there for
  token,    \* the tokens it was given by the server, or read as its provider's
  copy      \* the file as it read it holding the file

server == <<stale, issued, retired>>
vars == <<file, renewable, server, claim, whole, stage, job, token, copy>>

Nothing == [access |-> NoToken, refresh |-> NoToken]

Init ==
  /\ file \in [Providers -> {[access |-> 1, refresh |-> 1], [access |-> 1, refresh |-> NoToken]}]
  /\ renewable = [p \in Providers |-> file[p].refresh # NoToken]
  /\ stale = [p \in Providers |-> {}] /\ issued = [p \in Providers |-> 1]
  /\ retired = [p \in Providers |-> {}]
  /\ claim = [p \in Providers |-> Nobody] /\ whole = Nobody
  /\ stage = [w \in Workers |-> "new"]
  /\ job \in [Workers -> [does : {"ask", "login", "logout"}, of : Providers]]
  /\ token = [w \in Workers |-> Nothing]
  /\ copy = [w \in Workers |-> [p \in Providers |-> Nothing]]

Of(w) == job[w].of
Goes(w, from, to) == stage[w] = from /\ stage' = [stage EXCEPT ![w] = to]
\* Both claims are let go of by the end of the job, however it ends.
Drops(w) ==
  /\ claim' = [p \in Providers |-> IF claim[p] = w THEN Nobody ELSE claim[p]]
  /\ whole' = IF whole = w THEN Nobody ELSE whole
Ends(w, as) ==
  /\ stage' = [stage EXCEPT ![w] = as] /\ Drops(w)
  /\ token' = [token EXCEPT ![w] = Nothing]
  /\ copy' = [copy EXCEPT ![w] = [p \in Providers |-> Nothing]]
  /\ UNCHANGED <<file, renewable, job>>

IsStale(p, held) == held.access \in stale[p]

Over == {"done", "refused", "expired", "retired", "lost"}

----------------------------------------------------------------------------
\* The servers

Expire(p) ==
  /\ \E n \in 1..issued[p] : stale' = [stale EXCEPT ![p] = @ \cup {n}]
  /\ UNCHANGED <<file, renewable, issued, retired, claim, whole, stage, job, token, copy>>

\* A server that does not rotate gives no refresh token with the next access token.
Issues(p, spending) ==
  /\ issued[p] < Last
  /\ issued' = [issued EXCEPT ![p] = @ + 1]
  /\ retired' = [retired EXCEPT ![p] = IF p \in Rotates THEN @ \cup spending ELSE @]
  /\ UNCHANGED stale

----------------------------------------------------------------------------
\* A process: credential, login and logout

\* What is stored is used as it is unless it is about to expire.
Load(w) ==
  /\ job[w].does = "ask" /\ stage[w] = "new"
  /\ IF file[Of(w)] # Nothing /\ IsStale(Of(w), file[Of(w)])
     THEN stage' = [stage EXCEPT ![w] = "claiming"] /\ UNCHANGED <<file, renewable, claim, whole, job, token, copy>>
     ELSE Ends(w, IF file[Of(w)] = Nothing THEN "refused" ELSE "done")
  /\ UNCHANGED server

\* The person is sent to the browser, for as long as that takes.
Listen(w) ==
  /\ job[w].does = "login" /\ Goes(w, "new", "listening")
  /\ UNCHANGED <<file, renewable, server, claim, whole, job, token, copy>>

\* The browser comes back with a code, and with the state this sign-in was begun with.
Comes(w) ==
  /\ Goes(w, "listening", "granted")
  /\ UNCHANGED <<file, renewable, server, claim, whole, job, token, copy>>

\* What comes back is a denial, no code or another sign-in's: one request is listened to.
Denied(w) == stage[w] = "listening" /\ Ends(w, "refused") /\ UNCHANGED server

\* The code is exchanged for a grant of its own, with a refresh token or without ...
Authorize(w) ==
  /\ Goes(w, "granted", "claiming")
  /\ Issues(Of(w), {})
  /\ \E refresh \in {issued'[Of(w)], NoToken} :
       token' = [token EXCEPT ![w] = [access |-> issued'[Of(w)], refresh |-> refresh]]
  /\ UNCHANGED <<file, renewable, claim, whole, job, copy>>

\* ... or not: refused, late or not to be read, and what was granted is never used.
AuthorizeFails(w) ==
  /\ stage[w] = "granted" /\ Ends(w, "refused")
  /\ UNCHANGED server \/ Issues(Of(w), {})

LogOut(w) ==
  /\ job[w].does = "logout" /\ Goes(w, "new", "claiming")
  /\ UNCHANGED <<file, renewable, server, claim, whole, job, token, copy>>

Hold(w) ==
  /\ stage[w] = "claiming" /\ claim[Of(w)] = Nobody
  /\ stage' = [stage EXCEPT ![w] = IF job[w].does = "ask" THEN "again" ELSE "storing"]
  /\ claim' = [claim EXCEPT ![Of(w)] = w]
  /\ UNCHANGED <<file, renewable, server, whole, job, token, copy>>

\* Another process kept the claim for longer than one waits.
HoldFails(w) ==
  /\ stage[w] = "claiming" /\ claim[Of(w)] # Nobody
  /\ Ends(w, "refused") /\ UNCHANGED server

\* Whoever had the claim before may have renewed it, or signed out; and without a refresh token
\* it is over.
LoadAgain(w) ==
  LET held == file[Of(w)] IN
  /\ stage[w] = "again"
  /\ IF held = Nothing \/ ~IsStale(Of(w), held) \/ held.refresh = NoToken
     THEN Ends(w, CASE held = Nothing -> "refused"
                    [] held # Nothing /\ ~IsStale(Of(w), held) -> "done"
                    [] OTHER -> "expired")
     ELSE /\ stage' = [stage EXCEPT ![w] = "exchanging"]
          /\ token' = [token EXCEPT ![w] = held]
          /\ UNCHANGED <<file, renewable, claim, whole, job, copy>>
  /\ UNCHANGED server

Exchange(w) ==
  LET p == Of(w) spent == token[w].refresh IN
  /\ Goes(w, "exchanging", "storing") /\ spent \notin retired[p]
  /\ Issues(p, {spent})
  /\ token' = [token EXCEPT ![w] =
                 [access |-> issued'[p], refresh |-> IF p \in Rotates THEN issued'[p] ELSE NoToken]]
  /\ UNCHANGED <<file, renewable, claim, whole, job, copy>>

\* A server does not take a token it has retired, and the exchange is not tried again.
ExchangeRefused(w) ==
  /\ stage[w] = "exchanging" /\ token[w].refresh \in retired[Of(w)]
  /\ Ends(w, "retired") /\ UNCHANGED server

\* The server took the token, and its answer was lost.
ExchangeLost(w) ==
  /\ stage[w] = "exchanging" /\ token[w].refresh \notin retired[Of(w)]
  /\ Issues(Of(w), {token[w].refresh})
  /\ Ends(w, "lost")

\* As it would be if a change were made on the file as it was before the claim on it.
HoldWholeLate(w) ==
  /\ Goes(w, "storing", "writing")
  /\ copy' = [copy EXCEPT ![w] = file]
  /\ UNCHANGED <<file, renewable, server, claim, whole, job, token>>

HoldWhole(w) ==
  /\ Goes(w, "storing", "reading") /\ whole = Nobody /\ whole' = w
  /\ UNCHANGED <<file, renewable, server, claim, job, token, copy>>

ReadWhole(w) ==
  /\ Goes(w, "reading", "writing")
  /\ copy' = [copy EXCEPT ![w] = file]
  /\ UNCHANGED <<file, renewable, server, claim, whole, job, token>>

\* renew: the refresh token that is stored stays where the server gave no other.
Renewed(w) == IF token[w].refresh # NoToken THEN token[w]
              ELSE [token[w] EXCEPT !.refresh = copy[w][Of(w)].refresh]

\* put, forget or renew, written beside and renamed into place.
Write(w) ==
  /\ stage[w] = "writing"
  /\ file' = [copy[w] EXCEPT ![Of(w)] = CASE job[w].does = "ask"    -> Renewed(w)
                                          [] job[w].does = "login"  -> token[w]
                                          [] job[w].does = "logout" -> Nothing]
  /\ renewable' = IF job[w].does = "login"
                  THEN [renewable EXCEPT ![Of(w)] = token[w].refresh # NoToken] ELSE renewable
  /\ stage' = [stage EXCEPT ![w] = "written"]
  /\ UNCHANGED <<server, claim, whole, job, token, copy>>

Finish(w) == stage[w] = "written" /\ Ends(w, "done") /\ UNCHANGED server

\* The process is killed, or the file or a claim on it cannot be had.
Fail(w) ==
  /\ stage[w] \notin {"new"} \cup Over
  /\ Ends(w, "lost") /\ UNCHANGED server

Next == \/ \E p \in Providers : Expire(p)
        \/ \E w \in Workers :
             \/ Load(w) \/ Listen(w) \/ Comes(w) \/ Denied(w) \/ Authorize(w) \/ AuthorizeFails(w)
             \/ LogOut(w) \/ Hold(w) \/ HoldFails(w) \/ LoadAgain(w)
             \/ Exchange(w) \/ ExchangeRefused(w) \/ ExchangeLost(w)
             \/ HoldWhole(w) \/ ReadWhole(w) \/ Write(w) \/ Finish(w) \/ Fail(w)

Spec == Init /\ [][Next]_vars

Step(w) == \/ Load(w) \/ LogOut(w) \/ Authorize(w) \/ AuthorizeFails(w) \/ Hold(w) \/ HoldFails(w) \/ LoadAgain(w)
           \/ Exchange(w) \/ ExchangeRefused(w)
           \/ HoldWhole(w) \/ ReadWhole(w) \/ Write(w) \/ Finish(w)

\* A process goes on with its job; a person may never come back from the browser.
FairSpec == Spec /\ \A w \in Workers : WF_vars(Step(w))

----------------------------------------------------------------------------
\* Properties

Tokens == [access : 0..Last, refresh : 0..Last]
Stages == {"new", "listening", "granted", "claiming", "again", "exchanging", "storing", "reading", "writing", "written",
           "done", "refused", "expired", "retired", "lost"}
HoldsClaim == {"again", "exchanging", "storing", "reading", "writing", "written"}
HoldsWhole == {"reading", "writing", "written"}

\* The shape of every variable, and who holds what at which stage.
TypeOK ==
  /\ file \in [Providers -> Tokens] /\ renewable \in [Providers -> BOOLEAN]
  /\ stale \in [Providers -> SUBSET (1..Last)] /\ issued \in [Providers -> 1..Last]
  /\ retired \in [Providers -> SUBSET (1..Last)]
  /\ claim \in [Providers -> Workers \cup {Nobody}] /\ whole \in Workers \cup {Nobody}
  /\ stage \in [Workers -> Stages] /\ token \in [Workers -> Tokens]
  /\ job \in [Workers -> [does : {"ask", "login", "logout"}, of : Providers]]
  /\ copy \in [Workers -> [Providers -> Tokens]]
  /\ \A w \in Workers, p \in Providers :
       claim[p] = w <=> stage[w] \in HoldsClaim /\ p = Of(w)
  /\ \A w \in Workers : whole = w <=> stage[w] \in HoldsWhole

\* Every process got as far as its job let it.
Undisturbed == \A w \in Workers : stage[w] # "lost"

\* Two processes never both spend one refresh token: while no answer and no write is lost, no
\* server is ever asked with a token it has retired.
SpentOnce == Undisturbed => \A w \in Workers : stage[w] # "retired"

\* A refresh token that came with a sign-in is there as long as the sign-in stands, whatever is
\* lost; and none is taken from where none was given.
KeepsRefresh ==
  \A p \in Providers : file[p] # Nothing => (file[p].refresh # NoToken <=> renewable[p])

\* Whoever was given a refresh token can renew: it can be exchanged, or the process that holds the
\* provider has what it was exchanged for and is about to store it.
CanRenew ==
  Undisturbed => \A p \in Providers : file[p] # Nothing /\ renewable[p] =>
    \/ file[p].refresh \notin retired[p]
    \/ claim[p] # Nobody /\ stage[claim[p]] \in {"storing", "reading", "writing"}

\* A process changes what is stored for its own provider only: what others wrote of theirs
\* while it was at work is kept.
KeepsOthers ==
  \E p \in Providers : \A q \in Providers \ {p} : file'[q] = file[q]

\* A renewal under way when the person signs out does not sign them in again.
OutStaysOut ==
  \A p \in Providers : file[p] = Nothing /\ file'[p] # Nothing =>
    \E w \in Workers : job[w] = [does |-> "login", of |-> p] /\ stage[w] = "writing"

\* Nothing older takes the place of what is stored: an access token, once stored, is followed
\* by a later one or by nothing.
NeverBack ==
  \A p \in Providers :
    \/ file'[p] = file[p] \/ file'[p] = Nothing
    \/ \E w \in Workers : job[w] = [does |-> "login", of |-> p] /\ stage[w] = "writing"
    \/ file'[p].access > file[p].access

\* Every job comes to its end, once the person has come back: the two claims are always taken in
\* the one order, and dropped.
JobEnds == \A w \in Workers : stage[w] \notin {"new", "listening"} ~> stage[w] \in Over
=============================================================================
