----------------------------- MODULE ProviderProofs -----------------------------
(***************************************************************************)
(* Of the sides of asking a provider, those that other processes change    *)
(* under one's hands.  That nobody who stays signed in is shut out, for    *)
(* any number of workers and providers: a refresh token is spent once, and *)
(* what comes back for it is stored, with what others stored meanwhile     *)
(* kept, unless a worker was lost while it held it.  And that a process    *)
(* runs only what somebody vouched for, and answers with models it has.    *)
(* And that whoever asks is left with all of one answer and what it cost,  *)
(* and with the replies of a line in step.                                 *)
(***************************************************************************)
EXTENDS MCProvider, Sequences, FiniteSetTheorems, NaturalsInduction, WellFoundedInduction, TLAPS

----------------------------------------------------------------------------
\* Credentials.

\* What a worker found and what it was given are positive numbers, from where it found and got
\* them on.
CredAmounts ==
  /\ file \in [Providers -> C!Tokens]
  /\ stale \in [Providers -> SUBSET (1..Last)] /\ issued \in [Providers -> 1..Last]
  /\ retired \in [Providers -> SUBSET (1..Last)]
  /\ claim \in [Providers -> Workers \cup {Nobody}] /\ whole \in Workers \cup {Nobody}
  /\ stage \in [Workers -> C!Stages] /\ token \in [Workers -> C!Tokens]
  /\ job \in [Workers -> [does : {"ask", "login", "logout"}, of : Providers]]
  /\ copy \in [Workers -> [Providers -> C!Tokens]]
  /\ renewable \in [Providers -> BOOLEAN]

\* Who is past the claim holds the provider; who is past the second holds the file.
CredClaims ==
  /\ \A w \in Workers, p \in Providers : claim[p] = w <=> stage[w] \in C!HoldsClaim
     /\ p = C!Of(w)
  /\ \A w \in Workers : whole = w <=> stage[w] \in C!HoldsWhole

\* A worker has a refresh token from its server, which it has not stored yet.
Granted(w) ==
  \/ job[w].does = "login" /\ stage[w] \in {"claiming", "storing", "reading", "writing"}
     /\ token[w].refresh # C!NoToken
  \/ job[w].does = "ask" /\ stage[w] \in {"storing", "reading", "writing"}
     /\ C!Of(w) \in Rotates

\* What is stored, and what is retired, was issued; and a server that does not rotate retires
\* nothing.
CredIssues ==
  /\ \A p \in Providers :
       /\ retired[p] \subseteq 1..issued[p] /\ file[p].access <= issued[p]
          /\ file[p].refresh <= issued[p]
       /\ p \notin Rotates => retired[p] = {}
  /\ \A w \in Workers : token[w].access <= issued[C!Of(w)]
     /\ token[w].refresh <= issued[C!Of(w)]

\* What a worker was given is nobody else's: not spent, not stored and not another's.
CredOwn ==
  /\ \A w \in Workers : Granted(w) =>
       /\ token[w].refresh # C!NoToken /\ token[w].refresh \notin retired[C!Of(w)]
       /\ token[w].refresh # file[C!Of(w)].refresh
  /\ \A v, w \in Workers : Granted(v) /\ Granted(w) /\ v # w /\ C!Of(v) = C!Of(w) =>
       token[v].refresh # token[w].refresh

\* While a worker holds a provider what is stored for it is what the worker found, and older than
\* what it was given; while it holds the file, what it read is what is there.
CredFound ==
  \A w \in Workers :
    /\ stage[w] \in {"again", "exchanging"} => job[w].does = "ask"
    /\ stage[w] \in {"listening", "granted"} => job[w].does = "login"
    /\ stage[w] = "exchanging" => token[w] = file[C!Of(w)]
    /\ job[w].does = "ask" /\ stage[w] \in {"exchanging", "storing", "reading", "writing"} =>
         file[C!Of(w)] # C!Nothing /\ file[C!Of(w)].refresh # C!NoToken
    /\ job[w].does = "ask" /\ stage[w] \in {"storing", "reading", "writing"} =>
         /\ token[w].access > file[C!Of(w)].access
         /\ C!Of(w) \notin Rotates => token[w].refresh = C!NoToken
    /\ stage[w] = "writing" => copy[w] = file

\* While nothing was lost, what is stored is not spent, or whoever holds the provider is about to
\* store what it was spent for.
Spendable ==
  C!Undisturbed => \A p \in Providers : file[p] # C!Nothing =>
    \/ file[p].refresh \notin retired[p]
    \/ claim[p] # Nobody /\ stage[claim[p]] \in {"storing", "reading", "writing"}

\* The inductive invariant of what is stored and who may change it.
CredInv == CredAmounts /\ CredClaims /\ CredIssues /\ CredOwn /\ CredFound /\ C!SpentOnce
  /\ Spendable /\ C!KeepsRefresh

\* What the assumption of the run says of the constants.
LEMMA CredKinds ==
  /\ C!Tokens = [access : 0..Last, refresh : 0..Last] /\ C!Nothing \in C!Tokens
  /\ C!Nothing.access = 0 /\ C!Nothing.refresh = 0 /\ Last \in Nat /\ 1 \in 1..Last
     /\ Nobody \notin Workers
  /\ Rotates \subseteq Providers
BY ProviderKinds DEF C!Tokens, C!Nothing, C!NoToken, C!CredentialKinds

\* What a server gives out is counted.
LEMMA CredIssued ==
  ASSUME CredAmounts, NEW w \in Workers, NEW X \in SUBSET (1..Last), C!Issues(C!Of(w), X)
  PROVE  /\ stale' = stale /\ issued' \in [Providers -> 1..Last]
            /\ retired' \in [Providers -> SUBSET (1..Last)]
         /\ issued'[C!Of(w)] = issued[C!Of(w)] + 1 /\ issued'[C!Of(w)] \in 1..Last
<1>1. C!Of(w) \in Providers
  BY DEF CredAmounts, C!Of
<1> DEFINE p == C!Of(w)
<1>2. /\ stale' = stale /\ issued[p] < Last /\ issued' = [issued EXCEPT ![p] = @ + 1]
      /\ retired' = [retired EXCEPT ![p] = IF p \in Rotates THEN @ \cup X ELSE @]
  BY DEF C!Issues
<1>3. issued[p] \in 1..Last /\ issued \in [Providers -> 1..Last]
  BY <1>1 DEF CredAmounts
<1>4. issued[p] + 1 \in 1..Last
  BY <1>2, <1>3, CredKinds
<1>5. issued' \in [Providers -> 1..Last] /\ issued'[p] = issued[p] + 1
  BY <1>1, <1>2, <1>3, <1>4
<1>6. retired[p] \in SUBSET (1..Last) /\ retired \in [Providers -> SUBSET (1..Last)]
  BY <1>1 DEF CredAmounts
<1>7. retired' \in [Providers -> SUBSET (1..Last)]
  BY <1>1, <1>2, <1>6
<1>8. QED
  BY <1>1, <1>2, <1>4, <1>5, <1>7

\* An end of a job lets go of what it held and has nothing any more.
LEMMA CredEnded ==
  ASSUME CredAmounts, NEW w \in Workers, NEW as \in C!Over, C!Ends(w, as)
  PROVE  /\ file' = file /\ renewable' = renewable /\ job' = job
         /\ stage' = [stage EXCEPT ![w] = as]
         /\ claim' \in [Providers -> Workers \cup {Nobody}] /\ whole' \in Workers \cup {Nobody}
         /\ stage' \in [Workers -> C!Stages] /\ token' \in [Workers -> C!Tokens]
         /\ copy' \in [Workers -> [Providers -> C!Tokens]]
<1>1. stage' \in [Workers -> C!Stages] /\ whole' \in Workers \cup {Nobody}
  BY DEF CredAmounts, C!Ends, C!Drops, C!Over, C!Stages
<1>2. claim' \in [Providers -> Workers \cup {Nobody}]
  BY DEF CredAmounts, C!Ends, C!Drops
<1>3. token' \in [Workers -> C!Tokens]
  BY CredKinds DEF CredAmounts, C!Ends
<1>4. copy' \in [Workers -> [Providers -> C!Tokens]]
  BY CredKinds DEF CredAmounts, C!Ends
<1>5. QED
  BY <1>1, <1>2, <1>3, <1>4 DEF C!Ends

\* Every step keeps to the shape.
LEMMA CredTyped ==
  ASSUME CredInv, C!Next
  PROVE  CredAmounts'
<1>0. \A w \in Workers : C!Of(w) \in Providers /\ token[w] \in C!Tokens
        /\ token[w].refresh \in 0..Last
  BY CredKinds DEF CredInv, CredAmounts, C!Of
<1>a. CredAmounts
  BY DEF CredInv
<1>b. ASSUME NEW w \in Workers, stage[w] = "exchanging"
      PROVE  {token[w].refresh} \in SUBSET (1..Last)
  <2>1. token[w] = file[C!Of(w)] /\ file[C!Of(w)].refresh # C!NoToken
    BY <1>b DEF CredInv, CredFound
  <2>2. token[w].refresh # 0
    BY <2>1 DEF C!NoToken
  <2>3. QED
    BY <1>0, <2>2, CredKinds
<1>1. ASSUME NEW p \in Providers, C!Expire(p)
      PROVE  CredAmounts'
  BY <1>1, <1>a, CredKinds DEF C!Expire, CredAmounts
<1>2. ASSUME NEW w \in Workers, NEW as \in C!Over, C!Ends(w, as), UNCHANGED C!server
               \/ \E X \in SUBSET (1..Last) : C!Issues(C!Of(w), X)
      PROVE  CredAmounts'
  <2>1. stale' = stale /\ issued' \in [Providers -> 1..Last]
          /\ retired' \in [Providers -> SUBSET (1..Last)]
    BY <1>a, <1>2, CredIssued DEF CredAmounts, C!server
  <2>2. QED
    BY <1>a, <1>2, <2>1, CredEnded DEF CredAmounts
<1>3. ASSUME NEW w \in Workers, C!Denied(w) \/ C!HoldFails(w) \/ C!ExchangeRefused(w)
               \/ C!Finish(w) \/ C!Fail(w)
      PROVE  CredAmounts'
  BY <1>2, <1>3 DEF C!Denied, C!HoldFails, C!ExchangeRefused, C!Finish, C!Fail, C!Over
<1>4. ASSUME NEW w \in Workers, C!AuthorizeFails(w)
      PROVE  CredAmounts'
  BY <1>2, <1>4 DEF C!AuthorizeFails, C!Over
<1>5. ASSUME NEW w \in Workers, C!ExchangeLost(w)
      PROVE  CredAmounts'
  BY <1>b, <1>2, <1>5 DEF C!ExchangeLost, C!Over
<1>6. ASSUME NEW w \in Workers, C!Listen(w) \/ C!Comes(w) \/ C!LogOut(w) \/ C!HoldWhole(w)
      PROVE  CredAmounts'
  <2>1. stage' \in [Workers -> C!Stages]
    BY <1>a, <1>6 DEF CredAmounts, C!Listen, C!Comes, C!LogOut, C!HoldWhole, C!Goes, C!Stages
  <2>2. QED
    BY <1>a, <1>6, <2>1 DEF CredAmounts, C!Listen, C!Comes, C!LogOut, C!HoldWhole, C!server
<1>11. ASSUME NEW w \in Workers, C!Hold(w)
      PROVE  CredAmounts'
  <2>1. stage' \in [Workers -> C!Stages]
    BY <1>a, <1>11 DEF CredAmounts, C!Hold, C!Stages
  <2>2. claim' \in [Providers -> Workers \cup {Nobody}]
    BY <1>0, <1>a, <1>11 DEF CredAmounts, C!Hold
  <2>3. QED
    BY <1>a, <1>11, <2>1, <2>2 DEF CredAmounts, C!Hold, C!server
<1>12. ASSUME NEW w \in Workers, C!ReadWhole(w)
      PROVE  CredAmounts'
  <2>1. stage' \in [Workers -> C!Stages]
    BY <1>a, <1>12 DEF CredAmounts, C!ReadWhole, C!Goes, C!Stages
  <2>2. copy' \in [Workers -> [Providers -> C!Tokens]]
    BY <1>a, <1>12 DEF CredAmounts, C!ReadWhole
  <2>3. QED
    BY <1>a, <1>12, <2>1, <2>2 DEF CredAmounts, C!ReadWhole, C!server
<1>7. ASSUME NEW w \in Workers, C!Authorize(w) \/ C!Exchange(w)
      PROVE  CredAmounts'
  <2>1. PICK X \in SUBSET (1..Last) : C!Issues(C!Of(w), X)
    BY <1>7, <1>b DEF C!Authorize, C!Exchange, C!Goes
  <2>2. /\ stale' = stale /\ issued' \in [Providers -> 1..Last]
           /\ retired' \in [Providers -> SUBSET (1..Last)]
        /\ issued'[C!Of(w)] \in 0..Last
    BY <1>a, <2>1, CredIssued
  <2>3. token' \in [Workers -> C!Tokens]
    <3>1. PICK x \in 0..Last : token' = [token EXCEPT ![w] = [access |-> issued'[C!Of(w)], refresh |-> x]]
      BY <1>7, <2>2, CredKinds DEF C!Authorize, C!Exchange, C!NoToken
    <3>2. [access |-> issued'[C!Of(w)], refresh |-> x] \in C!Tokens
      BY <2>2, CredKinds
    <3>3. QED
      BY <1>a, <3>1, <3>2 DEF CredAmounts
  <2>4. stage' \in [Workers -> C!Stages]
    BY <1>a, <1>7 DEF CredAmounts, C!Authorize, C!Exchange, C!Goes, C!Stages
  <2>5. QED
    BY <1>a, <1>7, <2>2, <2>3, <2>4 DEF CredAmounts, C!Authorize, C!Exchange
<1>8. ASSUME NEW w \in Workers, C!Load(w)
      PROVE  CredAmounts'
  <2>1. CASE C!Ends(w, "done") \/ C!Ends(w, "refused")
    BY <1>2, <1>8, <2>1 DEF C!Load, C!Over
  <2>2. CASE stage' = [stage EXCEPT ![w] = "claiming"]
               /\ UNCHANGED <<file, renewable, claim, whole, job, token, copy>>
    BY <1>a, <1>8, <2>2 DEF C!Load, C!server, C!Stages, CredAmounts
  <2>3. QED
    BY <1>8, <2>1, <2>2 DEF C!Load
<1>9. ASSUME NEW w \in Workers, C!LoadAgain(w)
      PROVE  CredAmounts'
  <2>1. CASE C!Ends(w, "done") \/ C!Ends(w, "refused") \/ C!Ends(w, "expired")
    BY <1>2, <1>9, <2>1 DEF C!LoadAgain, C!Over
  <2>2. CASE /\ stage' = [stage EXCEPT ![w] = "exchanging"]
                /\ UNCHANGED <<file, renewable, claim, whole, job, copy>>
             /\ token' = [token EXCEPT ![w] = file[C!Of(w)]]
    BY <1>0, <1>a, <1>9, <2>2 DEF C!LoadAgain, C!server, C!Stages, CredAmounts
  <2>3. QED
    BY <1>9, <2>1, <2>2 DEF C!LoadAgain
<1>10. ASSUME NEW w \in Workers, C!Write(w)
      PROVE  CredAmounts'
  <2>1. copy[w] \in [Providers -> C!Tokens] /\ C!Renewed(w) \in C!Tokens
    <3>1. copy[w] \in [Providers -> C!Tokens]
      BY <1>a DEF CredAmounts
    <3>2. copy[w][C!Of(w)] \in C!Tokens
      BY <1>0, <3>1
    <3>3. C!Renewed(w) \in C!Tokens
      BY <1>0, <3>2, CredKinds DEF C!Renewed
    <3>4. QED
      BY <3>1, <3>3
  <2>2. file' \in [Providers -> C!Tokens]
    BY <1>0, <1>a, <1>10, <2>1, CredKinds DEF C!Write, CredAmounts
  <2>3. renewable' \in [Providers -> BOOLEAN]
    BY <1>0, <1>a, <1>10 DEF C!Write, CredAmounts
  <2>4. QED
    BY <1>a, <1>10, <2>2, <2>3 DEF C!Write, C!server, C!Stages, CredAmounts
<1>20. QED
  BY <1>1, <1>3, <1>4, <1>5, <1>6, <1>7, <1>8, <1>9, <1>10, <1>11, <1>12 DEF C!Next

\* The kinds of step there are.  A job ends, with what it held let go ...
CredEnds(w) ==
  \E as \in C!Over :
    /\ C!Ends(w, as)
    /\ stage[w] \notin C!Over /\ (as # "lost" => stage[w] \notin {"storing", "reading", "writing"})
    /\ as = "retired" => stage[w] = "exchanging" /\ token[w].refresh \in retired[C!Of(w)]
    /\ \/ UNCHANGED C!server
       \/ C!Issues(C!Of(w), {})
       \/ as = "lost" /\ stage[w] = "exchanging" /\ C!Issues(C!Of(w), {token[w].refresh})

\* ... or goes on, with nothing new in its hands ...
CredMoves(w) == C!Listen(w) \/ C!Comes(w) \/ C!LogOut(w) \/ C!Hold(w) \/ C!HoldWhole(w)

\* ... or looks at what is stored.
CredStales(w) ==
  /\ job[w].does = "ask" /\ stage[w] = "new" /\ stage' = [stage EXCEPT ![w] = "claiming"]
  /\ UNCHANGED <<file, renewable, issued, retired, claim, whole, job, token, copy>>

\* ... or reads what is stored, its provider held.
CredFinds(w) ==
  /\ stage[w] = "again" /\ file[C!Of(w)] # C!Nothing /\ file[C!Of(w)].refresh # C!NoToken
  /\ stage' = [stage EXCEPT ![w] = "exchanging"] /\ token' = [token EXCEPT ![w] = file[C!Of(w)]]
  /\ UNCHANGED <<file, renewable, issued, retired, claim, whole, job, copy>>

\* Every step is of one of those kinds, a loss, or one of the few taken on their own.
LEMMA CredSteps ==
  ASSUME C!Next
  PROVE  \/ UNCHANGED <<file, renewable, issued, retired, claim, whole, stage, job, token, copy>>
         \/ \E w \in Workers : \/ CredEnds(w) \/ CredMoves(w) \/ CredStales(w) \/ CredFinds(w)
                               \/ C!Authorize(w) \/ C!Exchange(w) \/ C!ReadWhole(w)
                                  \/ C!Write(w)
<1>1. ASSUME NEW p \in Providers, C!Expire(p)
      PROVE  UNCHANGED <<file, renewable, issued, retired, claim, whole, stage, job, token, copy>>
  BY <1>1 DEF C!Expire
<1>2. ASSUME NEW w \in Workers, C!Denied(w) \/ C!HoldFails(w) \/ C!ExchangeRefused(w)
               \/ C!Finish(w) \/ C!Fail(w)
      PROVE  CredEnds(w)
  BY <1>2 DEF CredEnds, C!Denied, C!HoldFails, C!ExchangeRefused, C!Finish, C!Fail, C!Over,
     C!Goes
<1>3. ASSUME NEW w \in Workers, C!AuthorizeFails(w) \/ C!ExchangeLost(w)
      PROVE  CredEnds(w)
  BY <1>3 DEF CredEnds, C!AuthorizeFails, C!ExchangeLost, C!Over
<1>4. ASSUME NEW w \in Workers, C!Load(w)
      PROVE  CredEnds(w) \/ CredStales(w)
  BY <1>4 DEF CredEnds, CredStales, C!Load, C!Over, C!server
<1>5. ASSUME NEW w \in Workers, C!LoadAgain(w)
      PROVE  CredEnds(w) \/ CredFinds(w)
  BY <1>5 DEF CredEnds, CredFinds, C!LoadAgain, C!Over, C!server
<1>6. QED
  BY <1>1, <1>2, <1>3, <1>4, <1>5 DEF C!Next, CredMoves

\* A claim is held from the step that takes it to the end of the job.
LEMMA CredHeld ==
  ASSUME CredInv, C!Next
  PROVE  CredClaims'
<1>0. /\ CredAmounts /\ CredClaims /\ Nobody \notin Workers
      /\ \A w \in Workers : C!Of(w) \in Providers
  BY CredKinds DEF CredInv, CredAmounts, C!Of
<1>1. CASE UNCHANGED <<file, renewable, issued, retired, claim, whole, stage, job, token, copy>>
  BY <1>0, <1>1 DEF CredClaims, C!Of
<1>2. ASSUME NEW w \in Workers, CredEnds(w)
      PROVE  CredClaims'
  <2>1. PICK as \in C!Over : C!Ends(w, as)
    BY <1>2 DEF CredEnds
  <2>2. /\ stage' = [stage EXCEPT ![w] = as] /\ job' = job /\ as \notin C!HoldsClaim
           /\ as \notin C!HoldsWhole
        /\ claim' = [p \in Providers |-> IF claim[p] = w THEN Nobody ELSE claim[p]]
        /\ whole' = IF whole = w THEN Nobody ELSE whole
    BY <2>1 DEF C!Ends, C!Drops, C!Over, C!HoldsClaim, C!HoldsWhole
  <2>3. \A v \in Workers, p \in Providers : claim'[p] = v <=> stage'[v] \in C!HoldsClaim
          /\ p = C!Of(v)
    BY <1>0, <2>2, ZenonT(30) DEF CredAmounts, CredClaims
  <2>4. \A v \in Workers : whole' = v <=> stage'[v] \in C!HoldsWhole
    BY <1>0, <2>2 DEF CredAmounts, CredClaims
  <2>5. QED
    BY <2>2, <2>3, <2>4 DEF CredClaims, C!Of
<1>3. ASSUME NEW w \in Workers, C!Hold(w)
      PROVE  CredClaims'
  <2>1. PICK s \in {"again", "storing"} :
          /\ stage' = [stage EXCEPT ![w] = s] /\ stage[w] = "claiming"
             /\ claim[C!Of(w)] = Nobody
          /\ claim' = [claim EXCEPT ![C!Of(w)] = w] /\ UNCHANGED <<whole, job>>
    BY <1>3 DEF C!Hold
  <2>2. s \in C!HoldsClaim /\ s \notin C!HoldsWhole /\ stage[w] \notin C!HoldsClaim
          /\ stage[w] \notin C!HoldsWhole
    BY <2>1 DEF C!HoldsClaim, C!HoldsWhole
  <2>3. \A v \in Workers, p \in Providers : claim'[p] = v <=> stage'[v] \in C!HoldsClaim
          /\ p = C!Of(v)
    BY <1>0, <2>1, <2>2 DEF CredAmounts, CredClaims
  <2>4. \A v \in Workers : whole' = v <=> stage'[v] \in C!HoldsWhole
    BY <1>0, <2>1, <2>2 DEF CredAmounts, CredClaims
  <2>5. QED
    BY <2>1, <2>3, <2>4 DEF CredClaims, C!Of
<1>4. ASSUME NEW w \in Workers, C!HoldWhole(w)
      PROVE  CredClaims'
  <2>1. /\ stage' = [stage EXCEPT ![w] = "reading"] /\ stage[w] = "storing" /\ whole = Nobody
        /\ whole' = w /\ UNCHANGED <<claim, job>>
    BY <1>4 DEF C!HoldWhole, C!Goes
  <2>2. \A v \in Workers, p \in Providers : claim'[p] = v <=> stage'[v] \in C!HoldsClaim
          /\ p = C!Of(v)
    BY <1>0, <2>1 DEF CredAmounts, CredClaims, C!HoldsClaim
  <2>3. \A v \in Workers : whole' = v <=> stage'[v] \in C!HoldsWhole
    BY <1>0, <2>1 DEF CredAmounts, CredClaims, C!HoldsWhole
  <2>4. QED
    BY <2>1, <2>2, <2>3 DEF CredClaims, C!Of
<1>5. ASSUME NEW w \in Workers, NEW s \in C!Stages, stage' = [stage EXCEPT ![w] = s],
             s \in C!HoldsClaim <=> stage[w] \in C!HoldsClaim,
             s \in C!HoldsWhole <=> stage[w] \in C!HoldsWhole, UNCHANGED <<claim, whole, job>>
      PROVE  CredClaims'
  <2>1. \A v \in Workers, p \in Providers : claim'[p] = v <=> stage'[v] \in C!HoldsClaim
          /\ p = C!Of(v)
    BY <1>0, <1>5 DEF CredAmounts, CredClaims
  <2>2. \A v \in Workers : whole' = v <=> stage'[v] \in C!HoldsWhole
    BY <1>0, <1>5 DEF CredAmounts, CredClaims
  <2>3. QED
    BY <1>5, <2>1, <2>2 DEF CredClaims, C!Of
<1>6. ASSUME NEW w \in Workers,
             \/ C!Listen(w) \/ C!Comes(w) \/ C!LogOut(w) \/ CredStales(w) \/ CredFinds(w)
             \/ C!Authorize(w) \/ C!Exchange(w) \/ C!ReadWhole(w) \/ C!Write(w)
      PROVE  CredClaims'
  <2>1. C!HoldsClaim = {"again", "exchanging", "storing", "reading", "writing", "written"}
        /\ C!HoldsWhole = {"reading", "writing", "written"}
    BY DEF C!HoldsClaim, C!HoldsWhole
  <2>2. /\ {"listening", "granted", "claiming", "exchanging", "storing", "writing",
           "written"} \subseteq C!Stages
    BY DEF C!Stages
  <2>3. QED
    BY <1>5, <1>6, <2>1, <2>2 DEF C!Listen, C!Comes, C!LogOut, CredStales, CredFinds,
       C!Authorize,
                                C!Exchange, C!ReadWhole, C!Write, C!Goes
<1>7. QED
  BY <1>1, <1>2, <1>3, <1>4, <1>6, CredSteps DEF CredMoves

\* Of what is in the invariant, what the leaves below need.
LEMMA CredFacts ==
  ASSUME CredInv
  PROVE  /\ CredAmounts /\ CredClaims /\ CredIssues /\ CredOwn /\ CredFound
         /\ \A w \in Workers : C!Of(w) \in Providers /\ token[w] \in C!Tokens
         /\ \A w \in Workers : token[w].refresh \in 0..Last /\ token[w].access \in 0..Last
         /\ \A p \in Providers : file[p] \in C!Tokens /\ file[p].refresh \in 0..Last
            /\ file[p].access \in 0..Last
         /\ \A p \in Providers : issued[p] \in 1..Last /\ retired[p] \subseteq 1..Last
         /\ \A w \in Workers : stage[w] = "exchanging" =>
            token[w].refresh \in 1..issued[C!Of(w)]
<1>1. /\ CredAmounts /\ CredClaims /\ CredIssues /\ CredOwn /\ CredFound
  BY DEF CredInv
<1>2. \A w \in Workers : C!Of(w) \in Providers /\ token[w] \in C!Tokens
  BY <1>1 DEF CredAmounts, C!Of
<1>3. \A p \in Providers : file[p] \in C!Tokens /\ issued[p] \in 1..Last
        /\ retired[p] \subseteq 1..Last
  BY <1>1 DEF CredAmounts
<1>4. \A x \in C!Tokens : x.refresh \in 0..Last /\ x.access \in 0..Last
  BY CredKinds
<1>5. ASSUME NEW w \in Workers, stage[w] = "exchanging"
      PROVE  token[w].refresh \in 1..issued[C!Of(w)]
  <2>1. token[w] = file[C!Of(w)] /\ file[C!Of(w)].refresh # C!NoToken
    BY <1>1, <1>5 DEF CredFound
  <2>2. token[w].refresh # 0 /\ token[w].refresh <= issued[C!Of(w)]
    BY <1>1, <1>2, <2>1 DEF CredIssues, C!NoToken
  <2>3. token[w].refresh \in 0..Last /\ issued[C!Of(w)] \in 1..Last
    BY <1>2, <1>3, <1>4
  <2>4. QED
    BY <2>2, <2>3, CredKinds
<1>6. QED
  BY <1>1, <1>2, <1>3, <1>4, <1>5

\* A server that issues counts on, and retires at most what it was given.
LEMMA CredServes ==
  ASSUME CredInv, NEW w \in Workers, NEW X \in SUBSET (1..issued[C!Of(w)]), C!Issues(C!Of(w), X)
  PROVE  /\ issued'[C!Of(w)] = issued[C!Of(w)] + 1
         /\ \A p \in Providers : issued'[p] \in 1..Last /\ issued[p] <= issued'[p]
         /\ \A p \in Providers : retired'[p] \subseteq 1..issued'[p]
            /\ (p \notin Rotates => retired'[p] = {})
         /\ \A p \in Providers : retired'[p] \subseteq retired[p] \cup X
         /\ \A p \in Providers \ {C!Of(w)} : retired'[p] = retired[p] /\ issued'[p] = issued[p]
<1> DEFINE o == C!Of(w)
<1>1. /\ o \in Providers /\ \A p \in Providers : issued[p] \in 1..Last
         /\ retired[p] \subseteq 1..issued[p]
      /\ issued \in [Providers -> 1..Last] /\ retired \in [Providers -> SUBSET (1..Last)]
      /\ \A p \in Providers : p \notin Rotates => retired[p] = {}
  BY CredFacts DEF CredIssues, CredAmounts
<1>2. /\ issued[o] < Last /\ issued' = [issued EXCEPT ![o] = @ + 1]
      /\ retired' = [retired EXCEPT ![o] = IF o \in Rotates THEN @ \cup X ELSE @]
  BY DEF C!Issues
<1>3. X \subseteq 1..issued[o]
  OBVIOUS
<1> HIDE DEF o
<1>4. issued'[o] = issued[o] + 1 /\ issued'[o] \in 1..Last
  BY <1>1, <1>2, CredKinds
<1>5. \A p \in Providers \ {o} : retired'[p] = retired[p] /\ issued'[p] = issued[p]
  BY <1>1, <1>2
<1>6. retired'[o] = IF o \in Rotates THEN retired[o] \cup X ELSE retired[o]
  BY <1>1, <1>2
<1>7. \A p \in Providers : issued'[p] \in 1..Last /\ issued[p] <= issued'[p]
  BY <1>1, <1>4, <1>5, CredKinds
<1>8. retired'[o] \subseteq 1..issued'[o]
  <2>1. 1..issued[o] \subseteq 1..issued'[o]
    BY <1>1, <1>4, CredKinds
  <2>2. QED
    BY <1>1, <1>3, <1>6, <2>1
<1>9. \A p \in Providers : retired'[p] \subseteq 1..issued'[p]
        /\ (p \notin Rotates => retired'[p] = {})
  BY <1>1, <1>5, <1>6, <1>8
<1>10. QED
  BY <1>4, <1>5, <1>6, <1>7, <1>9 DEF o

\* What an end of a job leaves: a server may have issued once more, and retired what was sent
\* to it.
LEMMA CredLeft ==
  ASSUME CredInv, NEW w \in Workers, CredEnds(w)
  PROVE  /\ file' = file /\ renewable' = renewable /\ job' = job /\ stage'[w] \in C!Over
         /\ \A v \in Workers \ {w} : stage'[v] = stage[v] /\ token'[v] = token[v]
            /\ copy'[v] = copy[v]
         /\ token'[w] = C!Nothing
         /\ \A p \in Providers : issued'[p] \in 1..Last /\ issued[p] <= issued'[p]
         /\ \A p \in Providers : retired'[p] \subseteq 1..issued'[p]
            /\ (p \notin Rotates => retired'[p] = {})
         /\ \/ \A p \in Providers : retired'[p] = retired[p]
            \/ /\ stage'[w] = "lost" /\ stage[w] = "exchanging"
               /\ \A p \in Providers : retired'[p] \subseteq retired[p] \cup {token[w].refresh}
               /\ \A p \in Providers \ {C!Of(w)} : retired'[p] = retired[p]
<1>1. PICK as \in C!Over :
        /\ C!Ends(w, as)
        /\ \/ UNCHANGED C!server
           \/ C!Issues(C!Of(w), {})
           \/ as = "lost" /\ stage[w] = "exchanging" /\ C!Issues(C!Of(w), {token[w].refresh})
  BY DEF CredEnds
<1>2. CredAmounts /\ CredIssues /\ C!Of(w) \in Providers
        /\ \A p \in Providers : issued[p] \in 1..Last
  BY CredFacts
<1>3. /\ file' = file /\ renewable' = renewable /\ job' = job /\ stage'[w] = as
      /\ \A v \in Workers \ {w} : stage'[v] = stage[v] /\ token'[v] = token[v]
         /\ copy'[v] = copy[v]
      /\ token'[w] = C!Nothing
  BY <1>1, <1>2 DEF C!Ends, CredAmounts
<1>4. CASE UNCHANGED C!server
  <2>1. issued' = issued /\ retired' = retired
    BY <1>4 DEF C!server
  <2>2. \A p \in Providers : retired[p] \subseteq 1..issued[p]
          /\ (p \notin Rotates => retired[p] = {})
    BY <1>2 DEF CredIssues
  <2>3. \A p \in Providers : issued[p] <= issued[p]
    BY <1>2, CredKinds
  <2>4. QED
    BY <1>1, <1>2, <1>3, <2>1, <2>2, <2>3
<1>5. CASE C!Issues(C!Of(w), {})
  <2>1. \A p \in Providers : retired'[p] = retired[p]
    <3>1. retired' = [retired EXCEPT ![C!Of(w)] = IF C!Of(w) \in Rotates THEN @ \cup {} ELSE @]
      BY <1>5 DEF C!Issues
    <3>2. QED
      BY <1>2, <3>1 DEF CredAmounts
  <2>2. {} \in SUBSET (1..issued[C!Of(w)])
    OBVIOUS
  <2>3. QED
    BY <1>1, <1>3, <1>5, <2>1, <2>2, CredServes
<1>6. CASE as = "lost" /\ stage[w] = "exchanging" /\ C!Issues(C!Of(w), {token[w].refresh})
  <2>1. {token[w].refresh} \in SUBSET (1..issued[C!Of(w)])
    BY <1>6, CredFacts
  <2>2. QED
    BY <1>1, <1>3, <1>6, <2>1, CredServes
<1>7. QED
  BY <1>1, <1>4, <1>5, <1>6

\* A write puts in, for the writer's own provider, what it was given, and keeps what others
\* wrote.
LEMMA CredWrites ==
  ASSUME CredInv, NEW w \in Workers, C!Write(w)
  PROVE  /\ stage[w] = "writing" /\ stage' = [stage EXCEPT ![w] = "written"]
         /\ UNCHANGED <<stale, issued, retired, claim, whole, job, token, copy>>
         /\ claim[C!Of(w)] = w
         /\ \A p \in Providers \ {C!Of(w)} : file'[p] = file[p]
         /\ \A p \in Providers \ {C!Of(w)} : renewable'[p] = renewable[p]
         /\ IF job[w].does = "login" THEN renewable'[C!Of(w)] = (token[w].refresh # C!NoToken)
            ELSE renewable' = renewable
         /\ \/ job[w].does = "logout" /\ file'[C!Of(w)] = C!Nothing
            \/ /\ job[w].does = "login" /\ file'[C!Of(w)] = token[w]
               /\ token[w].refresh # C!NoToken => Granted(w)
            \/ /\ job[w].does = "ask" /\ C!Of(w) \in Rotates /\ Granted(w)
               /\ file[C!Of(w)] # C!Nothing /\ file'[C!Of(w)] = token[w]
               /\ file[C!Of(w)].refresh # C!NoToken
            \/ /\ job[w].does = "ask" /\ C!Of(w) \notin Rotates /\ file[C!Of(w)] # C!Nothing
               /\ file[C!Of(w)].refresh # C!NoToken
               /\ file'[C!Of(w)].access = token[w].access
                  /\ file'[C!Of(w)].refresh = file[C!Of(w)].refresh
<1> DEFINE o == C!Of(w)
           x == CASE job[w].does = "ask" -> C!Renewed(w)
                  [] job[w].does = "login" -> token[w]
                  [] job[w].does = "logout" -> C!Nothing
<1>0. /\ CredAmounts /\ CredClaims /\ CredFound /\ CredOwn /\ o \in Providers
         /\ token[w] \in C!Tokens
      /\ file[o] \in C!Tokens
  BY CredFacts
<1>1. /\ stage[w] = "writing" /\ file' = [copy[w] EXCEPT ![o] = x]
      /\ stage' = [stage EXCEPT ![w] = "written"]
      /\ UNCHANGED <<stale, issued, retired, claim, whole, job, token, copy>>
  BY DEF C!Write, C!server
<1>2. copy[w] = file /\ claim[o] = w
  BY <1>0, <1>1 DEF CredFound, CredClaims, C!HoldsClaim
<1>3. file'[o] = x /\ \A p \in Providers \ {o} : file'[p] = file[p]
  <2> HIDE DEF x, o
  <2>1. QED
    BY <1>0, <1>1, <1>2 DEF CredAmounts
<1>4. job[w].does \in {"ask", "login", "logout"}
  BY <1>0 DEF CredAmounts
<1>9. /\ \A p \in Providers \ {o} : renewable'[p] = renewable[p]
      /\ IF job[w].does = "login" THEN renewable'[o] = (token[w].refresh # C!NoToken)
         ELSE renewable' = renewable
  <2>1. renewable' = IF job[w].does = "login"
                     THEN [renewable EXCEPT ![o] = token[w].refresh # C!NoToken] ELSE renewable
    BY DEF C!Write
  <2>2. renewable \in [Providers -> BOOLEAN]
    BY <1>0 DEF CredAmounts
  <2> HIDE DEF o
  <2>3. QED
    BY <1>0, <2>1, <2>2
<1>5. CASE job[w].does = "logout"
  BY <1>1, <1>2, <1>3, <1>5, <1>9
<1>6. CASE job[w].does = "login"
  BY <1>1, <1>2, <1>3, <1>6, <1>9 DEF Granted
<1>7. CASE job[w].does = "ask"
  <2>1. file[o] # C!Nothing /\ file[o].refresh # C!NoToken /\ x = C!Renewed(w)
    BY <1>0, <1>1, <1>7 DEF CredFound
  <2>2. CASE o \in Rotates
    <3>1. Granted(w)
      BY <1>1, <1>7, <2>2 DEF Granted
    <3>2. x = token[w]
      BY <1>0, <2>1, <3>1 DEF C!Renewed, CredOwn
    <3>3. QED
      BY <1>1, <1>2, <1>3, <1>7, <1>9, <2>1, <2>2, <3>1, <3>2
  <2>3. CASE o \notin Rotates
    <3>1. token[w].refresh = C!NoToken
      BY <1>0, <1>1, <1>7, <2>3 DEF CredFound
    <3>2. x = [token[w] EXCEPT !.refresh = file[o].refresh]
      BY <1>2, <2>1, <3>1 DEF C!Renewed
    <3>3. x.access = token[w].access /\ x.refresh = file[o].refresh
      BY <1>0, <3>2, CredKinds
    <3> HIDE DEF x
    <3>4. QED
      BY <1>1, <1>2, <1>3, <1>7, <1>9, <2>1, <2>3, <3>3
  <2>4. QED
    BY <2>2, <2>3
<1>8. QED
  BY <1>4, <1>5, <1>6, <1>7

\* What is held and stored stays within what was issued.
LEMMA CredCounted ==
  ASSUME CredInv, C!Next
  PROVE  CredIssues'
<1>0. /\ CredAmounts /\ CredIssues /\ \A w \in Workers : C!Of(w) \in Providers
      /\ \A w \in Workers : token[w].refresh \in 0..Last /\ token[w].access \in 0..Last
      /\ \A p \in Providers : file[p].refresh \in 0..Last /\ file[p].access \in 0..Last
      /\ \A p \in Providers : issued[p] \in 1..Last
  BY CredFacts
<1>1. CASE UNCHANGED <<file, renewable, issued, retired, claim, whole, stage, job, token, copy>>
  BY <1>0, <1>1 DEF CredIssues, C!Of
\* What is stored and what is held is as it was, or another number that was issued.
<1>2. ASSUME file' = file, job' = job,
             \A p \in Providers : issued'[p] \in 1..Last /\ issued[p] <= issued'[p],
             \A p \in Providers : retired'[p] \subseteq 1..issued'[p]
               /\ (p \notin Rotates => retired'[p] = {}),
             \A w \in Workers : \/ token'[w] \in {token[w], C!Nothing, file[C!Of(w)]}
                               \/ /\ token'[w].access = issued'[C!Of(w)]
                                  /\ token'[w].refresh \in {issued'[C!Of(w)], 0}
      PROVE  CredIssues'
  <2>1. ASSUME NEW p \in Providers
        PROVE  file'[p].access <= issued'[p] /\ file'[p].refresh <= issued'[p]
    BY <1>0, <1>2, CredKinds DEF CredIssues
  <2>2. ASSUME NEW w \in Workers
        PROVE  token'[w].access <= issued'[C!Of(w)] /\ token'[w].refresh <= issued'[C!Of(w)]
    <3> DEFINE o == C!Of(w)
    <3>1. /\ o \in Providers /\ token[w].access <= issued[o] /\ token[w].refresh <= issued[o]
          /\ file[o].access <= issued[o] /\ file[o].refresh <= issued[o]
          /\ issued[o] \in Nat /\ issued'[o] \in Nat /\ issued[o] <= issued'[o]
          /\ token[w].access \in Nat /\ token[w].refresh \in Nat /\ file[o].access \in Nat
             /\ file[o].refresh \in Nat
      BY <1>0, <1>2, CredKinds DEF CredIssues
    <3>2. \/ token'[w] \in {token[w], C!Nothing, file[o]}
          \/ token'[w].access = issued'[o] /\ token'[w].refresh \in {issued'[o], 0}
      BY <1>2
    <3> HIDE DEF o
    <3>3. token'[w].access <= issued'[o] /\ token'[w].refresh <= issued'[o]
      BY <3>1, <3>2, CredKinds
    <3>4. QED
      BY <3>3 DEF o
  <2>3. QED
    BY <1>0, <1>2, <2>1, <2>2 DEF CredIssues, C!Of
<1>3. ASSUME NEW w \in Workers, CredEnds(w)
      PROVE  CredIssues'
  BY <1>2, <1>3, CredLeft
<1>4. ASSUME UNCHANGED <<file, renewable, issued, retired, job>>,
             \A w \in Workers : token'[w] \in {token[w], C!Nothing, file[C!Of(w)]}
      PROVE  CredIssues'
  <2>1. \A p \in Providers : issued'[p] \in 1..Last /\ issued[p] <= issued'[p]
    BY <1>0, <1>4, CredKinds
  <2>2. QED
    BY <1>0, <1>2, <1>4, <2>1 DEF CredIssues
<1>5. ASSUME NEW w \in Workers, CredMoves(w) \/ CredStales(w) \/ CredFinds(w) \/ C!ReadWhole(w)
      PROVE  CredIssues'
  BY <1>0, <1>4, <1>5 DEF CredAmounts, CredMoves, CredStales, CredFinds, C!ReadWhole, C!Listen,
     C!Comes, C!LogOut, C!Hold,
                        C!HoldWhole, C!server
<1>6. ASSUME NEW w \in Workers, C!Authorize(w) \/ C!Exchange(w)
      PROVE  CredIssues'
  <2>1. PICK X \in SUBSET (1..issued[C!Of(w)]) : C!Issues(C!Of(w), X)
    BY <1>6, CredFacts DEF C!Authorize, C!Exchange, C!Goes
  <2>2. PICK x \in {issued'[C!Of(w)], 0} :
          token' = [token EXCEPT ![w] = [access |-> issued'[C!Of(w)], refresh |-> x]]
    BY <1>6 DEF C!Authorize, C!Exchange, C!NoToken
  <2>3. \A v \in Workers : \/ token'[v] \in {token[v], C!Nothing, file[C!Of(v)]}
                           \/ token'[v].access = issued'[C!Of(v)]
                              /\ token'[v].refresh \in {issued'[C!Of(v)], 0}
    BY <1>0, <2>2 DEF CredAmounts
  <2>4. file' = file /\ job' = job
    BY <1>6 DEF C!Authorize, C!Exchange
  <2>5. QED
    BY <1>2, <2>1, <2>3, <2>4, CredServes
<1>7. ASSUME NEW w \in Workers, C!Write(w)
      PROVE  CredIssues'
  <2> DEFINE o == C!Of(w)
  <2>1. /\ UNCHANGED <<issued, retired, job, token>>
           /\ \A p \in Providers \ {o} : file'[p] = file[p]
        /\ \/ file'[o] = C!Nothing
           \/ file'[o] = token[w]
           \/ file'[o].access = token[w].access /\ file'[o].refresh = file[o].refresh
    BY <1>7, CredWrites
  <2>2. /\ o \in Providers /\ token[w].access <= issued[o] /\ token[w].refresh <= issued[o]
        /\ file[o].refresh <= issued[o] /\ issued[o] \in Nat
    BY <1>0, CredFacts, CredKinds DEF CredIssues
  <2>3. file'[o].access <= issued[o] /\ file'[o].refresh <= issued[o]
    <3> HIDE DEF o
    <3>1. QED
      BY <2>1, <2>2, CredKinds
  <2>4. \A p \in Providers : file'[p].access <= issued[p] /\ file'[p].refresh <= issued[p]
    BY <1>0, <2>1, <2>3 DEF CredIssues
  <2>5. QED
    BY <1>0, <2>1, <2>4 DEF CredIssues, C!Of
<1>8. QED
  BY <1>1, <1>3, <1>5, <1>6, <1>7, CredSteps

\* What was given to a worker stays its own.
LEMMA CredOwned ==
  ASSUME CredInv, C!Next
  PROVE  CredOwn'
<1>0. /\ CredAmounts /\ CredIssues /\ CredOwn /\ CredFound
         /\ \A w \in Workers : C!Of(w) \in Providers
      /\ \A w \in Workers : token[w].refresh \in 0..Last
      /\ \A p \in Providers : file[p].refresh \in 0..Last /\ issued[p] \in 1..Last
         /\ retired[p] \subseteq 1..Last
      /\ \A p \in Providers : file[p].refresh <= issued[p] /\ retired[p] \subseteq 1..issued[p]
      /\ \A w \in Workers : token[w].refresh <= issued[C!Of(w)]
      /\ C!NoToken = 0
  BY CredFacts DEF CredIssues, C!NoToken
\* A worker has what it had, nothing, or what was issued just now.
<1>1. ASSUME NEW w \in Workers, job' = job, file' = file,
             \A v \in Workers \ {w} : token'[v] = token[v] /\ (Granted(v)' => Granted(v)),
             \/ \A p \in Providers : retired'[p] = retired[p]
             \/ /\ stage[w] = "exchanging"
                /\ \A p \in Providers : retired'[p] \subseteq retired[p] \cup {token[w].refresh}
                /\ \A p \in Providers \ {C!Of(w)} : retired'[p] = retired[p],
             Granted(w)' => \/ Granted(w) /\ token'[w] = token[w] /\ stage[w] # "exchanging"
                            \/ token'[w].refresh = issued[C!Of(w)] + 1
      PROVE  CredOwn'
  <2>1. ASSUME NEW v \in Workers, Granted(v), token'[v] = token[v], v # w
                 \/ stage[w] # "exchanging"
        PROVE  token'[v].refresh \notin retired'[C!Of(v)]
    <3>1. token[v].refresh \notin retired[C!Of(v)] /\ token[v].refresh # file[C!Of(v)].refresh
      BY <1>0, <2>1 DEF CredOwn
    <3>2. CASE \A p \in Providers : retired'[p] = retired[p]
      BY <1>0, <2>1, <3>1, <3>2
    <3>3. CASE stage[w] = "exchanging" /\ v # w
      <4>1. token[w] = file[C!Of(w)]
        BY <1>0, <3>3 DEF CredFound
      <4>2. CASE C!Of(v) = C!Of(w)
        <5>1. retired'[C!Of(v)] \subseteq retired[C!Of(v)] \cup {token[w].refresh}
          BY <1>0, <1>1
        <5>2. QED
          BY <2>1, <3>1, <4>1, <4>2, <5>1
      <4>3. CASE C!Of(v) # C!Of(w)
        BY <1>0, <1>1, <2>1, <3>1, <4>3
      <4>4. QED
        BY <4>2, <4>3
    <3>4. QED
      BY <1>1, <2>1, <3>2, <3>3
  <2>2. ASSUME NEW v \in Workers, Granted(v)'
        PROVE  /\ token'[v].refresh # 0 /\ token'[v].refresh \notin retired'[C!Of(v)]
               /\ token'[v].refresh # file'[C!Of(v)].refresh
    <3>1. CASE Granted(v) /\ token'[v] = token[v] /\ (v # w \/ stage[w] # "exchanging")
      BY <1>0, <1>1, <2>1, <3>1 DEF CredOwn
    <3>2. CASE v = w /\ token'[w].refresh = issued[C!Of(w)] + 1
      <4> DEFINE o == C!Of(w)
                 r == token'[w].refresh
      <4>1. /\ o \in Providers /\ issued[o] \in Nat /\ file[o].refresh \in Nat
               /\ file[o].refresh <= issued[o]
            /\ token[w].refresh \in Nat /\ token[w].refresh <= issued[o]
            /\ retired[o] \subseteq 1..issued[o]
               /\ retired'[o] \subseteq retired[o] \cup {token[w].refresh}
        BY <1>0, <1>1, CredKinds
      <4>2. r = issued[o] + 1
        BY <3>2
      <4> HIDE DEF o, r
      <4>3. r # 0 /\ r # file[o].refresh /\ r # token[w].refresh /\ r \notin 1..issued[o]
        BY <4>1, <4>2
      <4>4. r \notin retired'[o]
        BY <4>1, <4>3
      <4>5. r # 0 /\ r \notin retired'[C!Of(w)] /\ r # file[C!Of(w)].refresh
        BY <4>3, <4>4 DEF o
      <4>6. QED
        BY <1>1, <3>2, <4>5 DEF r
    <3>3. QED
      BY <1>1, <2>2, <3>1, <3>2
  <2>3. ASSUME NEW v \in Workers, NEW u \in Workers, Granted(v)', Granted(u)', v # u,
                 C!Of(v) = C!Of(u)
        PROVE  token'[v].refresh # token'[u].refresh
    <3>1. CASE Granted(v) /\ token'[v] = token[v] /\ Granted(u) /\ token'[u] = token[u]
      BY <1>0, <2>3, <3>1 DEF CredOwn
    <3>2. CASE v = w /\ token'[w].refresh = issued[C!Of(w)] + 1
      <4>1. token'[u] = token[u] /\ token[u].refresh <= issued[C!Of(w)]
              /\ token[u].refresh \in Nat /\ issued[C!Of(w)] \in Nat
        BY <1>0, <1>1, <2>3, <3>2, CredKinds
      <4>2. QED
        BY <3>2, <4>1
    <3>3. CASE u = w /\ token'[w].refresh = issued[C!Of(w)] + 1
      <4>1. token'[v] = token[v] /\ token[v].refresh <= issued[C!Of(w)]
              /\ token[v].refresh \in Nat /\ issued[C!Of(w)] \in Nat
        BY <1>0, <1>1, <2>3, <3>3, CredKinds
      <4>2. QED
        BY <3>3, <4>1
    <3>4. QED
      BY <1>1, <2>3, <3>1, <3>2, <3>3
  <2>4. \A v \in Workers : C!Of(v)' = C!Of(v)
    BY <1>1 DEF C!Of
  <2>5. QED
    BY <1>0, <2>2, <2>3, <2>4 DEF CredOwn
<1>2. CASE UNCHANGED <<file, renewable, issued, retired, claim, whole, stage, job, token, copy>>
  BY <1>0, <1>2 DEF CredOwn, C!Of, Granted
<1>3. ASSUME NEW w \in Workers, CredEnds(w)
      PROVE  CredOwn'
  <2>1. ~Granted(w)' /\ \A v \in Workers \ {w} : Granted(v)' => Granted(v)
    BY <1>3, CredLeft DEF Granted, C!Over, C!Of
  <2>2. QED
    BY <1>1, <1>3, <2>1, CredLeft
<1>4. ASSUME NEW w \in Workers, NEW s, UNCHANGED <<file, retired, job>>,
               stage' = [stage EXCEPT ![w] = s],
             \A v \in Workers \ {w} : token'[v] = token[v],
             \/ token'[w] = token[w] /\ s \in {"claiming", "storing", "reading", "writing"}
                /\ Granted(w) /\ stage[w] # "exchanging"
             \/ job[w].does = "login" /\ token'[w] = token[w] /\ token[w].refresh = C!NoToken
             \/ s \in {"listening", "granted", "again", "exchanging", "written"}
             \/ job[w].does = "logout" \/ (s = "claiming" /\ job[w].does = "ask")
      PROVE  CredOwn'
  <2>1. \A v \in Workers \ {w} : Granted(v)' => Granted(v)
    BY <1>0, <1>4 DEF CredAmounts, Granted, C!Of
  <2>2. Granted(w)' => Granted(w) /\ token'[w] = token[w] /\ stage[w] # "exchanging"
    BY <1>0, <1>4 DEF CredAmounts, Granted, C!Of
  <2>3. QED
    BY <1>1, <1>4, <2>1, <2>2
<1>5. ASSUME NEW w \in Workers, C!Listen(w) \/ C!Comes(w) \/ C!LogOut(w) \/ CredStales(w)
               \/ CredFinds(w)
      PROVE  CredOwn'
  BY <1>0, <1>4, <1>5 DEF C!Listen, C!Comes, C!LogOut, CredStales, CredFinds, C!Goes, C!server,
     CredAmounts
<1>6. ASSUME NEW w \in Workers, C!Hold(w)
      PROVE  CredOwn'
  <2>1. CASE job[w].does = "ask"
    BY <1>0, <1>4, <1>6, <2>1 DEF C!Hold, C!server, CredAmounts
  <2>2. CASE job[w].does = "login"
    <3>1. /\ stage[w] = "claiming" /\ stage' = [stage EXCEPT ![w] = "storing"]
          /\ UNCHANGED <<file, retired, job, token>>
      BY <1>6, <2>2 DEF C!Hold, C!server
    <3>2. token[w].refresh # C!NoToken => Granted(w)
      BY <2>2, <3>1 DEF Granted
    <3>3. QED
      BY <1>4, <2>2, <3>1, <3>2
  <2>3. CASE job[w].does = "logout"
    BY <1>0, <1>4, <1>6, <2>3 DEF C!Hold, C!server, CredAmounts
  <2>4. QED
    BY <1>0, <2>1, <2>2, <2>3 DEF CredAmounts
<1>7. ASSUME NEW w \in Workers, NEW s \in {"reading", "writing"},
               UNCHANGED <<file, retired, job, token>>,
             stage[w] \in {"storing", "reading"}, stage' = [stage EXCEPT ![w] = s]
      PROVE  CredOwn'
  <2>1. \A v \in Workers : Granted(v)' => Granted(v)
    BY <1>0, <1>7 DEF CredAmounts, Granted, C!Of
  <2>2. QED
    BY <1>1, <1>7, <2>1
<1>8. ASSUME NEW w \in Workers, C!HoldWhole(w) \/ C!ReadWhole(w)
      PROVE  CredOwn'
  BY <1>7, <1>8 DEF C!HoldWhole, C!ReadWhole, C!Goes, C!server
<1>9. ASSUME NEW w \in Workers, C!Authorize(w) \/ C!Exchange(w)
      PROVE  CredOwn'
  <2>1. /\ stage'[w] \in {"claiming", "storing"}
           /\ \A v \in Workers \ {w} : stage'[v] = stage[v]
        /\ \A v \in Workers \ {w} : token'[v] = token[v] /\ file' = file /\ job' = job
    BY <1>0, <1>9 DEF CredAmounts, C!Authorize, C!Exchange, C!Goes
  <2>2. \A v \in Workers \ {w} : Granted(v)' => Granted(v)
    BY <2>1 DEF Granted, C!Of
  <2>3. file' = file /\ job' = job
    BY <1>9 DEF C!Authorize, C!Exchange
  <2>4. CASE C!Authorize(w)
    <3>1. {} \in SUBSET (1..issued[C!Of(w)]) /\ C!Issues(C!Of(w), {})
      BY <2>4 DEF C!Authorize
    <3>2. issued'[C!Of(w)] = issued[C!Of(w)] + 1
      BY <3>1, CredServes
    <3>3. \A p \in Providers : retired'[p] = retired[p]
      BY <1>0, <3>1 DEF CredAmounts, C!Issues
    <3>6. token'[w].refresh \in {issued[C!Of(w)] + 1, C!NoToken}
      BY <1>0, <2>4, <3>2 DEF CredAmounts, C!Authorize
    <3>7. job[w].does = "login"
      BY <1>0, <2>4 DEF CredFound, C!Authorize, C!Goes
    <3>4. Granted(w)' => token'[w].refresh = issued[C!Of(w)] + 1
      BY <2>3, <3>6, <3>7 DEF Granted
    <3>5. QED
      BY <1>1, <2>1, <2>2, <2>3, <3>3, <3>4
  <2>5. CASE C!Exchange(w)
    <3>1. stage[w] = "exchanging" /\ C!Issues(C!Of(w), {token[w].refresh})
      BY <2>5 DEF C!Exchange, C!Goes
    <3>2. {token[w].refresh} \in SUBSET (1..issued[C!Of(w)])
      BY <3>1, CredFacts
    <3>3. issued'[C!Of(w)] = issued[C!Of(w)] + 1
      BY <3>1, <3>2, CredServes
    <3>4. job[w].does = "ask"
      BY <1>0, <3>1 DEF CredFound
    <3>5. Granted(w)' => C!Of(w) \in Rotates
      BY <2>3, <3>4 DEF Granted, C!Of
    <3>6. C!Of(w) \in Rotates => token'[w].refresh = issued[C!Of(w)] + 1
      BY <1>0, <2>5, <3>3 DEF CredAmounts, C!Exchange
    <3>7. QED
      BY <1>1, <2>1, <2>2, <2>3, <3>1, <3>2, <3>5, <3>6, CredServes
  <2>6. QED
    BY <1>9, <2>4, <2>5
<1>10. ASSUME NEW w \in Workers, C!Write(w)
      PROVE  CredOwn'
  <2>1. ~Granted(w)' /\ \A v \in Workers : Granted(v)' => Granted(v) /\ v # w
    BY <1>0, <1>10, CredWrites DEF CredAmounts, Granted, C!Of
  <2>2. ASSUME NEW v \in Workers, Granted(v), v # w
        PROVE  token[v].refresh # file'[C!Of(v)].refresh
    <3>1. token[v].refresh # 0 /\ token[v].refresh # file[C!Of(v)].refresh
      BY <1>0, <2>2 DEF CredOwn
    <3>2. CASE C!Of(v) = C!Of(w)
      BY <1>0, <1>10, <2>2, <3>1, <3>2, CredWrites, CredKinds DEF CredOwn
    <3>3. CASE C!Of(v) # C!Of(w)
      BY <1>0, <1>10, <3>1, <3>3, CredWrites
    <3>4. QED
      BY <3>2, <3>3
  <2>3. /\ UNCHANGED <<retired, token, job>> /\ \A v \in Workers : C!Of(v)' = C!Of(v)
    BY <1>10, CredWrites DEF C!Of
  <2>4. QED
    BY <1>0, <2>1, <2>2, <2>3 DEF CredOwn
<1>11. QED
  BY <1>2, <1>3, <1>5, <1>6, <1>8, <1>9, <1>10, CredSteps DEF CredMoves

\* Who holds a provider is alone with it, and who holds the file is alone with that.
LEMMA CredAlone ==
  ASSUME CredInv
  PROVE  /\ \A v, w \in Workers : stage[v] \in C!HoldsClaim /\ stage[w] \in C!HoldsClaim
            /\ C!Of(v) = C!Of(w) => v = w
         /\ \A v, w \in Workers : stage[v] \in C!HoldsWhole /\ stage[w] \in C!HoldsWhole =>
            v = w
<1>1. CredClaims /\ \A w \in Workers : C!Of(w) \in Providers
  BY CredFacts
<1>2. ASSUME NEW v \in Workers, NEW w \in Workers, stage[v] \in C!HoldsClaim,
               stage[w] \in C!HoldsClaim, C!Of(v) = C!Of(w)
      PROVE  v = w
  <2>1. claim[C!Of(v)] = v /\ claim[C!Of(v)] = w
    BY <1>1, <1>2 DEF CredClaims
  <2>2. QED
    BY <2>1
<1>3. ASSUME NEW v \in Workers, NEW w \in Workers, stage[v] \in C!HoldsWhole,
               stage[w] \in C!HoldsWhole
      PROVE  v = w
  <2>1. whole = v /\ whole = w
    BY <1>1, <1>3 DEF CredClaims
  <2>2. QED
    BY <2>1
<1>4. QED
  BY <1>2, <1>3

\* What a worker found is as it was while it holds its provider.
LEMMA CredStill ==
  ASSUME CredInv, C!Next
  PROVE  CredFound'
<1>0. /\ CredAmounts /\ CredIssues /\ CredFound /\ CredClaims
         /\ \A w \in Workers : C!Of(w) \in Providers
      /\ \A w \in Workers : token[w] \in C!Tokens /\ token[w].access \in 0..Last
      /\ \A p \in Providers : file[p].access \in 0..Last /\ issued[p] \in 1..Last
      /\ C!HoldsClaim = {"again", "exchanging", "storing", "reading", "writing", "written"}
      /\ C!HoldsWhole = {"reading", "writing", "written"}
  BY CredFacts DEF C!HoldsClaim, C!HoldsWhole
<1> DEFINE Found(w) ==
             /\ stage[w] \in {"again", "exchanging"} => job[w].does = "ask"
             /\ stage[w] \in {"listening", "granted"} => job[w].does = "login"
             /\ stage[w] = "exchanging" => token[w] = file[C!Of(w)]
             /\ job[w].does = "ask" /\ stage[w] \in {"exchanging", "storing", "reading", "writing"} =>
                  file[C!Of(w)] # C!Nothing /\ file[C!Of(w)].refresh # C!NoToken
             /\ job[w].does = "ask" /\ stage[w] \in {"storing", "reading", "writing"} =>
                  /\ token[w].access > file[C!Of(w)].access
                  /\ C!Of(w) \notin Rotates => token[w].refresh = C!NoToken
             /\ stage[w] = "writing" => copy[w] = file
<1>1. \A w \in Workers : Found(w)
  BY <1>0 DEF CredFound
<1>2. ASSUME \A w \in Workers : Found(w)'
      PROVE  CredFound'
  BY <1>2 DEF CredFound
<1>3. ASSUME NEW w \in Workers, job' = job,
             stage'[w] = stage[w], token'[w] = token[w], copy'[w] = copy[w],
             file' = file \/ (stage[w] # "writing" /\ (stage[w] \in C!HoldsClaim => file'[C!Of(w)] = file[C!Of(w)]))
      PROVE  Found(w)'
  <2>1. Found(w) /\ C!Of(w)' = C!Of(w)
    BY <1>1, <1>3 DEF C!Of
  <2>2. CASE file' = file
    BY <1>3, <2>1, <2>2
  <2>3. CASE stage[w] # "writing" /\ (stage[w] \in C!HoldsClaim => file'[C!Of(w)] = file[C!Of(w)])
    <3>1. stage[w] \in {"exchanging", "storing", "reading", "writing"} =>
            file'[C!Of(w)] = file[C!Of(w)]
      BY <1>0, <2>3
    <3>2. QED
      BY <1>3, <2>1, <2>3, <3>1
  <2>4. QED
    BY <1>3, <2>2, <2>3
<1>4. CASE UNCHANGED <<file, renewable, issued, retired, claim, whole, stage, job, token, copy>>
  BY <1>2, <1>3, <1>4
\* Everybody but the one that moves.
<1>5. ASSUME NEW w \in Workers, job' = job, file' = file, Found(w)',
             \A v \in Workers \ {w} : stage'[v] = stage[v] /\ token'[v] = token[v]
               /\ copy'[v] = copy[v]
      PROVE  CredFound'
  BY <1>2, <1>3, <1>5
<1>6. ASSUME NEW w \in Workers, CredEnds(w)
      PROVE  CredFound'
  <2>1. Found(w)'
    BY <1>6, CredLeft DEF C!Over
  <2>2. QED
    BY <1>5, <1>6, <2>1, CredLeft
<1>7. ASSUME NEW w \in Workers, NEW s, UNCHANGED <<file, job, token, copy>>,
               stage' = [stage EXCEPT ![w] = s],
             \/ s = "listening" /\ job[w].does = "login"
             \/ s = "granted" /\ stage[w] = "listening"
             \/ s = "claiming"
             \/ s = "again" /\ job[w].does = "ask"
             \/ s = "storing" /\ job[w].does # "ask"
             \/ s = "reading" /\ stage[w] = "storing"
      PROVE  CredFound'
  <2>1. Found(w)'
    <3>1. stage'[w] = s /\ token'[w] = token[w] /\ C!Of(w)' = C!Of(w) /\ job' = job
            /\ file' = file
      BY <1>0, <1>7 DEF CredAmounts, C!Of
    <3>2. Found(w)
      BY <1>1
    <3>3. QED
      BY <1>7, <3>1, <3>2
  <2>2. QED
    BY <1>0, <1>5, <1>7, <2>1 DEF CredAmounts
<1>8. ASSUME NEW w \in Workers, C!Listen(w) \/ C!Comes(w) \/ C!LogOut(w) \/ CredStales(w)
               \/ C!HoldWhole(w)
      PROVE  CredFound'
  BY <1>7, <1>8 DEF C!Listen, C!Comes, C!LogOut, CredStales, C!HoldWhole, C!Goes
<1>9. ASSUME NEW w \in Workers, C!Hold(w)
      PROVE  CredFound'
  <2>1. CASE job[w].does = "ask"
    BY <1>7, <1>9, <2>1 DEF C!Hold
  <2>2. CASE job[w].does # "ask"
    BY <1>7, <1>9, <2>2 DEF C!Hold
  <2>3. QED
    BY <2>1, <2>2
<1>10. ASSUME NEW w \in Workers, CredFinds(w)
       PROVE  CredFound'
  <2>1. Found(w)'
    BY <1>0, <1>1, <1>10 DEF CredFinds, CredAmounts, C!Of
  <2>2. QED
    BY <1>0, <1>5, <1>10, <2>1 DEF CredFinds, CredAmounts
<1>11. ASSUME NEW w \in Workers, C!ReadWhole(w)
       PROVE  CredFound'
  <2>1. /\ stage[w] = "reading" /\ stage'[w] = "writing" /\ copy'[w] = file
           /\ UNCHANGED <<file, job, token>>
        /\ C!Of(w)' = C!Of(w)
        /\ \A v \in Workers \ {w} : stage'[v] = stage[v] /\ copy'[v] = copy[v]
    BY <1>0, <1>11 DEF C!ReadWhole, C!Goes, CredAmounts, C!Of
  <2>2. Found(w)'
    BY <1>1, <2>1
  <2>3. QED
    BY <1>5, <2>1, <2>2
<1>12. ASSUME NEW w \in Workers, C!Authorize(w)
       PROVE  CredFound'
  <2>1. /\ stage'[w] = "claiming" /\ UNCHANGED <<file, job>>
        /\ \A v \in Workers \ {w} : stage'[v] = stage[v] /\ token'[v] = token[v]
           /\ copy'[v] = copy[v]
    BY <1>0, <1>12 DEF C!Authorize, C!Goes, CredAmounts
  <2>2. Found(w)'
    BY <2>1
  <2>3. QED
    BY <1>5, <2>1, <2>2
<1>13. ASSUME NEW w \in Workers, C!Exchange(w)
       PROVE  CredFound'
  <2>1. /\ stage[w] = "exchanging" /\ stage'[w] = "storing" /\ UNCHANGED <<file, job>>
        /\ \A v \in Workers \ {w} : stage'[v] = stage[v] /\ token'[v] = token[v]
           /\ copy'[v] = copy[v]
        /\ token'[w].access = issued'[C!Of(w)]
        /\ C!Of(w) \notin Rotates => token'[w].refresh = C!NoToken
        /\ C!Of(w)' = C!Of(w)
    BY <1>0, <1>13 DEF C!Exchange, C!Goes, CredAmounts, C!Of
  <2>2. issued'[C!Of(w)] > file[C!Of(w)].access
    <3>1. {token[w].refresh} \in SUBSET (1..issued[C!Of(w)]) /\ C!Issues(C!Of(w),
            {token[w].refresh})
      BY <1>13, <2>1, CredFacts DEF C!Exchange
    <3>2. issued'[C!Of(w)] = issued[C!Of(w)] + 1
      BY <3>1, CredServes
    <3>3. file[C!Of(w)].access <= issued[C!Of(w)] /\ file[C!Of(w)].access \in Nat
            /\ issued[C!Of(w)] \in Nat
      BY <1>0, CredKinds DEF CredIssues
    <3>4. QED
      BY <3>2, <3>3
  <2>3. Found(w)'
    BY <1>1, <2>1, <2>2
  <2>4. QED
    BY <1>5, <2>1, <2>3
<1>14. ASSUME NEW w \in Workers, C!Write(w)
       PROVE  CredFound'
  <2>1. /\ stage[w] = "writing" /\ stage'[w] = "written"
           /\ \A v \in Workers \ {w} : stage'[v] = stage[v]
        /\ UNCHANGED <<job, token, copy>>
    BY <1>0, <1>14, CredWrites DEF CredAmounts
  <2>2. Found(w)'
    BY <2>1
  <2>3. ASSUME NEW v \in Workers \ {w}
        PROVE  Found(v)'
    <3>1. stage[v] # "writing"
      BY <1>0, <2>1, CredAlone
    <3>2. stage[v] \in C!HoldsClaim => C!Of(v) # C!Of(w)
      BY <1>0, <2>1, CredAlone
    <3>3. stage[v] \in C!HoldsClaim => file'[C!Of(v)] = file[C!Of(v)]
      BY <1>0, <1>14, <3>2, CredWrites
    <3>4. QED
      BY <1>3, <2>1, <3>1, <3>3
  <2>4. QED
    BY <1>2, <2>2, <2>3
<1>15. QED
  BY <1>4, <1>6, <1>8, <1>9, <1>10, <1>11, <1>12, <1>13, <1>14, CredSteps DEF CredMoves

\* Nobody comes back from being lost.
LEMMA CredLost ==
  ASSUME CredInv, C!Next, C!Undisturbed'
  PROVE  C!Undisturbed
<1>1. SUFFICES ASSUME NEW v \in Workers, stage[v] = "lost"
               PROVE  stage'[v] = "lost"
  BY DEF C!Undisturbed
<1>2. CredAmounts
  BY CredFacts
<1>3. CASE UNCHANGED <<file, renewable, issued, retired, claim, whole, stage, job, token, copy>>
  BY <1>1, <1>3
<1>4. ASSUME NEW w \in Workers, CredEnds(w)
      PROVE  stage'[v] = "lost"
  <2>1. w # v
    BY <1>1, <1>4 DEF CredEnds, C!Over
  <2>2. QED
    BY <1>1, <1>4, <2>1, CredLeft
<1>5. ASSUME NEW w \in Workers, CredMoves(w) \/ CredStales(w) \/ CredFinds(w) \/ C!Authorize(w)
               \/ C!Exchange(w) \/ C!ReadWhole(w) \/ C!Write(w)
      PROVE  stage'[v] = "lost"
  <2>1. PICK s : stage' = [stage EXCEPT ![w] = s] /\ stage[w] # "lost"
    BY <1>5 DEF CredMoves, C!Listen, C!Comes, C!LogOut, C!Hold, C!HoldWhole, CredStales,
       CredFinds, C!Authorize,
                C!Exchange, C!ReadWhole, C!Write, C!Goes
  <2>2. QED
    BY <1>1, <1>2, <2>1 DEF CredAmounts
<1>6. QED
  BY <1>3, <1>4, <1>5, CredSteps

\* What a worker is about to spend has not been spent, as long as nothing was lost.
LEMMA CredOnce ==
  ASSUME CredInv, C!Next
  PROVE  C!SpentOnce'
<1>0. /\ CredAmounts /\ CredFound /\ CredClaims /\ \A w \in Workers : C!Of(w) \in Providers
      /\ C!SpentOnce /\ Spendable
  BY CredFacts DEF CredInv
<1>1. SUFFICES ASSUME C!Undisturbed', NEW v \in Workers, stage'[v] = "retired"
               PROVE  FALSE
  BY DEF C!SpentOnce
<1>2. C!Undisturbed /\ stage[v] # "retired"
  BY <1>0, <1>1, CredLost DEF C!SpentOnce
<1>3. ~ UNCHANGED <<file, renewable, issued, retired, claim, whole, stage, job, token, copy>>
  BY <1>1, <1>2
<1>4. ASSUME NEW w \in Workers, CredEnds(w)
      PROVE  FALSE
  <2>1. PICK as \in C!Over :
          /\ C!Ends(w, as)
          /\ as = "retired" => stage[w] = "exchanging" /\ token[w].refresh \in retired[C!Of(w)]
    BY <1>4 DEF CredEnds
  <2>2. stage' = [stage EXCEPT ![w] = as]
    BY <2>1 DEF C!Ends
  <2>3. v = w /\ as = "retired"
    BY <1>0, <1>1, <1>2, <2>2 DEF CredAmounts
  <2>4. stage[w] = "exchanging" /\ token[w].refresh \in retired[C!Of(w)]
    BY <2>1, <2>3
  <2>5. token[w] = file[C!Of(w)] /\ file[C!Of(w)] # C!Nothing /\ claim[C!Of(w)] = w
    <3>1. job[w].does = "ask"
      BY <1>0, <2>4 DEF CredFound
    <3>2. stage[w] \in C!HoldsClaim
      BY <2>4 DEF C!HoldsClaim
    <3>3. QED
      BY <1>0, <2>4, <3>1, <3>2 DEF CredFound, CredClaims
  <2>6. file[C!Of(w)].refresh \notin retired[C!Of(w)]
          \/ stage[claim[C!Of(w)]] \in {"storing", "reading", "writing"}
    BY <1>0, <1>2, <2>5 DEF Spendable
  <2>7. QED
    BY <2>4, <2>5, <2>6
<1>5. ASSUME NEW w \in Workers, CredMoves(w) \/ CredStales(w) \/ CredFinds(w) \/ C!Authorize(w)
               \/ C!Exchange(w) \/ C!ReadWhole(w) \/ C!Write(w)
      PROVE  FALSE
  <2>1. PICK s : stage' = [stage EXCEPT ![w] = s] /\ s # "retired"
    BY <1>5 DEF CredMoves, C!Listen, C!Comes, C!LogOut, C!Hold, C!HoldWhole, CredStales,
       CredFinds, C!Authorize,
                C!Exchange, C!ReadWhole, C!Write, C!Goes
  <2>2. QED
    BY <1>0, <1>1, <1>2, <2>1 DEF CredAmounts
<1>6. QED
  BY <1>3, <1>4, <1>5, CredSteps

\* As long as nothing was lost, what is stored can be spent, or whoever holds the provider is
\* about
\* to store something that can.
LEMMA CredRenews ==
  ASSUME CredInv, C!Next
  PROVE  Spendable'
<1>0. /\ CredAmounts /\ CredFound /\ CredClaims /\ CredIssues /\ CredOwn
         /\ \A w \in Workers : C!Of(w) \in Providers
      /\ Spendable /\ Nobody \notin Workers
  BY CredFacts, CredKinds DEF CredInv
<1> DEFINE Storing == {"storing", "reading", "writing"}
           Good(p) == \/ file[p].refresh \notin retired[p]
                      \/ claim[p] # Nobody /\ stage[claim[p]] \in Storing
<1>1. SUFFICES ASSUME C!Undisturbed', NEW p \in Providers, file'[p] # C!Nothing
               PROVE  Good(p)'
  BY DEF Spendable
<1>2. C!Undisturbed /\ (file[p] # C!Nothing => Good(p))
  BY <1>0, <1>1, CredLost DEF Spendable
<1>3. CASE UNCHANGED <<file, renewable, issued, retired, claim, whole, stage, job, token, copy>>
  BY <1>1, <1>2, <1>3
\* The holder of the provider is not the one that moves, or goes on to store.
<1>4. ASSUME NEW w \in Workers, file'[p] = file[p], retired'[p] = retired[p],
               claim'[p] = claim[p] \/ claim[p] = Nobody,
             \A v \in Workers \ {w} : stage'[v] = stage[v], stage[w] \in Storing =>
               stage'[w] \in Storing
      PROVE  Good(p)'
  <2>1. CASE file[p].refresh \notin retired[p]
    BY <1>4, <2>1
  <2>2. CASE claim[p] # Nobody /\ stage[claim[p]] \in Storing
    <3>1. claim[p] \in Workers
      BY <1>0, <2>2 DEF CredAmounts
    <3>2. stage'[claim[p]] \in Storing
      BY <1>4, <2>2, <3>1
    <3>3. QED
      BY <1>4, <2>2, <3>2
  <2>3. QED
    BY <1>1, <1>2, <1>4, <2>1, <2>2
<1>5. ASSUME NEW w \in Workers, CredEnds(w)
      PROVE  Good(p)'
  <2>1. PICK as \in C!Over : C!Ends(w, as) /\ (as # "lost" => stage[w] \notin Storing)
    BY <1>5 DEF CredEnds
  <2>2. /\ stage'[w] = as /\ \A v \in Workers \ {w} : stage'[v] = stage[v]
        /\ claim'[p] = IF claim[p] = w THEN Nobody ELSE claim[p]
    BY <1>0, <2>1 DEF C!Ends, C!Drops, CredAmounts
  <2>3. as # "lost"
    BY <1>1, <2>2 DEF C!Undisturbed
  <2>4. file'[p] = file[p] /\ retired'[p] = retired[p]
    BY <1>5, <2>2, <2>3, CredLeft
  <2>5. CASE file[p].refresh \notin retired[p]
    BY <2>4, <2>5
  <2>6. CASE claim[p] # Nobody /\ stage[claim[p]] \in Storing
    <3>1. claim[p] \in Workers /\ claim[p] # w
      BY <1>0, <2>1, <2>3, <2>6 DEF CredAmounts
    <3>2. claim'[p] = claim[p] /\ stage'[claim[p]] = stage[claim[p]]
      BY <2>2, <3>1
    <3>3. QED
      BY <2>6, <3>2
  <2>7. QED
    BY <1>1, <1>2, <2>4, <2>5, <2>6
<1>6. ASSUME NEW w \in Workers, CredMoves(w)
      PROVE  Good(p)'
  <2>1. PICK s : /\ stage' = [stage EXCEPT ![w] = s] /\ UNCHANGED <<file, retired>>
                 /\ claim' = claim \/ (claim[C!Of(w)] = Nobody /\ claim' = [claim EXCEPT ![C!Of(w)] = w])
                 /\ stage[w] \in Storing => s = "reading"
    BY <1>6 DEF CredMoves, C!Listen, C!Comes, C!LogOut, C!Hold, C!HoldWhole, C!Goes, C!server
  <2>2. claim'[p] = claim[p] \/ claim[p] = Nobody
    BY <1>0, <2>1 DEF CredAmounts
  <2>3. \A v \in Workers : stage'[v] = IF v = w THEN s ELSE stage[v]
    BY <1>0, <2>1 DEF CredAmounts
  <2>4. QED
    BY <1>4, <2>1, <2>2, <2>3
<1>7. ASSUME NEW w \in Workers, CredStales(w) \/ CredFinds(w) \/ C!ReadWhole(w)
      PROVE  Good(p)'
  <2>1. PICK s : /\ stage' = [stage EXCEPT ![w] = s] /\ UNCHANGED <<file, retired, claim>>
                 /\ stage[w] \in Storing => s = "writing"
    BY <1>7 DEF CredStales, CredFinds, C!ReadWhole, C!Goes, C!server
  <2>2. \A v \in Workers : stage'[v] = IF v = w THEN s ELSE stage[v]
    BY <1>0, <2>1 DEF CredAmounts
  <2>3. QED
    BY <1>4, <2>1, <2>2
<1>8. ASSUME NEW w \in Workers, C!Authorize(w)
      PROVE  Good(p)'
  <2>1. /\ stage[w] = "granted" /\ UNCHANGED <<file, renewable, claim>> /\ stage'[w] = "claiming"
        /\ \A v \in Workers \ {w} : stage'[v] = stage[v]
    BY <1>0, <1>8 DEF C!Authorize, C!Goes, CredAmounts
  <2>2. retired'[p] = retired[p]
    BY <1>0, <1>8 DEF C!Authorize, C!Issues, CredAmounts
  <2>3. QED
    BY <1>4, <2>1, <2>2
<1>9. ASSUME NEW w \in Workers, C!Exchange(w)
      PROVE  Good(p)'
  <2>1. /\ stage[w] = "exchanging" /\ UNCHANGED <<file, renewable, claim>> /\ stage'[w] = "storing"
        /\ \A v \in Workers \ {w} : stage'[v] = stage[v]
        /\ retired' = [retired EXCEPT ![C!Of(w)] = IF C!Of(w) \in Rotates THEN @ \cup {token[w].refresh} ELSE @]
    BY <1>0, <1>9 DEF C!Exchange, C!Issues, C!Goes, CredAmounts
  <2>2. CASE p = C!Of(w)
    <3>1. claim[p] = w
      BY <1>0, <2>1, <2>2 DEF CredClaims, C!HoldsClaim
    <3>2. QED
      BY <1>0, <2>1, <3>1
  <2>3. CASE p # C!Of(w)
    <3>1. retired'[p] = retired[p]
      BY <1>0, <2>1, <2>3 DEF CredAmounts
    <3>2. QED
      BY <1>4, <2>1, <3>1
  <2>4. QED
    BY <2>2, <2>3
<1>10. ASSUME NEW w \in Workers, C!Write(w)
       PROVE  Good(p)'
  <2>1. CASE p = C!Of(w)
    <3>1. retired' = retired /\ (p \notin Rotates => retired[p] = {})
      BY <1>0, <1>10, CredWrites DEF CredIssues
    <3>2. CASE Granted(w) /\ file'[p] = token[w]
      BY <1>0, <2>1, <3>1, <3>2 DEF CredOwn
    <3>3. CASE p \notin Rotates
      BY <3>1, <3>3
    <3>5. CASE file'[p].refresh = C!NoToken
      BY <1>0, <3>1, <3>5, CredFacts DEF C!NoToken
    <3>4. QED
      BY <1>1, <1>10, <2>1, <3>2, <3>3, <3>5, CredWrites
  <2>2. CASE p # C!Of(w)
    <3>1. file'[p] = file[p] /\ retired' = retired /\ claim' = claim
            /\ stage' = [stage EXCEPT ![w] = "written"]
      BY <1>10, <2>2, CredWrites
    <3>2. claim[p] # w
      BY <1>0, <2>2 DEF CredClaims
    <3>3. CASE file[p].refresh \notin retired[p]
      BY <3>1, <3>3
    <3>4. CASE claim[p] # Nobody /\ stage[claim[p]] \in Storing
      <4>1. claim[p] \in Workers
        BY <1>0, <3>4 DEF CredAmounts
      <4>2. stage'[claim[p]] = stage[claim[p]]
        BY <1>0, <3>1, <3>2, <4>1 DEF CredAmounts
      <4>3. QED
        BY <3>1, <3>4, <4>2
    <3>5. QED
      BY <1>1, <1>2, <3>1, <3>3, <3>4
  <2>3. QED
    BY <2>1, <2>2
<1>11. QED
  BY <1>3, <1>5, <1>6, <1>7, <1>8, <1>9, <1>10, CredSteps

\* A refresh token that was given is there, and none where none was given.
LEMMA CredKeeps ==
  ASSUME CredInv, C!Next
  PROVE  C!KeepsRefresh'
<1>0. /\ CredAmounts /\ C!KeepsRefresh /\ \A w \in Workers : C!Of(w) \in Providers
      /\ C!Nothing.refresh = C!NoToken
  BY CredFacts, CredKinds DEF CredInv, C!NoToken
<1>1. CASE UNCHANGED <<file, renewable>>
  BY <1>0, <1>1 DEF C!KeepsRefresh
<1>2. ASSUME NEW w \in Workers, CredEnds(w)
      PROVE  UNCHANGED <<file, renewable>>
  BY <1>2, CredLeft
<1>3. ASSUME NEW w \in Workers, CredMoves(w) \/ CredStales(w) \/ CredFinds(w) \/ C!Authorize(w)
               \/ C!Exchange(w) \/ C!ReadWhole(w)
      PROVE  UNCHANGED <<file, renewable>>
  BY <1>3 DEF CredMoves, C!Listen, C!Comes, C!LogOut, C!Hold, C!HoldWhole, CredStales, CredFinds,
     C!Authorize, C!Exchange, C!ReadWhole
<1>4. ASSUME NEW w \in Workers, C!Write(w)
      PROVE  C!KeepsRefresh'
  <2> DEFINE o == C!Of(w)
  <2>1. \A p \in Providers \ {o} : file'[p] = file[p] /\ renewable'[p] = renewable[p]
    BY <1>4, CredWrites
  <2>2. file'[o] # C!Nothing => (file'[o].refresh # C!NoToken <=> renewable'[o])
    <3>1. CASE job[w].does = "login"
      <4>1. renewable'[o] = (token[w].refresh # C!NoToken) /\ file'[o] = token[w]
        BY <1>4, <3>1, CredWrites
      <4> HIDE DEF o
      <4>2. QED
        BY <4>1, Zenon
    <3>2. CASE job[w].does = "logout"
      BY <1>4, <3>2, CredWrites
    <3>3. CASE job[w].does = "ask"
      <4>1. renewable' = renewable /\ file[o] # C!Nothing /\ file[o].refresh # C!NoToken
        BY <1>4, <3>3, CredWrites
      <4>2. renewable'[o]
        BY <1>0, <4>1 DEF C!KeepsRefresh
      <4>3. file'[o].refresh # C!NoToken
        BY <1>0, <1>4, <3>3, <4>1, CredWrites, CredFacts DEF CredOwn
      <4>4. QED
        BY <4>2, <4>3
    <3>4. QED
      BY <1>0, <3>1, <3>2, <3>3 DEF CredAmounts
  <2>3. QED
    BY <1>0, <2>1, <2>2 DEF C!KeepsRefresh
<1>5. QED
  BY <1>1, <1>2, <1>3, <1>4, CredSteps

\* It holds at the start.
LEMMA CredBegins == C!Init => CredInv
<1> SUFFICES ASSUME C!Init
             PROVE  CredInv
  OBVIOUS
<1>1. \A p \in Providers : /\ file[p] \in C!Tokens /\ file[p].access = 1 /\ file[p].refresh \in {0, 1}
                           /\ renewable[p] = (file[p].refresh # C!NoToken)
  <2> DEFINE first == {[access |-> 1, refresh |-> 1], [access |-> 1, refresh |-> 0]}
  <2>1. \A x \in first : x \in C!Tokens /\ x.access = 1 /\ x.refresh \in {0, 1}
    BY CredKinds
  <2>2. file \in [Providers -> first] /\ renewable = [p \in Providers |-> file[p].refresh # C!NoToken]
    BY DEF C!Init, C!NoToken
  <2> HIDE DEF first
  <2>3. QED
    BY <2>1, <2>2
<1>2. CredAmounts
  <2>1. file \in [Providers -> C!Tokens] /\ renewable \in [Providers -> BOOLEAN]
    BY <1>1 DEF C!Init
  <2>2. QED
    BY <2>1, CredKinds DEF C!Init, CredAmounts, C!Stages
<1>3. CredClaims
  BY CredKinds DEF C!Init, CredClaims, C!HoldsClaim, C!HoldsWhole
<1>4. \A w \in Workers : ~Granted(w)
  BY DEF C!Init, Granted
<1>5. CredOwn /\ CredFound
  BY <1>4 DEF C!Init, CredOwn, CredFound
<1>6. CredIssues
  BY <1>1, <1>2, CredKinds DEF C!Init, CredIssues, C!Of, CredAmounts
<1>7. C!SpentOnce /\ Spendable
  BY DEF C!Init, C!SpentOnce, Spendable
<1>8. C!KeepsRefresh
  BY <1>1 DEF C!KeepsRefresh
<1>9. QED
  BY <1>2, <1>3, <1>5, <1>6, <1>7, <1>8 DEF CredInv

\* Every step keeps it.
LEMMA CredStep ==
  ASSUME CredInv, C!Next
  PROVE  CredInv'
BY CredTyped, CredHeld, CredCounted, CredOwned, CredStill, CredOnce, CredRenews,
   CredKeeps DEF CredInv

\* What a write leaves: others' as it was, nobody signed in who has signed out, nothing older.
LEMMA CredWritesRight ==
  ASSUME CredInv, C!Next, file' # file
  PROVE  C!KeepsOthers /\ C!OutStaysOut /\ C!NeverBack
<1>1. PICK w \in Workers : C!Write(w)
  <2>1. ~ \E w \in Workers : CredEnds(w)
    BY CredLeft
  <2>2. ~ \E w \in Workers : CredMoves(w) \/ CredStales(w) \/ CredFinds(w) \/ C!Authorize(w)
          \/ C!Exchange(w) \/ C!ReadWhole(w)
    BY DEF CredMoves, C!Listen, C!Comes, C!LogOut, C!Hold, C!HoldWhole, CredStales, CredFinds,
       C!Authorize,
           C!Exchange, C!ReadWhole
  <2>3. QED
    BY <2>1, <2>2, CredSteps
<1> DEFINE o == C!Of(w)
<1>2. /\ CredAmounts /\ CredFound /\ o \in Providers /\ stage[w] = "writing"
      /\ job[w] = [does |-> job[w].does, of |-> o]
  BY <1>1, CredFacts, CredWrites DEF CredAmounts, C!Of
<1>3. \A p \in Providers \ {o} : file'[p] = file[p]
  BY <1>1, CredWrites
<1>4. job[w].does = "ask" => file[o] # C!Nothing /\ token[w].access > file[o].access
  BY <1>2 DEF CredFound
<1>5. C!KeepsOthers
  BY <1>2, <1>3 DEF C!KeepsOthers
<1>6. C!OutStaysOut
  <2>1. ASSUME file[o] = C!Nothing, file'[o] # C!Nothing
        PROVE  job[w] = [does |-> "login", of |-> o]
    BY <1>1, <1>2, <1>4, <2>1, CredWrites
  <2>2. QED
    BY <1>2, <1>3, <2>1 DEF C!OutStaysOut
<1>7. C!NeverBack
  <2>1. \/ file'[o] = C!Nothing \/ job[w] = [does |-> "login", of |-> o]
           \/ file'[o].access > file[o].access
    BY <1>1, <1>2, <1>4, CredWrites
  <2>2. QED
    BY <1>2, <1>3, <2>1 DEF C!NeverBack
<1>8. QED
  BY <1>5, <1>6, <1>7

\* Credentials, of any workers and providers: a refresh token that came with a sign-in is kept as
\* long as the sign-in stands; while no answer and no write is lost it can be exchanged, and no
\* server is asked with a token it has retired; and a write keeps what others wrote, signs nobody
\* in again and puts nothing older in the place of what is there (renew, login and logout in
\* mind/provider/oauth).
THEOREM NobodyIsShutOut == Runs => StaysSignedIn
<1> DEFINE Inv == Signing => CredInv
           Others == <<part, asking, signing, parsing, accounting, measuring, packing, offering, framing, reading>>
<1>1. Begins => Inv
  BY CredBegins DEF Begins
<1>2. ASSUME Inv, [Goes]_Others
      PROVE  Inv' /\ (file' = file \/ (C!KeepsOthers /\ C!OutStaysOut /\ C!NeverBack))
  <2>1. CASE Signing /\ C!Next /\ UNCHANGED part
    BY <1>2, <2>1, CredStep, CredWritesRight DEF Signing
  <2>2. CASE UNCHANGED signing /\ UNCHANGED part
    <3>1. CredInv => CredInv'
      BY <2>2 DEF signing, CredInv, CredAmounts, CredClaims, CredIssues, CredOwn, CredFound,
         Granted, C!Of,
                  C!SpentOnce, Spendable, C!KeepsRefresh, C!Undisturbed
    <3>2. QED
      BY <1>2, <2>2, <3>1 DEF Signing, signing
  <2>3. QED
    BY <1>2, <2>1, <2>2 DEF Goes
<1>3. Inv => (Signing => C!TypeOK /\ C!SpentOnce /\ C!KeepsRefresh /\ C!CanRenew)
  BY DEF CredInv, CredAmounts, CredClaims, Spendable, C!CanRenew, C!TypeOK
<1>4. Inv /\ [Goes]_Others => Inv'
  BY <1>2
<1>5. Inv /\ [Goes]_Others => [C!KeepsOthers /\ C!OutStaysOut /\ C!NeverBack]_file
  BY <1>2
<1>6. QED
  BY <1>1, <1>3, <1>4, <1>5, PTL DEF Runs, StaysSignedIn

----------------------------------------------------------------------------
\* Packages and the lists of models.

\* What a process has read of the manifest, or is to write there, and what is not refused.
Vouched(names) == \A f \in Fetched : names[f] \in K!Maybe(vouched[f])

\* The inductive invariant of what runs: nothing is read, kept or run that nobody vouched for.
PackInv ==
  /\ K!TypeOK /\ K!RunsAcknowledged /\ K!RunsGiven
  /\ Vouched(manifest) /\ \A p \in Processes : pc[p] = "loading" => Vouched(known[p])
  /\ \A p \in Processes : beside[p] \notin Unfit
     /\ (pc[p] \in {"loaded", "keeping"} => word[p] \notin Unfit)

\* What the assumption of the run says of the constants.
LEMMA PackKinds ==
  /\ 0 \notin Contents /\ 0 \notin Words /\ Unfit \subseteq Words /\ 0 \notin Unfit
     /\ K!None = 0
  /\ \A S : K!Maybe(S) = S \cup {0}
BY ProviderKinds DEF K!PackageKinds, K!None, K!Maybe

\* It holds at the start.
LEMMA PackBegins == K!Init => PackInv
<1> SUFFICES ASSUME K!Init
             PROVE  PackInv
  OBVIOUS
<1>1. K!Nothing \in [Fetched -> K!Maybe(Contents)] /\ \A f \in Fetched : K!Nothing[f] = 0
  BY PackKinds DEF K!Nothing
<1>2. K!TypeOK
  BY <1>1, PackKinds DEF K!Init, K!TypeOK
<1>3. K!RunsAcknowledged /\ K!RunsGiven /\ Vouched(manifest)
  BY <1>1, PackKinds DEF K!Init, K!RunsAcknowledged, K!RunsGiven, Vouched
<1>4. QED
  BY <1>2, <1>3, PackKinds DEF K!Init, PackInv

\* What a process has read is of contents.
LEMMA PackTyped ==
  ASSUME PackInv, K!Next
  PROVE  K!TypeOK'
<1>0. /\ K!TypeOK /\ K!Nothing \in [Fetched -> K!Maybe(Contents)]
  BY PackKinds DEF PackInv, K!Nothing
<1>1. ASSUME NEW p \in Processes, K!Recorded(p)
      PROVE  K!TypeOK'
  BY <1>0, <1>1, PackKinds DEF K!TypeOK, K!Recorded, K!Goes, K!files
<1>2. ASSUME NEW p \in Processes, K!Given(p)
      PROVE  K!TypeOK'
  BY <1>0, <1>2, PackKinds DEF K!TypeOK, K!Given, K!Goes, K!files
<1>3. ASSUME NEW p \in Processes, K!Assigned(p)
      PROVE  K!TypeOK'
  BY <1>0, <1>3, PackKinds DEF K!TypeOK, K!Assigned, K!Goes, K!files
<1>4. ASSUME NEW p \in Processes, K!Acknowledge(p)
      PROVE  K!TypeOK'
  BY <1>0, <1>4, PackKinds DEF K!TypeOK, K!Acknowledge, K!Goes, K!files
<1>5. ASSUME NEW p \in Processes, K!Truncate(p)
      PROVE  K!TypeOK'
  BY <1>0, <1>5, PackKinds DEF K!TypeOK, K!Truncate, K!Goes, K!local
<1>6. ASSUME NEW p \in Processes, K!WriteManifest(p)
      PROVE  K!TypeOK'
  <2>1. known[p] \in [Fetched -> K!Maybe(Contents)]
    BY <1>0, <1>6 DEF K!TypeOK
  <2>2. \A f \in Fetched : vouched[f] \cup ({known[p][f]} \ {K!None}) \in SUBSET Contents
    BY <1>0, <2>1, PackKinds DEF K!TypeOK
  <2>3. vouched' \in [Fetched -> SUBSET Contents]
          /\ manifest' \in [Fetched -> K!Maybe(Contents)]
    BY <1>0, <1>6, <2>1, <2>2 DEF K!TypeOK, K!WriteManifest
  <2>4. known' \in [Processes -> [Fetched -> K!Maybe(Contents)]]
    BY <1>0, <1>6 DEF K!TypeOK, K!WriteManifest
  <2>5. QED
    BY <1>0, <1>6, <2>3, <2>4 DEF K!TypeOK, K!WriteManifest, K!Goes
<1>7. ASSUME NEW p \in Processes, NEW w \in Words, K!Try(p, w)
      PROVE  K!TypeOK'
  BY <1>0, <1>7, PackKinds DEF K!TypeOK, K!Try, K!Goes, K!files
<1>8. ASSUME NEW p \in Processes, K!Beside(p)
      PROVE  K!TypeOK'
  BY <1>0, <1>8, PackKinds DEF K!TypeOK, K!Beside, K!Goes, K!local
<1>9. ASSUME NEW p \in Processes, K!Rename(p)
      PROVE  K!TypeOK'
  BY <1>0, <1>9, PackKinds DEF K!TypeOK, K!Rename, K!Goes, K!local
<1>10. ASSUME NEW p \in Processes, K!Forget(p)
       PROVE  K!TypeOK'
  BY <1>0, <1>10, PackKinds DEF K!TypeOK, K!Forget, K!local
<1>11. ASSUME NEW p \in Processes, K!End(p)
       PROVE  K!TypeOK'
  BY <1>0, <1>11, PackKinds DEF K!TypeOK, K!End, K!files
<1>12. ASSUME NEW p \in Processes, NEW f \in Fetched, K!Package(p, f)
       PROVE  K!TypeOK'
  <2>1. content[f] \in Contents /\ ran[p] \in [Fetched -> K!Maybe(Contents)]
          /\ content[f] \in K!Maybe(Contents)
    BY <1>0, PackKinds DEF K!TypeOK
  <2>2. [ran[p] EXCEPT ![f] = content[f]] \in [Fetched -> K!Maybe(Contents)]
    BY <2>1
  <2>3. ran' = [ran EXCEPT ![p] = [ran[p] EXCEPT ![f] = content[f]]]
    BY <1>0, <1>12 DEF K!Package, K!TypeOK
  <2>4. ran' \in [Processes -> [Fetched -> K!Maybe(Contents)]]
    BY <1>0, <2>2, <2>3 DEF K!TypeOK
  <2>5. QED
    BY <1>0, <1>12, <2>4 DEF K!TypeOK, K!Package, K!files
<1>13. ASSUME NEW p \in Processes, NEW f \in Fetched, K!ReadOne(p, f)
       PROVE  K!TypeOK'
  <2>1. content[f] \in Contents /\ known[p] \in [Fetched -> K!Maybe(Contents)]
          /\ content[f] \in K!Maybe(Contents)
    BY <1>0, PackKinds DEF K!TypeOK
  <2>2. [known[p] EXCEPT ![f] = content[f]] \in [Fetched -> K!Maybe(Contents)]
    BY <2>1
  <2>3. known' = [known EXCEPT ![p] = [known[p] EXCEPT ![f] = content[f]]]
    BY <1>0, <1>13 DEF K!ReadOne, K!TypeOK
  <2>4. known' \in [Processes -> [Fetched -> K!Maybe(Contents)]]
    BY <1>0, <2>2, <2>3 DEF K!TypeOK
  <2>5. QED
    BY <1>0, <1>13, <2>4 DEF K!TypeOK, K!ReadOne, K!files
<1>14. ASSUME NEW f \in Fetched, NEW c \in Contents, K!Fetch(f, c)
       PROVE  K!TypeOK'
  BY <1>0, <1>14, PackKinds DEF K!TypeOK, K!Fetch, K!local
<1>15. QED
  BY <1>1, <1>2, <1>3, <1>4, <1>5, <1>6, <1>7, <1>8, <1>9, <1>10, <1>11, <1>12, <1>13, <1>14
     DEF K!Next

\* What runs was vouched for, and so is what will.
LEMMA PackVouched ==
  ASSUME PackInv, K!Next
  PROVE  /\ K!RunsAcknowledged' /\ Vouched(manifest)'
         /\ (\A p \in Processes : pc[p] = "loading" => Vouched(known[p]))'
<1>0. /\ K!TypeOK /\ K!RunsAcknowledged /\ Vouched(manifest) /\ K!Nothing \in [Fetched -> {0}]
      /\ \A p \in Processes : pc[p] = "loading" => Vouched(known[p])
  BY PackKinds DEF PackInv, K!Nothing
<1> DEFINE Safe(p) == /\ \A f \in Fetched : ran[p][f] \in vouched[f] \cup {0}
                      /\ pc[p] = "loading" =>
                         \A f \in Fetched : known[p][f] \in vouched[f] \cup {0}
<1>1. \A p \in Processes : Safe(p)
  BY <1>0, PackKinds DEF K!RunsAcknowledged, Vouched
\* It is enough that nobody who vouched goes back on it, and to look at who moves.
<1>2. ASSUME \A f \in Fetched : vouched[f] \subseteq vouched'[f]
               /\ manifest'[f] \in vouched'[f] \cup {0},
             \A p \in Processes : Safe(p)'
      PROVE  /\ K!RunsAcknowledged' /\ Vouched(manifest)'
             /\ (\A p \in Processes : pc[p] = "loading" => Vouched(known[p]))'
  <2>1. \A f \in Fetched : K!Maybe(vouched[f])' = vouched'[f] \cup {0}
    BY PackKinds
  <2>2. \A p \in Processes, f \in Fetched : ran'[p][f] \in vouched'[f] \cup {0}
    BY <1>2
  <2>3. \A p \in Processes : pc'[p] = "loading" =>
          \A f \in Fetched : known'[p][f] \in vouched'[f] \cup {0}
    BY <1>2
  <2> HIDE DEF Safe
  <2>4. K!RunsAcknowledged'
    BY <2>1, <2>2 DEF K!RunsAcknowledged
  <2>5. Vouched(manifest)'
    BY <1>2, <2>1 DEF Vouched
  <2>6. (\A p \in Processes : pc[p] = "loading" => Vouched(known[p]))'
    BY <2>1, <2>3 DEF Vouched
  <2>7. QED
    BY <2>4, <2>5, <2>6
<1>3. ASSUME NEW p \in Processes, UNCHANGED <<manifest, vouched>>, Safe(p)',
             \A q \in Processes \ {p} : ran'[q] = ran[q] /\ known'[q] = known[q]
               /\ pc'[q] = pc[q]
      PROVE  /\ K!RunsAcknowledged' /\ Vouched(manifest)'
             /\ (\A q \in Processes : pc[q] = "loading" => Vouched(known[q]))'
  <2>1. \A f \in Fetched : vouched[f] \subseteq vouched'[f]
          /\ manifest'[f] \in vouched'[f] \cup {0}
    BY <1>0, <1>3, PackKinds DEF Vouched
  <2>2. \A q \in Processes : Safe(q)'
    BY <1>1, <1>3
  <2>3. QED
    BY <1>2, <2>1, <2>2
<1>4. ASSUME NEW p \in Processes, K!Recorded(p)
      PROVE  Safe(p)' /\ UNCHANGED <<manifest, vouched>>
               /\ \A q \in Processes \ {p} : ran'[q] = ran[q] /\ known'[q] = known[q]
                  /\ pc'[q] = pc[q]
  <2>1. known'[p] = manifest /\ ran'[p] = K!Nothing /\ UNCHANGED <<manifest, vouched>>
        /\ \A q \in Processes \ {p} : ran'[q] = ran[q] /\ known'[q] = known[q] /\ pc'[q] = pc[q]
    BY <1>0, <1>4 DEF K!TypeOK, K!Recorded, K!Goes, K!files
  <2>2. QED
    BY <1>0, <2>1, PackKinds DEF Vouched
<1>6. ASSUME NEW p \in Processes,
             \/ K!Given(p) \/ K!Assigned(p) \/ K!Acknowledge(p)
                \/ (\E w \in Words : K!Try(p, w)) \/ K!Rename(p) \/ K!End(p)
      PROVE  Safe(p)' /\ UNCHANGED <<manifest, vouched>>
               /\ \A q \in Processes \ {p} : ran'[q] = ran[q] /\ known'[q] = known[q]
                  /\ pc'[q] = pc[q]
  <2>1. /\ UNCHANGED <<manifest, vouched>> /\ pc'[p] # "loading"
           /\ (ran'[p] = ran[p] \/ ran'[p] = K!Nothing)
        /\ \A q \in Processes \ {p} : ran'[q] = ran[q] /\ known'[q] = known[q] /\ pc'[q] = pc[q]
    BY <1>0, <1>6 DEF K!TypeOK, K!Given, K!Assigned, K!Acknowledge, K!Try, K!Rename, K!End,
       K!Goes, K!files, K!local
  <2>2. Safe(p)'
    BY <1>0, <1>1, <2>1
  <2>3. QED
    BY <2>1, <2>2
<1>7. ASSUME NEW p \in Processes, K!Beside(p)
      PROVE  Safe(p)' /\ UNCHANGED <<manifest, vouched>>
               /\ \A q \in Processes \ {p} : ran'[q] = ran[q] /\ known'[q] = known[q]
                  /\ pc'[q] = pc[q]
  <2>1. /\ UNCHANGED <<manifest, vouched, ran, known>> /\ pc'[p] # "loading"
        /\ \A q \in Processes \ {p} : pc'[q] = pc[q]
    BY <1>0, <1>7 DEF K!TypeOK, K!Beside, K!Goes, K!files, K!local
  <2>2. Safe(p)'
    BY <1>0, <1>1, <2>1
  <2>3. QED
    BY <2>1, <2>2
<1>8. ASSUME NEW p \in Processes, NEW f \in Fetched, K!Package(p, f)
      PROVE  Safe(p)' /\ UNCHANGED <<manifest, vouched>>
               /\ \A q \in Processes \ {p} : ran'[q] = ran[q] /\ known'[q] = known[q]
                  /\ pc'[q] = pc[q]
  <2>1. /\ UNCHANGED <<manifest, vouched, known, pc>> /\ pc[p] = "loading"
           /\ known[p][f] = content[f]
        /\ ran' = [ran EXCEPT ![p][f] = content[f]]
    BY <1>8 DEF K!Package, K!Cleared, K!files
  <2>2. \A g \in Fetched : ran'[p][g] \in {ran[p][g], known[p][g]}
    BY <1>0, <2>1 DEF K!TypeOK
  <2>3. \A q \in Processes \ {p} : ran'[q] = ran[q]
    BY <1>0, <2>1 DEF K!TypeOK
  <2>4. QED
    BY <1>1, <2>1, <2>2, <2>3
<1>9. ASSUME NEW p \in Processes, NEW f \in Fetched, K!ReadOne(p, f)
      PROVE  Safe(p)' /\ UNCHANGED <<manifest, vouched>>
               /\ \A q \in Processes \ {p} : ran'[q] = ran[q] /\ known'[q] = known[q]
                  /\ pc'[q] = pc[q]
  <2>1. /\ UNCHANGED <<manifest, vouched, ran, pc>> /\ pc[p] # "loading"
        /\ \A q \in Processes \ {p} : known'[q] = known[q]
    BY <1>0, <1>9 DEF K!TypeOK, K!ReadOne, K!files
  <2>2. Safe(p)'
    BY <1>0, <1>1, <2>1
  <2>3. QED
    BY <2>1, <2>2
<1>10. ASSUME NEW p \in Processes, K!Truncate(p)
       PROVE  /\ K!RunsAcknowledged' /\ Vouched(manifest)'
              /\ (\A q \in Processes : pc[q] = "loading" => Vouched(known[q]))'
  <2>1. manifest' = K!Nothing /\ vouched' = vouched /\ pc'[p] # "loading"
          /\ UNCHANGED <<ran, known>>
        /\ \A q \in Processes \ {p} : pc'[q] = pc[q]
    BY <1>0, <1>10 DEF K!TypeOK, K!Truncate, K!Goes, K!local
  <2>2. \A q \in Processes : Safe(q)'
    BY <1>1, <2>1
  <2>3. QED
    BY <1>0, <1>2, <2>1, <2>2
<1>11. ASSUME NEW p \in Processes, K!WriteManifest(p)
       PROVE  /\ K!RunsAcknowledged' /\ Vouched(manifest)'
              /\ (\A q \in Processes : pc[q] = "loading" => Vouched(known[q]))'
  <2>1. \/ /\ manifest' = known[p]
           /\ vouched' = [f \in Fetched |-> vouched[f] \cup ({known[p][f]} \ {0})]
        \/ UNCHANGED <<manifest, vouched>>
    BY <1>11, PackKinds DEF K!WriteManifest
  <2>2. \A f \in Fetched : vouched[f] \subseteq vouched'[f]
          /\ manifest'[f] \in vouched'[f] \cup {0}
    BY <1>0, <2>1, PackKinds DEF Vouched
  <2>3. pc'[p] # "loading" /\ ran' = ran /\ \A q \in Processes \ {p} : pc'[q] = pc[q]
          /\ known'[q] = known[q]
    BY <1>0, <1>11 DEF K!TypeOK, K!WriteManifest, K!Goes
  <2>4. \A q \in Processes : Safe(q)'
    BY <1>1, <2>2, <2>3
  <2>5. QED
    BY <1>2, <2>2, <2>4
<1>12. ASSUME UNCHANGED <<manifest, vouched, pc, known, ran>>
       PROVE  /\ K!RunsAcknowledged' /\ Vouched(manifest)'
              /\ (\A q \in Processes : pc[q] = "loading" => Vouched(known[q]))'
  BY <1>0, <1>12 DEF K!RunsAcknowledged, Vouched, K!Maybe
<1>13. ASSUME (\E p \in Processes : K!Forget(p)) \/ (\E f \in Fetched,
                c \in Contents : K!Fetch(f, c))
       PROVE  UNCHANGED <<manifest, vouched, pc, known, ran>>
  BY <1>13 DEF K!Forget, K!Fetch, K!local
<1> HIDE DEF Safe
<1>14. QED
  BY <1>3, <1>4, <1>6, <1>7, <1>8, <1>9, <1>10, <1>11, <1>12, <1>13 DEF K!Next

\* What was refused is nowhere.
LEMMA PackRefused ==
  ASSUME PackInv, K!Next
  PROVE  /\ K!RunsGiven'
         /\ (\A p \in Processes : beside[p] \notin Unfit
            /\ (pc[p] \in {"loaded", "keeping"} => word[p] \notin Unfit))'
<1>0. /\ K!TypeOK /\ given \notin Unfit /\ 0 \notin Unfit /\ K!None = 0
      /\ \A p \in Processes : beside[p] \notin Unfit
         /\ (pc[p] \in {"loaded", "keeping"} => word[p] \notin Unfit)
  BY PackKinds DEF PackInv, K!RunsGiven
<1>1. SUFFICES /\ given' \notin Unfit
               /\ \A p \in Processes : beside'[p] \notin Unfit
                  /\ (pc'[p] \in {"loaded", "keeping"} => word'[p] \notin Unfit)
  BY DEF K!RunsGiven
<1>2. ASSUME NEW p \in Processes, given' \notin Unfit, beside'[p] \notin Unfit,
             pc'[p] \in {"loaded", "keeping"} => word'[p] \notin Unfit,
             \A q \in Processes \ {p} : beside'[q] = beside[q] /\ pc'[q] = pc[q]
               /\ word'[q] = word[q]
      PROVE  /\ given' \notin Unfit
             /\ \A q \in Processes : beside'[q] \notin Unfit
                /\ (pc'[q] \in {"loaded", "keeping"} => word'[q] \notin Unfit)
  BY <1>0, <1>2
<1>3. ASSUME NEW p \in Processes,
             \/ K!Recorded(p) \/ K!Given(p) \/ K!Assigned(p) \/ K!Acknowledge(p)
                \/ K!Truncate(p) \/ K!WriteManifest(p)
             \/ (\E w \in Words : K!Try(p, w)) \/ K!End(p)
      PROVE  /\ UNCHANGED <<given, beside>> /\ \A q \in Processes \ {p} : pc'[q] = pc[q]
                /\ word'[q] = word[q]
             /\ pc'[p] \in {"loaded", "keeping"} => word'[p] \notin Unfit
  BY <1>0, <1>3 DEF K!TypeOK, K!Recorded, K!Given, K!Assigned, K!Acknowledge, K!Truncate,
     K!WriteManifest, K!Try, K!End, K!Goes,
                    K!files, K!local
<1>4. ASSUME NEW p \in Processes, K!Beside(p) \/ K!Rename(p) \/ K!Forget(p)
      PROVE  /\ given' \notin Unfit
             /\ \A q \in Processes : beside'[q] \notin Unfit
                /\ (pc'[q] \in {"loaded", "keeping"} => word'[q] \notin Unfit)
  BY <1>0, <1>4 DEF K!TypeOK, K!Beside, K!Rename, K!Forget, K!Goes, K!local
<1>5. ASSUME \/ \E p \in Processes, f \in Fetched : K!Package(p, f) \/ K!ReadOne(p, f)
             \/ \E f \in Fetched, c \in Contents : K!Fetch(f, c)
      PROVE  UNCHANGED <<given, beside, pc, word>>
  BY <1>5 DEF K!Package, K!ReadOne, K!Fetch, K!files, K!local
<1>6. QED
  BY <1>0, <1>2, <1>3, <1>4, <1>5 DEF K!Next

\* A cache that was whole throughout is whole, and a load that failed had nothing to fall back
\* on.
OfferInv ==
  /\ O!TypeOK
  /\ \A p \in Processes :
       /\ full[p] => cache # O!NoList
       /\ place[p] \in {"dating", "opening", "writing"} => list[p] # O!NoList
       /\ place[p] = "falling" => failed[p]
       /\ place[p] = "over" /\ list[p] = O!NoList => failed[p] /\ ~full[p]

\* It holds at the start.
LEMMA OfferBegins == O!Init => OfferInv
BY DEF O!Init, OfferInv, O!TypeOK

\* Every step keeps it.
LEMMA OfferStep ==
  ASSUME OfferInv, O!Next
  PROVE  OfferInv'
<1>0. O!TypeOK /\ Lists \subseteq Nat \ {0} /\ O!NoList = 0
  BY ProviderKinds DEF OfferInv, O!OfferKinds, O!NoList
<1> DEFINE Right(p) == /\ full[p] => cache # O!NoList
                       /\ place[p] \in {"dating", "opening", "writing"} => list[p] # O!NoList
                       /\ place[p] = "falling" => failed[p]
                       /\ place[p] = "over" /\ list[p] = O!NoList => failed[p] /\ ~full[p]
<1>1. \A p \in Processes : Right(p)
  BY DEF OfferInv
<1>2. ASSUME NEW p \in Processes,
             (\E afresh \in BOOLEAN : O!Begin(p, afresh)) \/ O!Look(p) \/ O!Date(p)
               \/ O!Fetch(p) \/ O!FetchFails(p)
             \/ O!Open(p) \/ O!Write(p) \/ O!FallBack(p) \/ O!End(p)
      PROVE  OfferInv'
  <2>1. O!TypeOK'
    <3>1. place' \in [Processes -> {"idle", "looking", "dating", "asking", "opening", "writing", "falling", "over"}]
      BY <1>0, <1>2 DEF O!TypeOK, O!Begin, O!Look, O!Date, O!Fetch, O!FetchFails, O!Open,
         O!Write, O!FallBack, O!End,
                        O!Goes, O!Holds, O!Cached, O!local
    <3>2. offered' \in Lists /\ cache' \in Lists \cup {O!NoList} /\ fresh' \in BOOLEAN
      BY <1>0, <1>2 DEF O!TypeOK, O!Begin, O!Look, O!Date, O!Fetch, O!FetchFails, O!Open,
         O!Write, O!FallBack, O!End,
                        O!Goes, O!Holds, O!Cached, O!local
    <3>3. refresh' \in [Processes -> BOOLEAN] /\ failed' \in [Processes -> BOOLEAN]
      BY <1>0, <1>2, ZenonT(30) DEF O!TypeOK, O!Begin, O!Look, O!Date, O!Fetch, O!FetchFails, O!Open,
         O!Write, O!FallBack, O!End,
                        O!Goes, O!Holds, O!Cached, O!local
    <3>4. list' \in [Processes -> Lists \cup {O!NoList}]
      BY <1>0, <1>2 DEF O!TypeOK, O!Begin, O!Look, O!Date, O!Fetch, O!FetchFails, O!Open,
         O!Write, O!FallBack, O!End,
                        O!Goes, O!Holds, O!Cached, O!local
    <3>5. full' \in [Processes -> BOOLEAN]
      BY <1>0, <1>2 DEF O!TypeOK, O!Begin, O!Look, O!Date, O!Fetch, O!FetchFails, O!Open,
         O!Write, O!FallBack, O!End,
                        O!Goes, O!Holds, O!Cached, O!local
    <3>6. QED
      BY <3>1, <3>2, <3>3, <3>4, <3>5 DEF O!TypeOK
  <2>2. Right(p)'
    BY <1>0, <1>1, <1>2, ZenonT(30) DEF O!TypeOK, O!Begin, O!Look, O!Date, O!Fetch, O!FetchFails, O!Open,
       O!Write, O!FallBack, O!End,
                      O!Goes, O!Holds, O!Cached, O!local
  <2>3. ASSUME NEW q \in Processes \ {p}
        PROVE  Right(q)'
    BY <1>0, <1>1, <1>2, ZenonT(30) DEF O!TypeOK, O!Begin, O!Look, O!Date, O!Fetch, O!FetchFails, O!Open,
       O!Write, O!FallBack, O!End,
                      O!Goes, O!Holds, O!Cached, O!local
  <2>4. QED
    BY <2>1, <2>2, <2>3 DEF OfferInv
<1>3. ASSUME O!Age \/ \E l \in Lists : O!Offer(l)
      PROVE  OfferInv'
  BY <1>0, <1>3 DEF OfferInv, O!TypeOK, O!Age, O!Offer, O!local
<1>4. QED
  BY <1>2, <1>3 DEF O!Next

\* Packages and Offers, for any processes, contents, words and lists: nothing of a package runs
\* that
\* was not acknowledged as it is, no words run that were refused (mind/catalog.rs,
\* acknowledged.rs and
\* speaking.rs); and a load falls back on what is kept wherever that can be read
\* (discovering.rs).
THEOREM RunsWhatIsDeclared == Runs => []AsDeclared
<1> DEFINE Inv == (part = "packages" => PackInv) /\ (part = "offers" => OfferInv)
           Others == <<part, asking, signing, parsing, accounting, measuring, packing, offering, framing, reading>>
<1>1. Begins => Inv
  BY PackBegins, OfferBegins DEF Begins
<1>2. ASSUME Inv, [Goes]_Others
      PROVE  Inv'
  <2>1. CASE part = "packages" /\ K!Next /\ UNCHANGED part
    BY <1>2, <2>1, PackTyped, PackVouched, PackRefused DEF PackInv
  <2>2. CASE part = "offers" /\ O!Next /\ UNCHANGED part
    BY <1>2, <2>2, OfferStep
  <2>3. CASE UNCHANGED part /\ (part = "packages" => UNCHANGED packing)
               /\ (part = "offers" => UNCHANGED offering)
    <3>1. PackInv /\ UNCHANGED packing => PackInv'
      BY DEF packing, PackInv, K!TypeOK, K!RunsAcknowledged, K!RunsGiven, Vouched, K!Maybe
    <3>2. OfferInv /\ UNCHANGED offering => OfferInv'
      BY DEF offering, OfferInv, O!TypeOK
    <3>3. QED
      BY <1>2, <2>3, <3>1, <3>2
  <2>4. QED
    BY <1>2, <2>1, <2>2, <2>3 DEF Goes, Asking, Signing
<1>3. Inv => AsDeclared
  BY DEF AsDeclared, PackInv, OfferInv, O!FallsBack, O!Declared, O!NoList
<1>4. Inv /\ [Goes]_Others => Inv'
  BY <1>2
<1>5. QED
  BY <1>1, <1>3, <1>4, PTL DEF Runs

----------------------------------------------------------------------------
\* Sums over finite sets, which the counts of a try and of an ask are.

\* A set of naturals that is not empty has a least element.
LEMMA LeastNat ==
  ASSUME NEW X \in SUBSET Nat, X # {}
  PROVE  \E n \in X : \A m \in X : n <= m
<1> DEFINE Less == {pair \in Nat \X Nat : pair[1] < pair[2]}
<1>1. IsWellFoundedOn(Less, Nat)
  BY NatLessThanWellFounded DEF OpToRel
<1>2. PICK n \in X : \A m \in X : ~(<<m, n>> \in Less)
  <2> HIDE DEF Less
  <2>1. QED
    BY <1>1, WFMin
<1>3. \A m \in X : ~(m < n)
  <2>1. SUFFICES ASSUME NEW m \in X, m < n
                 PROVE  FALSE
    OBVIOUS
  <2>2. <<m, n>> \in Less
    BY <2>1
  <2>3. QED
    BY <2>2, <1>2
<1>4. QED
  BY <1>3

\* A page ends within its report, and begins with a line of it if there is one.

\* Of sets of subsets of a finite set, one that is not empty has a member none of whose own
\* subsets, less one element, is a member.
LEMMA SmallestSet ==
  ASSUME NEW S, IsFiniteSet(S), NEW B \in SUBSET SUBSET S, B # {}
  PROVE  \E s \in B : \A x \in s : s \ {x} \notin B
<1> DEFINE Sizes == {Cardinality(s) : s \in B}
<1>1. \A s \in SUBSET S : IsFiniteSet(s) /\ Cardinality(s) \in Nat
  BY FS_Subset, FS_CardinalityType
<1>2. Sizes \in SUBSET Nat /\ Sizes # {}
  BY <1>1
<1>3. PICK n \in Sizes : \A m \in Sizes : n <= m
  <2> HIDE DEF Sizes
  <2>1. QED
    BY <1>2, LeastNat
<1>4. PICK s \in B : n = Cardinality(s)
  BY <1>3
<1>5. ASSUME NEW x \in s, s \ {x} \in B
      PROVE  FALSE
  <2>1. Cardinality(s \ {x}) = Cardinality(s) - 1
    BY <1>1, <1>4, FS_RemoveElement
  <2>2. Cardinality(s) <= Cardinality(s \ {x})
    BY <1>3, <1>4, <1>5
  <2>3. QED
    BY <1>1, <1>4, <2>1, <2>2
<1>6. QED
  BY <1>4, <1>5

\* g is what a fold over the subsets of S makes of what u has for each member.
Adds(g, u, S) ==
  g = [s \in SUBSET S |-> IF s = {} THEN 0 ELSE LET x == CHOOSE x \in s : TRUE IN u[x] + g[s \ {x}]]

\* The same, a member at a time.
LEMMA AddsOne ==
  ASSUME NEW S, NEW u, NEW g, Adds(g, u, S)
  PROVE  /\ g[{}] = 0
         /\ \A s \in SUBSET S : s # {} => \E x \in s : x = (CHOOSE y \in s : TRUE)
             /\ g[s] = u[x] + g[s \ {x}]
<1>1. g[{}] = 0
  BY DEF Adds
<1>2. ASSUME NEW s \in SUBSET S, s # {}
      PROVE  \E x \in s : x = (CHOOSE y \in s : TRUE) /\ g[s] = u[x] + g[s \ {x}]
  <2>1. (CHOOSE y \in s : TRUE) \in s
    BY <1>2
  <2>2. g[s] = u[CHOOSE y \in s : TRUE] + g[s \ {CHOOSE y \in s : TRUE}]
    BY <1>2 DEF Adds
  <2>3. QED
    BY <2>1, <2>2
<1>3. QED
  BY <1>1, <1>2

\* Sums of counts are counts.
LEMMA AddsCounts ==
  ASSUME NEW S, IsFiniteSet(S), NEW u \in [S -> Nat], NEW g, Adds(g, u, S)
  PROVE  \A s \in SUBSET S : g[s] \in Nat
<1> DEFINE B == {s \in SUBSET S : g[s] \notin Nat}
<1>1. SUFFICES ASSUME B # {}
               PROVE  FALSE
  OBVIOUS
<1>2. PICK s \in B : \A x \in s : s \ {x} \notin B
  <2>1. B \in SUBSET SUBSET S
    OBVIOUS
  <2> HIDE DEF B
  <2>2. QED
    BY <1>1, <2>1, SmallestSet
<1>3. s \in SUBSET S /\ s # {}
  BY AddsOne
<1>4. PICK x \in s : g[s] = u[x] + g[s \ {x}]
  BY <1>3, AddsOne
<1>5. g[s \ {x}] \in Nat /\ u[x] \in Nat
  BY <1>2, <1>3
<1>6. QED
  BY <1>2, <1>4, <1>5

\* Two that differ in one member have sums that differ as much, where it is among what is summed.
LEMMA AddsChange ==
  ASSUME NEW S, IsFiniteSet(S), NEW u \in [S -> Nat], NEW v \in [S -> Nat], NEW c \in S,
         \A x \in S : x # c => u[x] = v[x],
         NEW g, NEW h, Adds(g, u, S), Adds(h, v, S)
  PROVE  h[S] + u[c] = g[S] + v[c]
<1> DEFINE Right(s) == IF c \in s THEN h[s] + u[c] = g[s] + v[c] ELSE h[s] = g[s]
           B == {s \in SUBSET S : ~Right(s)}
<1>1. SUFFICES ASSUME B # {}
               PROVE  FALSE
  OBVIOUS
<1>2. PICK s \in B : \A x \in s : s \ {x} \notin B
  <2>1. B \in SUBSET SUBSET S
    OBVIOUS
  <2> HIDE DEF B
  <2>2. QED
    BY <1>1, <2>1, SmallestSet
<1>3. s \in SUBSET S /\ s # {} /\ ~Right(s)
  BY <1>2, AddsOne, ZenonT(30)
<1>4. PICK x \in s : x = (CHOOSE y \in s : TRUE) /\ g[s] = u[x] + g[s \ {x}]
  BY <1>3, AddsOne
<1>5. h[s] = v[x] + h[s \ {x}]
  <2>1. PICK y \in s : y = (CHOOSE z \in s : TRUE) /\ h[s] = v[y] + h[s \ {y}]
    BY <1>3, AddsOne
  <2>2. y = x
    BY <1>4, <2>1
  <2>3. QED
    BY <2>1, <2>2
<1>6. /\ u[x] \in Nat /\ v[x] \in Nat /\ u[c] \in Nat /\ v[c] \in Nat
      /\ g[s \ {x}] \in Nat /\ h[s \ {x}] \in Nat
  BY <1>3, AddsCounts
<1>7. Right(s \ {x})
  BY <1>2, <1>3
<1>8. CASE x = c
  <2>1. h[s \ {x}] = g[s \ {x}]
    BY <1>7, <1>8
  <2>2. g[s] = u[c] + g[s \ {x}] /\ h[s] = v[c] + g[s \ {x}]
    BY <1>4, <1>5, <1>8, <2>1
  <2>3. h[s] + u[c] = g[s] + v[c]
    BY <1>6, <2>2
  <2>4. QED
    BY <1>3, <1>8, <2>3
<1>9. CASE x # c
  <2>1. u[x] = v[x]
    BY <1>3, <1>9
  <2>2. c \in s <=> c \in s \ {x}
    BY <1>9
  <2>3. QED
    BY <1>3, <1>4, <1>5, <1>6, <1>7, <2>1, <2>2
<1>10. QED
  BY <1>8, <1>9

\* The same over a set of subsets.
AddsUpTo(g, u, T) ==
  g = [s \in T |-> IF s = {} THEN 0 ELSE LET x == CHOOSE x \in s : TRUE IN u[x] + g[s \ {x}]]

\* A finite set has such a fold.
LEMMA AddsThere ==
  ASSUME NEW S, IsFiniteSet(S), NEW u
  PROVE  \E g : Adds(g, u, S)
<1> DEFINE T(n) == {s \in SUBSET S : Cardinality(s) <= n}
           Missing == {n \in Nat : ~\E g : AddsUpTo(g, u, T(n))}
<1>1. \A s \in SUBSET S : IsFiniteSet(s) /\ Cardinality(s) \in Nat
  BY FS_Subset, FS_CardinalityType
<1>2. SUFFICES Missing = {}
  <2>1. Cardinality(S) \in Nat
    BY <1>1
  <2>2. T(Cardinality(S)) = SUBSET S
    BY FS_Subset
  <2>3. PICK g : AddsUpTo(g, u, T(Cardinality(S)))
    BY <1>2, <2>1
  <2>4. Adds(g, u, S)
    BY <2>2, <2>3 DEF Adds, AddsUpTo
  <2>5. QED
    BY <2>4
<1>3. SUFFICES ASSUME Missing # {}
               PROVE  FALSE
  OBVIOUS
<1>4. PICK n \in Missing : \A m \in Missing : n <= m
  <2>1. Missing \in SUBSET Nat
    OBVIOUS
  <2> HIDE DEF Missing
  <2>2. QED
    BY <1>3, <2>1, LeastNat
<1>5. n # 0
  <2>1. SUFFICES ASSUME n = 0
                 PROVE  \E g : AddsUpTo(g, u, T(n))
    BY <1>4
  <2>2. \A s \in T(n) : s = {}
    BY <1>1, <2>1, FS_EmptySet
  <2>3. AddsUpTo([s \in T(n) |-> 0], u, T(n))
    BY <2>2 DEF AddsUpTo
  <2>4. QED
    BY <2>3
<1>6. n - 1 \in Nat /\ n - 1 \notin Missing
  <2>1. n \in Nat
    BY <1>4
  <2> HIDE DEF Missing
  <2>2. QED
    BY <1>4, <1>5, <2>1
<1>7. PICK g : AddsUpTo(g, u, T(n - 1))
  BY <1>6
<1> DEFINE Sum(s) == IF s = {} THEN 0 ELSE LET x == CHOOSE x \in s : TRUE IN u[x] + g[s \ {x}]
           h == [s \in T(n) |-> Sum(s)]
<1>8. ASSUME NEW s \in T(n - 1)
      PROVE  g[s] = Sum(s)
  BY <1>7, <1>8 DEF AddsUpTo
<1>9. T(n - 1) \subseteq T(n)
  <2>1. n \in Nat
    BY <1>4
  <2>2. QED
    BY <1>1, <2>1
<1>10. ASSUME NEW s \in T(n - 1)
       PROVE  h[s] = g[s]
  BY <1>8, <1>9, <1>10
<1>11. ASSUME NEW s \in T(n), s # {}
       PROVE  s \ {CHOOSE x \in s : TRUE} \in T(n - 1)
  <2>1. PICK x \in s : x = (CHOOSE y \in s : TRUE)
    BY <1>11
  <2>2. Cardinality(s \ {x}) = Cardinality(s) - 1
    BY <1>1, <2>1, FS_RemoveElement
  <2>3. QED
    BY <1>1, <1>4, <2>1, <2>2
<1>12. ASSUME NEW s \in T(n)
       PROVE  Sum(s) = IF s = {} THEN 0 ELSE LET x == CHOOSE x \in s : TRUE IN u[x] + h[s \ {x}]
  <2>1. CASE s = {}
    BY <2>1
  <2>2. CASE s # {}
    <3>1. h[s \ {CHOOSE x \in s : TRUE}] = g[s \ {CHOOSE x \in s : TRUE}]
      <4>1. s \ {CHOOSE x \in s : TRUE} \in T(n - 1)
        BY <1>11, <2>2
      <4> HIDE DEF h, T, Sum
      <4>2. QED
        BY <1>10, <4>1
    <3> HIDE DEF h, T
    <3>2. QED
      BY <2>2, <3>1
  <2>3. QED
    BY <2>1, <2>2
<1>13. AddsUpTo(h, u, T(n))
  <2>1. h = [s \in T(n) |-> IF s = {} THEN 0 ELSE LET x == CHOOSE x \in s : TRUE IN u[x] + h[s \ {x}]]
    <3> DEFINE w == [s \in T(n) |-> IF s = {} THEN 0
        ELSE LET x == CHOOSE x \in s : TRUE IN u[x] + h[s \ {x}]]
    <3>1. \A s \in T(n) : h[s] = w[s]
      BY <1>12, ZenonT(30)
    <3>2. QED
      BY <3>1
  <2>2. QED
    BY <2>1 DEF AddsUpTo
<1>14. QED
  BY <1>4, <1>13

\* Where all are nothing so is the sum.
LEMMA AddsNothing ==
  ASSUME NEW S, IsFiniteSet(S), NEW u, \A x \in S : u[x] = 0, NEW g, Adds(g, u, S)
  PROVE  g[S] = 0
<1> DEFINE B == {s \in SUBSET S : g[s] # 0}
<1>1. SUFFICES ASSUME B # {}
               PROVE  FALSE
  OBVIOUS
<1>2. PICK s \in B : \A x \in s : s \ {x} \notin B
  <2>1. B \in SUBSET SUBSET S
    OBVIOUS
  <2> HIDE DEF B
  <2>2. QED
    BY <1>1, <2>1, SmallestSet
<1>3. s \in SUBSET S /\ s # {}
  BY AddsOne
<1>4. PICK x \in s : g[s] = u[x] + g[s \ {x}]
  BY <1>3, AddsOne
<1>5. g[s \ {x}] = 0 /\ u[x] = 0
  BY <1>2, <1>3
<1>6. QED
  BY <1>2, <1>4, <1>5

\* The sum of what u has over S.
SumOver(u, S) == (CHOOSE g : Adds(g, u, S))[S]

\* The same of the sum itself.
LEMMA SumChange ==
  ASSUME NEW S, IsFiniteSet(S), NEW u \in [S -> Nat], NEW v \in [S -> Nat], NEW c \in S,
         \A x \in S : x # c => u[x] = v[x]
  PROVE  SumOver(v, S) + u[c] = SumOver(u, S) + v[c]
<1>1. PICK g : g = (CHOOSE k : Adds(k, u, S)) /\ Adds(g, u, S)
  BY AddsThere
<1>2. PICK h : h = (CHOOSE k : Adds(k, v, S)) /\ Adds(h, v, S)
  BY AddsThere
<1>3. h[S] + u[c] = g[S] + v[c]
  BY <1>1, <1>2, AddsChange
<1>4. QED
  BY <1>1, <1>2, <1>3 DEF SumOver

\* A sum of counts is one.
LEMMA SumCounts ==
  ASSUME NEW S, IsFiniteSet(S), NEW u \in [S -> Nat]
  PROVE  SumOver(u, S) \in Nat
<1>1. PICK g : g = (CHOOSE k : Adds(k, u, S)) /\ Adds(g, u, S)
  BY AddsThere
<1>2. QED
  BY <1>1, AddsCounts DEF SumOver

\* A sum of nothing is nothing.
LEMMA SumNothing ==
  ASSUME NEW S, IsFiniteSet(S), NEW u, \A x \in S : u[x] = 0
  PROVE  SumOver(u, S) = 0
<1>1. PICK g : g = (CHOOSE k : Adds(k, u, S)) /\ Adds(g, u, S)
  BY AddsThere
<1>2. QED
  BY <1>1, AddsNothing DEF SumOver

----------------------------------------------------------------------------
\* Turn.

\* What the reader holds is of the try in progress, up to where that has come, and what the ask has
\* cost is what its tries were said to.
TurnPays ==
  /\ Billed = paid + this /\ spent = paid + this
  /\ phase # "waiting" => told[attempt] = this
  /\ phase = "waiting" => this = 0 /\ attempt < MaxAttempts
  /\ \A a \in 1..MaxAttempts : a > attempt => told[a] = 0
TurnHolds ==
  /\ why.room \in Budgets \cup {NoRoom}
  /\ phase \in {"streaming", "failed"} => text = {attempt : p \in 1..streamed}
  /\ phase \in {"asked", "sending", "waiting"} => text = {}
  /\ phase \in {"asked", "sending"} => streamed = 0 /\ ~stopped
  /\ stopped => ended = attempt
  /\ phase # "over" => end = None /\ served = 0
  /\ WholeAnswer
TurnInv == TypeOK /\ TurnPays /\ TurnHolds

\* A sum over the tries changes by what one of them does.
LEMMA ToldMoves ==
  ASSUME NEW S, IsFiniteSet(S), NEW a \in S, told \in [S -> Nat], told' \in [S -> Nat],
         \A x \in S : x # a => told[x] = told'[x]
  PROVE  SumOver(told', S) + told[a] = SumOver(told, S) + told'[a]
BY SumChange

\* What was billed is such a sum.
LEMMA BilledMoves ==
  ASSUME told \in [1..MaxAttempts -> Nat], told' \in [1..MaxAttempts -> Nat], NEW a \in 1..MaxAttempts, 
         \A x \in 1..MaxAttempts : x # a => told[x] = told'[x]
  PROVE  Billed' + told[a] = Billed + told'[a] /\ Billed' \in Nat
<1>1. IsFiniteSet(1..MaxAttempts)
  BY TurnKinds, FS_Interval
<1>2. DOMAIN told = 1..MaxAttempts /\ DOMAIN told' = 1..MaxAttempts
  OBVIOUS
<1>3. Billed = SumOver(told, 1..MaxAttempts)
  BY <1>2 DEF Billed, FoldFunction, FoldFunctionOnSet, MapThenFoldSet, Adds, SumOver
<1>4. Billed' = SumOver(told', 1..MaxAttempts)
  BY <1>2 DEF Billed, FoldFunction, FoldFunctionOnSet, MapThenFoldSet, Adds, SumOver
<1>5. QED
  BY <1>1, <1>3, <1>4, ToldMoves, SumCounts

\* And is nothing before any of them.
LEMMA BilledNothing ==
  ASSUME told = [a \in 1..MaxAttempts |-> 0]
  PROVE  Billed = 0
<1> DEFINE S == 1..MaxAttempts
<1>1. IsFiniteSet(S)
  BY TurnKinds, FS_Interval
<1>2. DOMAIN told = S /\ \A a \in S : told[a] = 0
  OBVIOUS
<1>3. Billed = SumOver(told, S)
  BY <1>2 DEF Billed, FoldFunction, FoldFunctionOnSet, MapThenFoldSet, Adds, SumOver
<1> HIDE DEF S
<1>4. QED
  BY <1>1, <1>2, <1>3, SumNothing

\* A step of an ask leaves its variables of their types.
LEMMA TurnTyped ==
  ASSUME TypeOK, TurnPays, TurnHolds, Next
  PROVE  TypeOK'
<1>0. MaxAttempts \in Nat \ {0} /\ Pieces \in Nat /\ Reports \subseteq Nat
  BY TurnKinds
<1> USE DEF None, Failed, NoRoom, try, tally, reader, Greater
<1>1a. CASE Asks
  BY <1>0, <1>1a DEF TypeOK, Asks
<1>1b. CASE Unasked
  BY <1>0, <1>1b DEF TypeOK, Unasked
<1>1c. CASE Answered
  BY <1>0, <1>1c DEF TypeOK, Answered
<1>1d. CASE Refused
  BY <1>0, <1>1d DEF TypeOK, Refused
<1>1e. CASE Broken
  BY <1>0, <1>1e DEF TypeOK, Broken
<1>1f. CASE GoOn
  <2>1. attempt' \in 1..MaxAttempts
    <3>1. attempt \in 1..MaxAttempts /\ attempt < MaxAttempts
      BY <1>1f DEF TypeOK, TurnPays, GoOn
    <3>2. attempt' = attempt + 1
      BY <1>1f DEF GoOn
    <3>3. QED
      BY <1>0, <3>1, <3>2
  <2>2. streamed' \in 0..Pieces
    BY <1>0, <1>1f DEF GoOn
  <2>3. stopped' \in BOOLEAN
    BY <1>1f DEF GoOn
  <2>4. QED
    BY <1>1f, <2>1, <2>2, <2>3 DEF TypeOK, GoOn
<1>2a. CASE Text
  BY <1>0, <1>2a DEF TypeOK, Text
<1>2b. CASE Stop
  BY <1>0, <1>2b DEF TypeOK, Stop
<1>2c. CASE Whole
  BY <1>0, <1>2c DEF TypeOK, Whole
<1>2d. CASE GiveUp
  BY <1>0, <1>2d DEF TypeOK, GiveUp
<1>3. CASE Retry
  BY <1>0, <1>3 DEF TypeOK, TurnHolds, Retry, Lowered
<1>4. ASSUME NEW c \in Reports, Usage(c)
      PROVE  TypeOK'
  <2>1. told' \in Bills
    BY <1>0, <1>4 DEF TypeOK, Usage, Bills
  <2>2. this' \in Reports \cup {0} /\ spent' \in Nat
    BY <1>0, <1>4 DEF TypeOK, Usage
  <2>3. QED
    BY <1>0, <1>4, <2>1, <2>2 DEF TypeOK, Usage
<1>5. QED
  BY <1>1a, <1>1b, <1>1c, <1>1d, <1>1e, <1>1f, <1>2a, <1>2b, <1>2c, <1>2d, <1>3, <1>4 DEF Next

\* A step of an ask leaves what it has cost what its tries were said to cost.
LEMMA TurnPaysStep ==
  ASSUME TypeOK, TypeOK', TurnPays, Next
  PROVE  TurnPays'
<1>0. MaxAttempts \in Nat \ {0} /\ Pieces \in Nat /\ Reports \subseteq Nat
  BY TurnKinds
<1>1. told \in [1..MaxAttempts -> Nat] /\ told' \in [1..MaxAttempts -> Nat]
  <2>1. told \in Bills /\ told' \in Bills
    BY DEF TypeOK
  <2>2. \A n \in Reports \cup {0} : n \in Nat
    BY <1>0
  <2>3. ASSUME NEW t \in Bills
        PROVE  t \in [1..MaxAttempts -> Nat]
    <3>1. \A a \in 1..MaxAttempts : t[a] \in Reports \cup {0}
      BY <2>3 DEF Bills
    <3>2. t = [a \in 1..MaxAttempts |-> t[a]]
      BY <2>3 DEF Bills
    <3>3. \A a \in 1..MaxAttempts : t[a] \in Nat
      BY <2>2, <3>1
    <3> DEFINE S == 1..MaxAttempts
    <3> HIDE DEF S
    <3>4. QED
      BY <3>2, <3>3 DEF S
  <2>4. QED
    BY <2>1, <2>3
<1>2. ASSUME UNCHANGED told
      PROVE  Billed' = Billed
  <2>1. attempt \in 1..MaxAttempts
    BY DEF TypeOK
  <2>2. Billed' + told[attempt] = Billed + told'[attempt]
    BY <1>1, <1>2, <2>1, BilledMoves
  <2>3. Billed = Billed'
    BY <1>1, <1>2 DEF Billed, FoldFunction, FoldFunctionOnSet, MapThenFoldSet
  <2>4. QED
    BY <2>3
<1> USE DEF None, Failed, NoRoom, try, tally, reader, Greater
<1>3a. CASE Asks
  BY <1>0, <1>2, <1>3a DEF TypeOK, TurnPays, Asks
<1>3b. CASE Unasked
  BY <1>0, <1>2, <1>3b DEF TypeOK, TurnPays, Unasked
<1>3c. CASE Answered
  BY <1>0, <1>2, <1>3c DEF TypeOK, TurnPays, Answered
<1>3d. CASE Refused
  BY <1>0, <1>2, <1>3d DEF TypeOK, TurnPays, Refused
<1>3e. CASE Broken
  BY <1>0, <1>2, <1>3e DEF TypeOK, TurnPays, Broken
<1>3f. CASE GoOn
  BY <1>0, <1>2, <1>3f DEF TypeOK, TurnPays, GoOn
<1>4a. CASE Text
  BY <1>0, <1>2, <1>4a DEF TypeOK, TurnPays, Text
<1>4b. CASE Stop
  BY <1>0, <1>2, <1>4b DEF TypeOK, TurnPays, Stop
<1>4c. CASE Whole
  BY <1>0, <1>2, <1>4c DEF TypeOK, TurnPays, Whole
<1>4d. CASE GiveUp
  BY <1>0, <1>2, <1>4d DEF TypeOK, TurnPays, GiveUp
<1>5. CASE Retry
  BY <1>0, <1>2, <1>5 DEF TypeOK, TurnPays, Retry
<1>6. ASSUME NEW c \in Reports, Usage(c)
      PROVE  TurnPays'
  <2>1. told[attempt] = this /\ attempt \in 1..MaxAttempts /\ told'[attempt] = this'
    BY <1>1, <1>6 DEF TypeOK, TurnPays, Usage
  <2>2. \A x \in 1..MaxAttempts : x # attempt => told[x] = told'[x]
    BY <1>6 DEF TypeOK, Usage
  <2>3. Billed' + told[attempt] = Billed + told'[attempt] /\ Billed' \in Nat
    BY <1>1, <2>1, <2>2, BilledMoves
  <2>4. Billed = paid + this /\ paid \in Nat /\ this \in Nat /\ this' \in Nat /\ paid' = paid
    <3>1. Billed = paid + this
      BY DEF TurnPays
    <3>2. this \in Nat /\ this' \in Nat
      BY <1>0 DEF TypeOK
    <3>3. paid \in Nat /\ paid' = paid
      BY <1>6 DEF TypeOK, Usage
    <3>4. QED
      BY <3>1, <3>2, <3>3
  <2>5. Billed' = paid' + this'
    <3>1. Billed' + this = Billed + this'
      BY <2>1, <2>3
    <3>2. Billed' + this = paid + this + this'
      BY <3>1, <2>4
    <3>3. PICK b \in Nat, p \in Nat, t \in Nat, n \in Nat : b = Billed' /\ p = paid /\ t = this /\ n = this'
      BY <2>3, <2>4
    <3>4. b + t = p + t + n
      BY <3>2, <3>3
    <3>5. b = p + n
      BY <3>4
    <3>6. QED
      BY <2>4, <3>3, <3>5
  <2>6. spent' = paid' + this'
    BY <1>6 DEF Usage
  <2>7. \A a \in 1..MaxAttempts : a > attempt' => told'[a] = 0
    BY <1>0, <1>6, <2>1, <2>2 DEF TypeOK, TurnPays, Usage
  <2>8. QED
    BY <1>6, <2>1, <2>5, <2>6, <2>7 DEF TurnPays, Usage
<1>7. QED
  BY <1>3a, <1>3b, <1>3c, <1>3d, <1>3e, <1>3f, <1>4a, <1>4b, <1>4c, <1>4d, <1>5, <1>6 DEF Next

\* A step of an ask leaves its reader with what one try gave, and nothing of two.
LEMMA TurnHoldsStep ==
  ASSUME TypeOK, TurnHolds, Next
  PROVE  TurnHolds'
<1>0. MaxAttempts \in Nat \ {0} /\ Pieces \in Nat /\ Reports \subseteq Nat
  BY TurnKinds
<1>10. {attempt : p \in 1..0} = {}
  OBVIOUS
<1> USE DEF None, Failed, NoRoom, try, tally, reader, Greater
<1>1a. CASE Asks
  BY <1>0, <1>1a DEF TypeOK, TurnHolds, WholeAnswer, Asks
<1>1b. CASE Unasked
  <2>1. WholeAnswer'
    BY <1>1b DEF WholeAnswer, Unasked
  <2>2. why'.room \in Budgets \cup {NoRoom}
    BY <1>1b DEF TurnHolds, Unasked
  <2>3. stopped' => ended' = attempt'
    BY <1>1b DEF TurnHolds, Unasked
  <2>4. phase' = "over"
    BY <1>1b DEF Unasked
  <2>5. phase' \notin {"asked", "sending", "waiting", "streaming", "failed"}
    BY <2>4
  <2> HIDE DEF None, Failed, NoRoom
  <2>6. QED
    BY <2>1, <2>2, <2>3, <2>4, <2>5 DEF TurnHolds
<1>1c. CASE Answered
  <2>1. text' = {attempt' : p \in 1..streamed'}
    BY <1>1c, <1>10 DEF TurnHolds, Answered
  <2>2. WholeAnswer'
    BY <1>1c DEF TurnHolds, Answered, WholeAnswer
  <2>3. QED
    BY <1>1c, <2>1, <2>2 DEF TurnHolds, Answered
<1>2. CASE Text
  BY <1>0, <1>2 DEF TypeOK, TurnHolds, WholeAnswer, Text
<1>3. CASE Stop
  BY <1>0, <1>3 DEF TypeOK, TurnHolds, WholeAnswer, Stop
<1>4. CASE Whole
  <2>1. stopped' /\ end' = attempt' /\ text' = {attempt' : p \in 1..streamed'}
    BY <1>0, <1>4 DEF TypeOK, TurnHolds, Whole
  <2>2. served' \in {0, attempt'}
    BY <1>4 DEF TurnHolds, Whole
  <2>3. WholeAnswer'
    BY <2>1, <2>2 DEF WholeAnswer
  <2>4. why'.room \in Budgets \cup {NoRoom} /\ (stopped' => ended' = attempt')
    BY <1>4 DEF TurnHolds, Whole
  <2>5. phase' = "over"
    BY <1>4 DEF Whole
  <2>6. QED
    BY <2>3, <2>4, <2>5 DEF TurnHolds
<1>5a. CASE Refused
  <2>1. text' = {attempt' : p \in 1..streamed'}
    BY <1>5a, <1>10 DEF TurnHolds, Refused
  <2>2. WholeAnswer'
    BY <1>5a DEF TurnHolds, Refused, WholeAnswer
  <2>3. why'.room \in Budgets \cup {NoRoom}
    BY <1>5a DEF Refused, Again, Final
  <2>4. QED
    BY <1>5a, <2>1, <2>2, <2>3 DEF TurnHolds, Refused
<1>5b. CASE Broken
  BY <1>0, <1>5b DEF TypeOK, TurnHolds, WholeAnswer, Broken, Again, Final
<1>6a. CASE Retry
  BY <1>0, <1>6a DEF TypeOK, TurnHolds, WholeAnswer, Retry
<1>6b. CASE GoOn
  BY <1>0, <1>6b DEF TypeOK, TurnHolds, WholeAnswer, GoOn
<1>7. CASE GiveUp
  BY <1>0, <1>7 DEF TypeOK, TurnHolds, WholeAnswer, GiveUp
<1>8. ASSUME NEW c \in Reports, Usage(c)
      PROVE  TurnHolds'
  BY <1>0, <1>8 DEF TypeOK, TurnHolds, WholeAnswer, Usage
<1>9. QED
  BY <1>1a, <1>1b, <1>1c, <1>2, <1>3, <1>4, <1>5a, <1>5b, <1>6a, <1>6b, <1>7, <1>8 DEF Next

\* An ask that has not begun has cost nothing and given nothing.
LEMMA TurnBegins == Init => TurnInv
<1>1. SUFFICES ASSUME Init
               PROVE  TurnInv
  OBVIOUS
<1>2. Billed = 0
  BY <1>1, BilledNothing DEF Init
<1>3. TypeOK
  <2>1. told \in Bills
    BY <1>1 DEF Init, Bills
  <2>2. QED
    <3>1. stopped \in BOOLEAN /\ text \subseteq 1..MaxAttempts
      BY <1>1 DEF Init
    <3>2. attempt \in 1..MaxAttempts /\ streamed \in 0..Pieces /\ ended \in 0..MaxAttempts
          /\ end \in 0..Failed /\ served \in 0..MaxAttempts
      BY <1>1, TurnKinds DEF Init, None, Failed
    <3>3. QED
      BY <1>1, <2>1, <3>1, <3>2, TurnKinds DEF Init, TypeOK
<1>4. TurnPays
  BY <1>1, <1>2, TurnKinds DEF Init, TurnPays
<1>5. TurnHolds
  BY <1>1, TurnKinds DEF Init, TurnHolds, WholeAnswer, None, Failed, Final, NoRoom
<1>6. QED
  BY <1>3, <1>4, <1>5 DEF TurnInv

\* The invariant is what the run checks of an ask.
LEMMA TurnTells == TurnInv => TypeOK /\ WholeAnswer /\ AllSpent
BY DEF TurnInv, TurnPays, TurnHolds, AllSpent

----------------------------------------------------------------------------
\* Accounting.

\* A trace, whatever it holds.
TraceShape ==
  /\ trace.paid \in A!Maybe /\ trace.current \in A!Maybe
  /\ trace = [paid |-> trace.paid, current |-> trace.current, active |-> trace.active]

\* The reader was told what the tries cost.  The trace has the same of a column or knows nothing of
\* it, apart for the tries that are over and the one that was dispatched.
AccCosts ==
  /\ sum = A!Plus(before, now) /\ snapshot = A!Total(trace)
  /\ trace.active <=> at = "dispatched"
  /\ at \in {"begun", "waiting", "refused"} => now = A!Zero
  /\ at # "dispatched" => \A c \in Columns : trace.paid[c] \in {Unknown, before[c] + now[c]}
  /\ at = "dispatched" =>
       /\ A!Prompt(held) >= A!Prompt(now)
       /\ \A c \in Columns : trace.paid[c] \in {Unknown, before[c]}
                             /\ trace.current[c] \in {Unknown, now[c]}

\* What the trace knows of a column every try measured, and the one in progress too.
AccKnows ==
  \A c \in Columns :
    /\ trace.paid[c] # Unknown => \A a \in 1..Tries : a # turn \/ at # "dispatched" => c \in said[a]
    /\ at = "dispatched" /\ trace.current[c] # Unknown => c \in said[turn]

\* What the log of a try may hold.
Events == {"refused", "dispatched", "succeeded", "failed", "scheduled", "resumed", "cancelled"}

\* A try's events end with how it ended, once it has.
AccEnds ==
  /\ log \in [1..Tries -> Seq(Events)]
  /\ \A a \in 1..turn, i \in Nat : i \in 1..Len(log[a]) /\ log[a][i] \in A!Endings => i = Len(log[a])
  /\ at \in {"begun", "dispatched", "waiting"} =>
       \A i \in Nat : i \in 1..Len(log[turn]) => log[turn][i] \notin A!Endings
  /\ \A a \in 1..turn : a < turn \/ at \in {"failed", "refused", "over"} =>
       Len(log[a]) # 0 /\ log[a][Len(log[a])] \in A!Endings

\* The inductive invariant of Accounting.
AccInv == A!TypeOK /\ TraceShape /\ AccCosts /\ AccKnows /\ AccEnds

\* What is assumed of the constants of Accounting, in its own terms.
LEMMA AccKinds ==
  /\ Tries \in Nat \ {0} /\ IsFiniteSet(Columns) /\ Figures \subseteq Nat /\ 0 \in Figures
  /\ Unknown \notin Nat
BY ProviderKinds DEF A!AccountingKinds, A!IsFiniteSet, IsFiniteSet

\* What a prompt comes to is a count.
LEMMA PromptCounts ==
  ASSUME NEW u \in [Columns -> Nat]
  PROVE  A!Prompt(u) \in Nat
<1>1. A!Prompt(u) = SumOver(u, Columns)
  BY DEF A!Prompt, A!MapThenSumSet, A!MapThenFoldSet, SumOver, Adds
<1>2. QED
  BY <1>1, AccKinds, SumCounts

\* Each of the operators that counts are built with.
LEMMA AccCounts ==
  /\ A!Zero \in A!Counts /\ A!Unsaid \in A!Maybe /\ \A c \in Columns : A!Zero[c] = 0
      /\ A!Unsaid[c] = Unknown
  /\ \A a, b \in A!Counts : A!Plus(a, b) \in A!Counts /\ \A c \in Columns : A!Plus(a, b)[c] = a[c] + b[c]
  /\ \A a, b \in A!Maybe : A!Known(a, b) \in A!Maybe
       /\ \A c \in Columns : A!Known(a, b)[c] = IF Unknown \in {a[c], b[c]} THEN Unknown ELSE a[c] + b[c]
<1>1. A!Zero \in A!Counts /\ A!Unsaid \in A!Maybe /\ \A c \in Columns : A!Zero[c] = 0
    /\ A!Unsaid[c] = Unknown
  BY DEF A!Zero, A!Unsaid, A!Counts, A!Maybe
<1>2. ASSUME NEW a \in A!Counts, NEW b \in A!Counts
      PROVE  A!Plus(a, b) \in A!Counts /\ \A c \in Columns : A!Plus(a, b)[c] = a[c] + b[c]
  BY DEF A!Plus, A!Counts
<1>3. ASSUME NEW a \in A!Maybe, NEW b \in A!Maybe
      PROVE  A!Known(a, b) \in A!Maybe
             /\ \A c \in Columns : A!Known(a, b)[c] = IF Unknown \in {a[c], b[c]} THEN Unknown
                 ELSE a[c] + b[c]
  <2>1. \A c \in Columns : a[c] \in Nat \cup {Unknown} /\ b[c] \in Nat \cup {Unknown}
    BY DEF A!Maybe
  <2>2. \A c \in Columns : (IF Unknown \in {a[c], b[c]} THEN Unknown
      ELSE a[c] + b[c]) \in Nat \cup {Unknown}
    BY <2>1
  <2>3. QED
    BY <2>2 DEF A!Known, A!Maybe
<1>4. QED
  BY <1>1, <1>2, <1>3

\* A report leaves counts that are no less as a prompt, and what is measured of them is one of them.
LEMMA AccReported ==
  ASSUME NEW u \in A!Counts, NEW r \in A!Partial
  PROVE  A!Reported(u, r) \in A!Counts /\ A!Prompt(A!Reported(u, r)) >= A!Prompt(u)
<1> DEFINE n == [c \in Columns |-> IF r[c] = Unknown THEN u[c] ELSE r[c]]
<1>1. n \in A!Counts
  <2>1. \A c \in Columns : r[c] \in Figures \cup {Unknown} /\ u[c] \in Nat
    BY DEF A!Partial, A!Counts
  <2>2. \A c \in Columns : (IF r[c] = Unknown THEN u[c] ELSE r[c]) \in Nat
    BY <2>1, AccKinds
  <2>3. QED
    BY <2>2 DEF A!Counts
<1>2. A!Reported(u, r) = IF A!Prompt(n) >= A!Prompt(u) THEN n ELSE u
  BY DEF A!Reported, A!Observed
<1> HIDE DEF n
<1>3. A!Prompt(n) \in Nat /\ A!Prompt(u) \in Nat
  BY <1>1, PromptCounts DEF A!Counts
<1>4. QED
  BY <1>1, <1>2, <1>3

\* What is measured of a count is that count or unknown.
LEMMA AccEvidence ==
  ASSUME NEW m, NEW e, NEW u \in A!Counts
  PROVE  A!Evidence(m, e, u) \in A!Maybe
         /\ \A c \in Columns : A!Evidence(m, e, u)[c] \in {Unknown, u[c]}
<1>1. \A c \in Columns : u[c] \in Nat
  BY DEF A!Counts
<1>2. \A c \in Columns :
        (IF e[c] = u[c] THEN u[c] ELSE IF m[c] = u[c] THEN m[c] ELSE Unknown) \in Nat \cup {Unknown}
  BY <1>1
<1>3. A!Evidence(m, e, u) \in A!Maybe
  BY <1>2 DEF A!Evidence, A!Maybe
<1>4. QED
  BY <1>3 DEF A!Evidence

\* A report in full: what it makes of the counts, and that the tally takes it.
LEMMA AccReports ==
  ASSUME held \in A!Counts, now \in A!Counts, before \in A!Counts, TraceShape,
         A!Prompt(held) >= A!Prompt(now),
         NEW r \in A!Partial, NEW e \in A!Partial, A!Report(r, e)
  PROVE  /\ held' \in A!Counts /\ measured' \in A!Maybe /\ now' = held'
         /\ A!Prompt(held') >= A!Prompt(held)
         /\ \A c \in Columns : measured'[c] \in {Unknown, held'[c]}
         /\ trace' = [paid |-> trace.paid, current |-> measured', active |-> trace.active]
         /\ snapshot' = A!Total(trace')
<1>1. PICK h : h = A!Reported(held, r) /\ held' = h
  BY DEF A!Report
<1>2. h \in A!Counts /\ A!Prompt(h) >= A!Prompt(held)
  BY <1>1, AccReported
<1>3. PICK m : m = A!Evidence(measured, e, h) /\ measured' = m
  BY <1>1 DEF A!Report
<1>4. m \in A!Maybe /\ \A c \in Columns : m[c] \in {Unknown, h[c]}
  BY <1>2, <1>3, AccEvidence
<1>5. now' = A!Observed(now, h)
  BY <1>1 DEF A!Report
<1>6. A!Prompt(h) \in Nat /\ A!Prompt(held) \in Nat /\ A!Prompt(now) \in Nat
  BY <1>2, PromptCounts DEF A!Counts
<1>7. now' = h
  BY <1>2, <1>5, <1>6 DEF A!Observed
<1>8. trace' = [trace EXCEPT !.current = m] /\ snapshot' = A!Total([trace EXCEPT !.current = m])
  BY <1>3 DEF A!Report, A!Notes
<1>9. [trace EXCEPT !.current = m] = [paid |-> trace.paid, current |-> m, active |-> trace.active]
  BY DEF TraceShape
<1>10. \A t : t = trace' => A!Total(t) = A!Total(trace')
  OBVIOUS
<1>11. QED
  BY <1>1, <1>2, <1>3, <1>4, <1>7, <1>8, <1>9


\* The trace of a try that ended, and of one that was dispatched.
LEMMA TraceMoves ==
  ASSUME TraceShape
  PROVE  /\ A!Total(trace) \in A!Maybe
         /\ A!Ended = [paid |-> A!Total(trace), current |-> trace.current, active |-> FALSE]
<1>1. A!Total(trace) \in A!Maybe
  BY AccCounts DEF TraceShape, A!Total
<1>2. QED
  BY <1>1 DEF A!Ended

\* What each step does to the trace and to what was last shown of it.
LEMMA TraceSteps ==
  ASSUME A!TypeOK, TraceShape, AccCosts, A!Next
  PROVE  \/ (A!Refuse \/ A!GoOn \/ (A!Drop /\ at # "dispatched"))
              /\ UNCHANGED <<trace, snapshot, before, now, sum, held>>
         \/ (\E r \in A!Partial : A!Keep(r)) /\ UNCHANGED <<trace, snapshot, before, now, sum>>
              /\ held' \in A!Counts /\ measured' \in A!Maybe /\ A!Prompt(held') >= A!Prompt(held)
         \/ (\E r, e \in A!Partial : A!Report(r, e)) /\ at = "dispatched" /\ at' = at
              /\ held' \in A!Counts /\ measured' \in A!Maybe /\ now' = held'
                  /\ A!Prompt(held') >= A!Prompt(now)
              /\ (\A c \in Columns : measured'[c] \in {Unknown, held'[c]})
              /\ trace' = [paid |-> trace.paid, current |-> measured', active |-> trace.active]
              /\ snapshot' = A!Total(trace')
         \/ A!Dispatch /\ trace' = [paid |-> trace.paid, current |-> A!Unsaid, active |-> TRUE]
              /\ snapshot' = A!Total(trace')
         \/ at = "dispatched" /\ at' \in {"over", "failed"} /\ (A!Succeed \/ A!Fail \/ A!Drop)
              /\ trace' = [paid |-> A!Total(trace), current |-> trace.current, active |-> FALSE]
              /\ snapshot' = A!Total(trace')
         \/ (A!Retry \/ A!GiveUp) /\ trace' = trace /\ snapshot' = A!Total(trace)
<1>1. held \in A!Counts /\ now \in A!Counts /\ before \in A!Counts
  BY DEF A!TypeOK
<1>2. A!Prompt(held) \in Nat /\ A!Prompt(now) \in Nat
  BY <1>1, PromptCounts DEF A!Counts
<1>3. ASSUME NEW r \in A!Partial, A!Keep(r)
      PROVE  /\ UNCHANGED <<trace, snapshot, before, now, sum>>
             /\ held' \in A!Counts /\ measured' \in A!Maybe /\ A!Prompt(held') >= A!Prompt(held)
  <2>1. PICK h : h = A!Reported(held, r) /\ held' = h
    BY <1>3 DEF A!Keep
  <2>2. h \in A!Counts /\ A!Prompt(h) >= A!Prompt(held)
    BY <1>1, <2>1, AccReported
  <2>3. measured' \in A!Maybe
    BY <1>3, <2>1, <2>2, AccEvidence DEF A!Keep
  <2>4. UNCHANGED <<trace, snapshot, before, now, sum>>
    BY <1>3 DEF A!Keep, A!tally, A!events
  <2>5. QED
    BY <2>1, <2>2, <2>3, <2>4
<1>4. ASSUME NEW r \in A!Partial, NEW e \in A!Partial, A!Report(r, e)
      PROVE  /\ held' \in A!Counts /\ measured' \in A!Maybe /\ now' = held'
                /\ A!Prompt(held') >= A!Prompt(now)
             /\ at = "dispatched" /\ at' = at
             /\ \A c \in Columns : measured'[c] \in {Unknown, held'[c]}
             /\ trace' = [paid |-> trace.paid, current |-> measured', active |-> trace.active]
             /\ snapshot' = A!Total(trace')
  <2>1. at = "dispatched" /\ at' = at
    BY <1>4 DEF A!Report
  <2>2. A!Prompt(held) >= A!Prompt(now)
    BY <2>1 DEF AccCosts
  <2>3. PICK h \in A!Counts : h = held' /\ A!Prompt(h) >= A!Prompt(held)
    BY <1>1, <1>4, <2>2, AccReports
  <2>4. A!Prompt(h) \in Nat
    BY PromptCounts DEF A!Counts
  <2>5. A!Prompt(held') >= A!Prompt(now)
    BY <1>2, <2>2, <2>3, <2>4
  <2>6. QED
    BY <1>1, <1>4, <2>1, <2>2, <2>5, AccReports
<1>5. CASE A!Refuse \/ A!GoOn
  BY <1>5 DEF A!Refuse, A!GoOn, A!counts, A!tally
<1>6. CASE A!Dispatch
  BY <1>6, TraceMoves DEF A!Dispatch, A!Notes
<1>7. CASE A!Succeed \/ A!Fail
  BY <1>7, TraceMoves DEF A!Succeed, A!Fail, A!Notes
<1>8. CASE A!Retry
  BY <1>8 DEF A!Retry, AccCosts
<1>9. CASE A!GiveUp
  BY <1>9 DEF A!GiveUp, AccCosts
<1>10. CASE A!Drop
  <2>1. CASE at = "dispatched"
    BY <1>10, <2>1, TraceMoves DEF A!Drop, A!Notes
  <2>2. CASE at # "dispatched"
    BY <1>10, <2>2 DEF A!Drop, A!counts, A!tally
  <2>3. QED
    BY <2>1, <2>2
<1>11. QED
  BY <1>3, <1>4, <1>5, <1>6, <1>7, <1>8, <1>9, <1>10 DEF A!Next


\* What a step leaves of the trace and of the tally.
LEMMA AccCostsStep ==
  ASSUME A!TypeOK, TraceShape, AccCosts, A!Next
  PROVE  TraceShape' /\ AccCosts'
<1>1. held \in A!Counts /\ now \in A!Counts /\ before \in A!Counts
  BY DEF A!TypeOK
<1>2. \A c \in Columns : before[c] \in Nat /\ now[c] \in Nat
  BY <1>1 DEF A!Counts
<1>3. trace.paid \in A!Maybe /\ trace.current \in A!Maybe /\ A!Unsaid \in A!Maybe
    /\ A!Total(trace) \in A!Maybe
  BY AccCounts, TraceMoves DEF TraceShape
<1>4. ASSUME NEW r \in A!Partial, A!Keep(r), UNCHANGED <<trace, snapshot, before, now, sum>>,
             held' \in A!Counts, A!Prompt(held') >= A!Prompt(held)
      PROVE  TraceShape' /\ AccCosts'
  <2>1. at = "dispatched" /\ at' = at
    BY <1>4 DEF A!Keep
  <2>2. A!Prompt(held') >= A!Prompt(now)
    <3>1. PICK x \in Nat, y \in Nat, z \in Nat : x = A!Prompt(held') /\ y = A!Prompt(held)
               /\ z = A!Prompt(now)
      BY <1>1, <1>4, PromptCounts DEF A!Counts
    <3>2. x >= y /\ y >= z
      BY <1>4, <2>1, <3>1 DEF AccCosts
    <3>3. x >= z
      BY <3>2
    <3>4. QED
      BY <3>1, <3>3
  <2>3. A!Prompt(now)' = A!Prompt(now) /\ A!Total(trace)' = A!Total(trace)
    BY <1>4
  <2>4. TraceShape'
    BY <1>4 DEF TraceShape
  <2>5. QED
    BY <1>4, <2>1, <2>2, <2>3, <2>4 DEF AccCosts
<1>5. ASSUME NEW r \in A!Partial, NEW e \in A!Partial, A!Report(r, e),
             at = "dispatched", at' = at,
             held' \in A!Counts, measured' \in A!Maybe, now' = held',
             \A c \in Columns : measured'[c] \in {Unknown, held'[c]},
             trace' = [paid |-> trace.paid, current |-> measured', active |-> trace.active],
             snapshot' = A!Total(trace')
      PROVE  TraceShape' /\ AccCosts'
  <2>1. trace'.paid = trace.paid /\ trace'.current = measured' /\ (trace'.active <=> trace.active)
    BY <1>5
  <2>2. TraceShape'
    BY <1>3, <1>5, <2>1 DEF TraceShape
  <2>3. sum' = A!Plus(before, now') /\ before' = before
    BY <1>5 DEF A!Report
  <2>4. trace.active
    BY <1>5 DEF AccCosts
  <2>5. \A c \in Columns : trace'.paid[c] \in {Unknown, before'[c]}
      /\ trace'.current[c] \in {Unknown, now'[c]}
    BY <1>5, <2>1, <2>3 DEF AccCosts
  <2>6. A!Prompt(held') >= A!Prompt(now')
    <3>1. A!Prompt(held') \in Nat
      BY <1>5, PromptCounts DEF A!Counts
    <3>2. QED
      BY <1>5, <3>1
  <2>7. QED
    BY <1>5, <2>1, <2>2, <2>3, <2>4, <2>5, <2>6 DEF AccCosts
<1>6. ASSUME A!Dispatch, trace' = [paid |-> trace.paid, current |-> A!Unsaid, active |-> TRUE],
             snapshot' = A!Total(trace')
      PROVE  TraceShape' /\ AccCosts'
  <2>1. trace'.paid = trace.paid /\ trace'.current = A!Unsaid /\ trace'.active
    BY <1>6
  <2>2. TraceShape'
    BY <1>3, <1>6, <2>1 DEF TraceShape
  <2>3. at = "begun" /\ at' = "dispatched" /\ held' = A!Zero /\ UNCHANGED <<before, now, sum>>
    BY <1>6 DEF A!Dispatch, A!tally
  <2>4. now = A!Zero
    BY <2>3 DEF AccCosts
  <2>5. \A c \in Columns : trace'.paid[c] \in {Unknown, before'[c]}
    <3>1. \A c \in Columns : before[c] + now[c] = before[c]
      BY <1>2, <2>4, AccCounts
    <3>2. QED
      BY <2>1, <2>3, <3>1 DEF AccCosts
  <2>6. \A c \in Columns : trace'.current[c] = Unknown
    BY <2>1, AccCounts
  <2>7. A!Prompt(held') >= A!Prompt(now')
    <3>1. A!Prompt(held') = A!Prompt(now') /\ A!Prompt(held') \in Nat
      BY <2>3, <2>4, AccCounts, PromptCounts DEF A!Counts
    <3>2. QED
      BY <3>1
  <2>8. sum' = A!Plus(before', now')
    BY <2>3 DEF AccCosts
  <2>9. QED
    BY <1>6, <2>1, <2>2, <2>3, <2>5, <2>6, <2>7, <2>8 DEF AccCosts
<1>7. ASSUME at = "dispatched", at' \in {"over", "failed"}, A!Succeed \/ A!Fail \/ A!Drop,
             trace' = [paid |-> A!Total(trace), current |-> trace.current, active |-> FALSE],
             snapshot' = A!Total(trace')
      PROVE  TraceShape' /\ AccCosts'
  <2>1. trace'.paid = A!Total(trace) /\ trace'.current = trace.current /\ ~trace'.active
    BY <1>7
  <2>2. TraceShape'
    BY <1>3, <1>7, <2>1 DEF TraceShape
  <2>3. UNCHANGED <<before, now, sum>>
    BY <1>7 DEF A!Succeed, A!Fail, A!Drop, A!tally
  <2>4. A!Total(trace) = A!Known(trace.paid, trace.current)
    BY <1>7 DEF AccCosts, A!Total
  <2>5. \A c \in Columns : trace'.paid[c] \in {Unknown, before'[c] + now'[c]}
    BY <1>3, <1>7, <2>1, <2>3, <2>4, AccCounts DEF AccCosts
  <2>6. sum' = A!Plus(before', now')
    BY <2>3 DEF AccCosts
  <2>7. QED
    BY <1>7, <2>1, <2>2, <2>5, <2>6 DEF AccCosts
<1>8. ASSUME A!Retry, trace' = trace, snapshot' = A!Total(trace)
      PROVE  TraceShape' /\ AccCosts'
  <2>1. at = "failed" /\ at' = "waiting" /\ before' = A!Plus(before, now) /\ now' = A!Zero
    BY <1>8 DEF A!Retry
  <2>2. before' \in A!Counts /\ \A c \in Columns : before'[c] = before[c] + now[c] /\ now'[c] = 0
    BY <1>1, <2>1, AccCounts
  <2>3. A!Plus(before', now') = before'
    <3>1. \A c \in Columns : before'[c] + now'[c] = before'[c]
      BY <1>2, <2>2
    <3>2. A!Plus(before', now') = [c \in Columns |-> before'[c]]
      BY <3>1 DEF A!Plus
    <3>3. QED
      BY <2>2, <3>2 DEF A!Counts
  <2>4. sum' = before'
    BY <1>8, <2>1 DEF A!Retry, AccCosts
  <2>5. \A c \in Columns : trace'.paid[c] \in {Unknown, before'[c] + now'[c]}
    BY <1>2, <1>8, <2>1, <2>2 DEF AccCosts
  <2>6. TraceShape'
    BY <1>8 DEF TraceShape
  <2>7. A!Total(trace)' = A!Total(trace)
    BY <1>8
  <2>8. QED
    BY <1>8, <2>1, <2>3, <2>4, <2>5, <2>6, <2>7 DEF AccCosts
<1>9. ASSUME A!GiveUp, trace' = trace, snapshot' = A!Total(trace)
      PROVE  TraceShape' /\ AccCosts'
  <2>1. at \in {"failed", "refused"} /\ at' = "over" /\ UNCHANGED <<before, now>>
    BY <1>9 DEF A!GiveUp
  <2>2. sum' = A!Plus(before, now)
    BY <1>9 DEF A!GiveUp, AccCosts
  <2>3. TraceShape'
    BY <1>9 DEF TraceShape
  <2>4. A!Total(trace)' = A!Total(trace)
    BY <1>9
  <2>5. QED
    BY <1>9, <2>1, <2>2, <2>3, <2>4 DEF AccCosts
<1>10. ASSUME UNCHANGED <<trace, snapshot, before, now, sum, held>>,
              (at = "dispatched" <=> at' = "dispatched"),
              at' \in {"begun", "waiting", "refused"} => at \in {"begun", "waiting", "refused"}
       PROVE  TraceShape' /\ AccCosts'
  <2>1. TraceShape'
    BY <1>10 DEF TraceShape
  <2>2. A!Total(trace)' = A!Total(trace) /\ A!Prompt(now)' = A!Prompt(now)
      /\ A!Prompt(held)' = A!Prompt(held)
    BY <1>10
  <2>3. QED
    BY <1>10, <2>1, <2>2 DEF AccCosts
<1>11. CASE A!Refuse \/ A!GoOn \/ (A!Drop /\ at # "dispatched")
  <2>1. UNCHANGED <<trace, snapshot, before, now, sum, held>>
    BY <1>11 DEF A!Refuse, A!GoOn, A!Drop, A!counts, A!tally
  <2>2. /\ at = "dispatched" <=> at' = "dispatched"
        /\ at' \in {"begun", "waiting", "refused"} => at \in {"begun", "waiting", "refused"}
    BY <1>11 DEF A!Refuse, A!GoOn, A!Drop
  <2>3. QED
    BY <1>10, <2>1, <2>2
<1> DEFINE Kept == (\E r \in A!Partial : A!Keep(r)) /\ UNCHANGED <<trace, snapshot, before, now, sum>>
              /\ held' \in A!Counts /\ measured' \in A!Maybe /\ A!Prompt(held') >= A!Prompt(held)
           Told == (\E r, e \in A!Partial : A!Report(r, e)) /\ at = "dispatched" /\ at' = at
              /\ held' \in A!Counts /\ measured' \in A!Maybe /\ now' = held'
                  /\ A!Prompt(held') >= A!Prompt(now)
              /\ (\A c \in Columns : measured'[c] \in {Unknown, held'[c]})
              /\ trace' = [paid |-> trace.paid, current |-> measured', active |-> trace.active]
              /\ snapshot' = A!Total(trace')
           Sent == A!Dispatch /\ trace' = [paid |-> trace.paid, current |-> A!Unsaid, active |-> TRUE]
              /\ snapshot' = A!Total(trace')
           Over == at = "dispatched" /\ at' \in {"over", "failed"} /\ (A!Succeed \/ A!Fail \/ A!Drop)
              /\ trace' = [paid |-> A!Total(trace), current |-> trace.current, active |-> FALSE]
              /\ snapshot' = A!Total(trace')
           Same == (A!Retry \/ A!GiveUp) /\ trace' = trace /\ snapshot' = A!Total(trace)
<1>12. A!Refuse \/ A!GoOn \/ (A!Drop /\ at # "dispatched") \/ Kept \/ Told \/ Sent \/ Over \/ Same
  BY TraceSteps
<1>13. CASE Kept
  BY <1>4, <1>13
<1>14. CASE Told
  BY <1>5, <1>14
<1>15. CASE Sent
  BY <1>6, <1>15
<1>16. CASE Over
  BY <1>7, <1>16
<1>17. CASE Same
  BY <1>8, <1>9, <1>17
<1> HIDE DEF Kept, Told, Sent, Over, Same
<1>18. QED
  BY <1>11, <1>12, <1>13, <1>14, <1>15, <1>16, <1>17


\* The shape of what a step leaves.
LEMMA AccTyped ==
  ASSUME A!TypeOK, TraceShape, AccCosts, A!Next, TraceShape', AccCosts'
  PROVE  A!TypeOK'
<1>1. ASSUME NEW t, t.paid \in A!Maybe, t.current \in A!Maybe
      PROVE  A!Total(t) \in A!Maybe
  BY <1>1, AccCounts DEF A!Total
<1>2. snapshot' \in A!Maybe /\ trace'.paid \in A!Maybe /\ trace'.current \in A!Maybe
  <2>1. trace'.paid \in A!Maybe /\ trace'.current \in A!Maybe
    BY DEF TraceShape
  <2>2. snapshot' = A!Total(trace')
    BY DEF AccCosts
  <2>3. QED
    BY <1>1, <2>1, <2>2
<1>3. trace'.active \in BOOLEAN
  <2>1. A!Next => trace'.active = trace.active \/ trace'.active = TRUE \/ trace'.active = FALSE
    BY TraceSteps
  <2>2. trace.active \in BOOLEAN
    BY DEF A!TypeOK
  <2>3. QED
    BY <2>1, <2>2
<1>4. held' \in A!Counts /\ measured' \in A!Maybe
  <2>1. held \in A!Counts /\ measured \in A!Maybe
    BY DEF A!TypeOK
  <2>2. CASE (\E r \in A!Partial : A!Keep(r)) \/ (\E r, e \in A!Partial : A!Report(r, e))
    <3>1. ASSUME NEW r \in A!Partial, A!Keep(r)
          PROVE  held' \in A!Counts /\ measured' \in A!Maybe
      BY <2>1, <3>1, AccReported, AccEvidence DEF A!Keep
    <3>2. ASSUME NEW r \in A!Partial, NEW e \in A!Partial, A!Report(r, e)
          PROVE  held' \in A!Counts /\ measured' \in A!Maybe
      BY <2>1, <3>2, AccReported, AccEvidence DEF A!Report
    <3>3. QED
      BY <2>2, <3>1, <3>2
  <2>3. CASE A!Dispatch
    BY <2>3, AccCounts DEF A!Dispatch
  <2>4. CASE A!Refuse \/ A!Succeed \/ A!Fail \/ A!Retry \/ A!GoOn \/ A!GiveUp \/ A!Drop
    BY <2>1, <2>4 DEF A!Refuse, A!Succeed, A!Fail, A!Retry, A!GoOn, A!GiveUp, A!Drop, A!counts
  <2>5. QED
    BY <2>2, <2>3, <2>4 DEF A!Next
<1>5. before' \in A!Counts /\ now' \in A!Counts
  <2>1. before \in A!Counts /\ now \in A!Counts
    BY DEF A!TypeOK
  <2>2. before' \in A!Counts
    BY <2>1, AccCounts DEF A!Next, A!Keep, A!Report, A!Dispatch, A!Refuse, A!Succeed, A!Fail, A!Retry,
        A!GoOn,
       A!GiveUp, A!Drop, A!tally
  <2>3. CASE \E r, e \in A!Partial : A!Report(r, e)
    <3>1. PICK r \in A!Partial, e \in A!Partial : A!Report(r, e)
      BY <2>3
    <3>2. PICK h : h = A!Reported(held, r) /\ held' = h
      BY <3>1 DEF A!Report
    <3>3. now' = A!Observed(now, h)
      BY <3>1, <3>2 DEF A!Report
    <3>4. now' = h \/ now' = now
      BY <3>3 DEF A!Observed
    <3>5. QED
      BY <1>4, <2>1, <2>2, <3>2, <3>4
  <2>4. CASE A!Retry
    BY <2>2, <2>4, AccCounts DEF A!Retry
  <2>5. CASE (\E r \in A!Partial : A!Keep(r)) \/ A!Dispatch \/ A!Refuse \/ A!Succeed \/ A!Fail \/ A!GoOn
             \/ A!GiveUp
             \/ A!Drop
    BY <2>1, <2>2, <2>5 DEF A!Keep, A!Dispatch, A!Refuse, A!Succeed, A!Fail, A!GoOn, A!GiveUp, A!Drop,
        A!tally
  <2>6. QED
    BY <2>2, <2>3, <2>4, <2>5 DEF A!Next
<1>6. sum' \in A!Counts
  BY <1>5, AccCounts DEF AccCosts
<1>7. said' \in [1..Tries -> SUBSET Columns]
  <2>1. said \in [1..Tries -> SUBSET Columns]
    BY DEF A!TypeOK
  <2>2. ASSUME NEW S \in SUBSET Columns, said' = [said EXCEPT ![turn] = S]
        PROVE  said' \in [1..Tries -> SUBSET Columns]
    BY <2>1, <2>2
  <2>3. ASSUME NEW S \in SUBSET Columns, said' = [said EXCEPT ![turn] = @ \cup S]
        PROVE  said' \in [1..Tries -> SUBSET Columns]
    BY <2>1, <2>3
  <2>4. CASE \E r, e \in A!Partial : A!Report(r, e)
    <3>1. said' = [said EXCEPT ![turn] = @ \cup {c \in Columns : measured'[c] # Unknown}]
      BY <2>4 DEF A!Report
    <3>2. {c \in Columns : measured'[c] # Unknown} \in SUBSET Columns
      OBVIOUS
    <3>3. QED
      BY <2>3, <3>1, <3>2
  <2>5. CASE A!Dispatch
    <3>1. said' = [said EXCEPT ![turn] = {}] /\ {} \in SUBSET Columns
      BY <2>5 DEF A!Dispatch
    <3>2. QED
      BY <2>2, <3>1
  <2>6. CASE (\E r \in A!Partial : A!Keep(r)) \/ A!Retry \/ A!Refuse \/ A!Succeed \/ A!Fail \/ A!GoOn
             \/ A!GiveUp
             \/ A!Drop
    <3>1. said' = said
      BY <2>6 DEF A!Keep, A!Retry, A!Refuse, A!Succeed, A!Fail, A!GoOn, A!GiveUp, A!Drop
    <3>2. QED
      BY <2>1, <3>1
  <2>7. QED
    BY <2>4, <2>5, <2>6 DEF A!Next
<1>8. at' \in {"begun", "dispatched", "failed", "refused", "waiting", "over"} /\ turn' \in 1..Tries
  BY AccKinds DEF A!TypeOK, A!Next, A!Keep, A!Report, A!Dispatch, A!Refuse, A!Succeed, A!Fail, A!Retry,
      A!GoOn,
     A!GiveUp, A!Drop
<1>9. QED
  BY <1>2, <1>3, <1>4, <1>5, <1>6, <1>7, <1>8 DEF A!TypeOK

\* What a step leaves of what every try measured.
LEMMA AccKnowsStep ==
  ASSUME A!TypeOK, TraceShape, AccCosts, AccKnows, A!Next
  PROVE  AccKnows'
<1>1. said \in [1..Tries -> SUBSET Columns] /\ turn \in 1..Tries
  BY DEF A!TypeOK
<1>2. ASSUME NEW r \in A!Partial, NEW e \in A!Partial, A!Report(r, e),
             trace' = [paid |-> trace.paid, current |-> measured', active |-> trace.active]
      PROVE  AccKnows'
  <2>1. /\ said' = [said EXCEPT ![turn] = @ \cup {c \in Columns : measured'[c] # Unknown}]
        /\ turn' = turn /\ at = "dispatched" /\ at' = at
    BY <1>2 DEF A!Report
  <2>2. trace'.paid = trace.paid /\ trace'.current = measured'
    BY <1>2
  <2>3. \A c \in Columns : measured'[c] # Unknown => c \in said'[turn]
    BY <1>1, <2>1
  <2>4. \A a \in 1..Tries : said[a] \subseteq said'[a]
    BY <1>1, <2>1
  <2>5. QED
    BY <1>1, <2>1, <2>2, <2>3, <2>4 DEF AccKnows
<1>3. ASSUME A!Dispatch, trace' = [paid |-> trace.paid, current |-> A!Unsaid, active |-> TRUE]
      PROVE  AccKnows'
  <2>1. said' = [said EXCEPT ![turn] = {}] /\ turn' = turn /\ at = "begun" /\ at' = "dispatched"
    BY <1>3 DEF A!Dispatch
  <2>2. trace'.paid = trace.paid /\ \A c \in Columns : trace'.current[c] = Unknown
    BY <1>3, AccCounts
  <2>3. \A a \in 1..Tries : a # turn => said'[a] = said[a]
    BY <1>1, <2>1
  <2>4. QED
    BY <1>1, <2>1, <2>2, <2>3 DEF AccKnows
<1>4. ASSUME at = "dispatched", at' \in {"over", "failed"}, A!Succeed \/ A!Fail \/ A!Drop,
             trace' = [paid |-> A!Total(trace), current |-> trace.current, active |-> FALSE]
      PROVE  AccKnows'
  <2>1. UNCHANGED <<said, turn>>
    BY <1>4 DEF A!Succeed, A!Fail, A!Drop
  <2>2. trace'.paid = A!Known(trace.paid, trace.current)
    BY <1>4 DEF A!Total, AccCosts
  <2>3. \A c \in Columns : trace'.paid[c] # Unknown => trace.paid[c] # Unknown /\ trace.current[c] # Unknown
    BY <2>2, AccCounts DEF TraceShape
  <2>4. QED
    BY <1>1, <1>4, <2>1, <2>3 DEF AccKnows
<1>5. ASSUME UNCHANGED <<trace, said>>, at' # "dispatched", at # "dispatched"
      PROVE  AccKnows'
  BY <1>5 DEF AccKnows
<1>6. ASSUME UNCHANGED <<trace, said, turn, at>>
      PROVE  AccKnows'
  BY <1>6 DEF AccKnows
<1>7. CASE A!Refuse \/ A!GoOn \/ (A!Drop /\ at # "dispatched") \/ A!Retry \/ A!GiveUp
  <2>1. UNCHANGED <<trace, said>> /\ at' # "dispatched" /\ at # "dispatched"
    BY <1>7 DEF A!Refuse, A!GoOn, A!Drop, A!Retry, A!GiveUp
  <2>2. QED
    BY <1>5, <2>1
<1>8. ASSUME NEW r \in A!Partial, A!Keep(r)
      PROVE  AccKnows'
  BY <1>6, <1>8 DEF A!Keep, A!events
<1>9. ASSUME NEW r \in A!Partial, NEW e \in A!Partial, A!Report(r, e)
      PROVE  trace' = [paid |-> trace.paid, current |-> measured', active |-> trace.active]
  <2>1. at = "dispatched"
    BY <1>9 DEF A!Report
  <2>2. A!Prompt(held) >= A!Prompt(now)
    BY <2>1 DEF AccCosts
  <2>3. QED
    BY <1>9, <2>2, AccReports DEF A!TypeOK
<1>10. A!Dispatch => trace' = [paid |-> trace.paid, current |-> A!Unsaid, active |-> TRUE]
  BY DEF A!Dispatch, A!Notes
<1>11. CASE at = "dispatched" /\ (A!Succeed \/ A!Fail \/ A!Drop)
  <2>1. at' \in {"over", "failed"} /\ trace' = [paid |-> A!Total(trace), current |-> trace.current, active |-> FALSE]
    BY <1>11 DEF A!Succeed, A!Fail, A!Drop, A!Notes, A!Ended
  <2>2. QED
    BY <1>4, <1>11, <2>1
<1>12. A!Succeed \/ A!Fail => at = "dispatched"
  BY DEF A!Succeed, A!Fail
<1>13. QED
  BY <1>2, <1>3, <1>7, <1>8, <1>9, <1>10, <1>11, <1>12 DEF A!Next


\* A try's events, with one more.
LEMMA AccTells ==
  ASSUME NEW T, NEW l \in Seq(T), NEW e \in T
  PROVE  /\ Append(l, e) \in Seq(T) /\ Len(Append(l, e)) = Len(l) + 1 /\ Len(l) \in Nat
         /\ Append(l, e)[Len(l) + 1] = e
         /\ \A i \in Nat : i \in 1..Len(l) => Append(l, e)[i] = l[i]
OBVIOUS

\* What a step that tells one event leaves.
LEMMA AccTold ==
  ASSUME AccEnds, turn \in 1..Tries, Tries \in Nat, NEW e \in Events,
         at \in {"begun", "dispatched", "waiting"}, turn' = turn,
         log' = [log EXCEPT ![turn] = Append(@, e)],
         IF e \in A!Endings THEN at' \in {"failed", "refused", "over"}
             ELSE at' \in {"begun", "dispatched", "waiting"}
  PROVE  AccEnds'
<1>1. log \in [1..Tries -> Seq(Events)] /\ log[turn] \in Seq(Events)
  BY DEF AccEnds
<1>2. log'[turn] = Append(log[turn], e) /\ log'[turn] \in Seq(Events)
  BY <1>1, AccTells
<1>3. \A a \in 1..Tries : a # turn => log'[a] = log[a]
  BY <1>1
<1>4. log' \in [1..Tries -> Seq(Events)]
  BY <1>1, <1>2
<1>5. \A i \in Nat : i \in 1..Len(log[turn]) => log[turn][i] \notin A!Endings
  BY DEF AccEnds
<1>6. \A i \in Nat : i \in 1..Len(log'[turn]) =>
         IF i = Len(log'[turn]) THEN log'[turn][i] = e ELSE log'[turn][i] \notin A!Endings
  <2>1. PICK l \in Seq(Events) : l = log[turn]
    BY <1>1
  <2>2. PICK k \in Nat : k = Len(l)
    BY AccTells
  <2>3. Len(Append(l, e)) = k + 1 /\ Append(l, e)[k + 1] = e
      /\ \A i \in Nat : i \in 1..k => Append(l, e)[i] = l[i]
    BY <2>2, AccTells
  <2>4. \A i \in Nat : i \in 1..k => l[i] \notin A!Endings
    BY <1>5, <2>1, <2>2
  <2>5. \A i \in Nat : i \in 1..k + 1 => i = k + 1 \/ i \in 1..k
    OBVIOUS
  <2>6. log'[turn] = Append(l, e)
    BY <1>2, <2>1
  <2>7. QED
    BY <2>3, <2>4, <2>5, <2>6
<1>7. Len(log'[turn]) # 0 /\ log'[turn][Len(log'[turn])] = e
  BY <1>1, <1>2, AccTells
<1>8. ASSUME NEW a \in 1..turn', NEW i \in Nat, i \in 1..Len(log'[a]), log'[a][i] \in A!Endings
      PROVE  i = Len(log'[a])
  BY <1>3, <1>6, <1>8 DEF AccEnds
<1>9. at' \in {"begun", "dispatched", "waiting"} => \A i \in Nat : i \in 1..Len(log'[turn']) => log'[turn'][i] \notin A!Endings
  BY <1>6
<1>10. ASSUME NEW a \in 1..turn', a < turn' \/ at' \in {"failed", "refused", "over"}
       PROVE  Len(log'[a]) # 0 /\ log'[a][Len(log'[a])] \in A!Endings
  <2>1. CASE a = turn
    <3>1. e \in A!Endings
      BY <1>10, <2>1
    <3>2. QED
      BY <1>7, <2>1, <3>1
  <2>2. CASE a # turn
    <3>1. a < turn /\ a \in 1..turn /\ a \in 1..Tries
      BY <1>10, <2>2
    <3>2. QED
      BY <1>3, <3>1 DEF AccEnds
  <2>3. QED
    BY <2>1, <2>2
<1>11. QED
  BY <1>4, <1>8, <1>9, <1>10 DEF AccEnds

\* Each event is one of them.
LEMMA EventsAre == \A e \in {"refused", "dispatched", "succeeded", "failed", "scheduled", "resumed", "cancelled"} : e \in Events
BY DEF Events

\* What a step leaves of the events.
LEMMA AccEndsStep ==
  ASSUME A!TypeOK, AccEnds, A!Next
  PROVE  AccEnds'
<1>1. turn \in 1..Tries /\ Tries \in Nat
  BY AccKinds DEF A!TypeOK
<1> USE DEF A!Endings
<1>2. CASE A!Refuse
  <2>1. log' = [log EXCEPT ![turn] = Append(@, "refused")] /\ turn' = turn
      /\ at \in {"begun", "dispatched", "waiting"}
    BY <1>2 DEF A!Refuse, A!Tells
  <2>2. IF "refused" \in A!Endings THEN at' \in {"failed", "refused", "over"}
      ELSE at' \in {"begun", "dispatched", "waiting"}
    BY <1>2 DEF A!Refuse
  <2> HIDE DEF A!Endings
  <2>3. QED
    BY <1>1, <2>1, <2>2, AccTold, EventsAre
<1>3. CASE A!Dispatch
  <2>1. log' = [log EXCEPT ![turn] = Append(@, "dispatched")] /\ turn' = turn
      /\ at \in {"begun", "dispatched", "waiting"}
    BY <1>3 DEF A!Dispatch, A!Tells
  <2>2. IF "dispatched" \in A!Endings THEN at' \in {"failed", "refused", "over"}
      ELSE at' \in {"begun", "dispatched", "waiting"}
    BY <1>3 DEF A!Dispatch
  <2> HIDE DEF A!Endings
  <2>3. QED
    BY <1>1, <2>1, <2>2, AccTold, EventsAre
<1>4. CASE A!Succeed
  <2>1. log' = [log EXCEPT ![turn] = Append(@, "succeeded")] /\ turn' = turn
      /\ at \in {"begun", "dispatched", "waiting"}
    BY <1>4 DEF A!Succeed, A!Tells
  <2>2. IF "succeeded" \in A!Endings THEN at' \in {"failed", "refused", "over"}
      ELSE at' \in {"begun", "dispatched", "waiting"}
    BY <1>4 DEF A!Succeed
  <2> HIDE DEF A!Endings
  <2>3. QED
    BY <1>1, <2>1, <2>2, AccTold, EventsAre
<1>5. CASE A!Fail
  <2>1. log' = [log EXCEPT ![turn] = Append(@, "failed")] /\ turn' = turn
      /\ at \in {"begun", "dispatched", "waiting"}
    BY <1>5 DEF A!Fail, A!Tells
  <2>2. IF "failed" \in A!Endings THEN at' \in {"failed", "refused", "over"}
      ELSE at' \in {"begun", "dispatched", "waiting"}
    BY <1>5 DEF A!Fail
  <2> HIDE DEF A!Endings
  <2>3. QED
    BY <1>1, <2>1, <2>2, AccTold, EventsAre
<1>6. CASE A!GoOn
  <2>1. log' = [log EXCEPT ![turn] = Append(@, "resumed")] /\ turn' = turn
      /\ at \in {"begun", "dispatched", "waiting"}
    BY <1>6 DEF A!GoOn, A!Tells
  <2>2. IF "resumed" \in A!Endings THEN at' \in {"failed", "refused", "over"}
      ELSE at' \in {"begun", "dispatched", "waiting"}
    BY <1>6 DEF A!GoOn
  <2> HIDE DEF A!Endings
  <2>3. QED
    BY <1>1, <2>1, <2>2, AccTold, EventsAre
<1>7. CASE A!Drop
  <2>1. log' = [log EXCEPT ![turn] = Append(@, "cancelled")] /\ turn' = turn
      /\ at \in {"begun", "dispatched", "waiting"}
    BY <1>7 DEF A!Drop, A!Tells
  <2>2. IF "cancelled" \in A!Endings THEN at' \in {"failed", "refused", "over"}
      ELSE at' \in {"begun", "dispatched", "waiting"}
    BY <1>7 DEF A!Drop
  <2> HIDE DEF A!Endings
  <2>3. QED
    BY <1>1, <2>1, <2>2, AccTold, EventsAre
<1>8. CASE A!Retry
  <2>1. at = "failed" /\ turn < Tries /\ at' = "waiting" /\ turn' = turn + 1
        /\ log' = [log EXCEPT ![turn + 1] = <<"scheduled">>]
    BY <1>8 DEF A!Retry
  <2>2. log \in [1..Tries -> Seq(Events)] /\ turn + 1 \in 1..Tries
    BY <1>1, <2>1 DEF AccEnds
  <2>3. PICK l \in Seq(Events) : l = <<"scheduled">> /\ Len(l) = 1 /\ l[1] = "scheduled"
    <3>1. \A T, e : e \in T => <<e>> \in Seq(T) /\ Len(<<e>>) = 1 /\ <<e>>[1] = e
      OBVIOUS
    <3>2. "scheduled" \in Events
      BY EventsAre
    <3>3. QED
      BY <3>1, <3>2
  <2>4. log' \in [1..Tries -> Seq(Events)] /\ log'[turn + 1] = l /\ \A a \in 1..turn : log'[a] = log[a]
    BY <1>1, <2>1, <2>2, <2>3
  <2>5. \A i \in Nat : i \in 1..Len(l) => l[i] \notin A!Endings
    BY <2>3
  <2>6. \A a \in 1..turn + 1 : a = turn + 1 \/ a \in 1..turn
    BY <1>1
  <2>7. \A a \in 1..turn + 1 : a < turn + 1 => a \in 1..turn
    BY <1>1
  <2> HIDE DEF A!Endings
  <2>8. \A a \in 1..turn', i \in Nat : i \in 1..Len(log'[a]) /\ log'[a][i] \in A!Endings => i = Len(log'[a])
    BY <2>1, <2>4, <2>5, <2>6 DEF AccEnds
  <2>9. \A a \in 1..turn' : a < turn' => Len(log'[a]) # 0 /\ log'[a][Len(log'[a])] \in A!Endings
    BY <2>1, <2>4, <2>7 DEF AccEnds
  <2>10. \A i \in Nat : i \in 1..Len(log'[turn']) => log'[turn'][i] \notin A!Endings
    BY <2>1, <2>4, <2>5
  <2>11. QED
    BY <2>1, <2>4, <2>8, <2>9, <2>10 DEF AccEnds
<1>9. ASSUME UNCHANGED <<log, turn>>, at = at' \/ (at \in {"failed", "refused"} /\ at' = "over")
      PROVE  AccEnds'
  <2> HIDE DEF A!Endings
  <2>1. QED
    BY <1>9 DEF AccEnds
<1>10. CASE A!GiveUp
  BY <1>9, <1>10 DEF A!GiveUp
<1>11. CASE (\E r \in A!Partial : A!Keep(r)) \/ (\E r, e \in A!Partial : A!Report(r, e))
  BY <1>9, <1>11 DEF A!Keep, A!Report, A!events
<1>12. QED
  BY <1>2, <1>3, <1>4, <1>5, <1>6, <1>7, <1>8, <1>10, <1>11 DEF A!Next

\* Nothing is said, measured or spent before the first try.
LEMMA AccBegins == A!Init => AccInv
<1>1. SUFFICES ASSUME A!Init
               PROVE  AccInv
  OBVIOUS
<1>2. /\ held = A!Zero /\ before = A!Zero /\ now = A!Zero /\ sum = A!Zero /\ snapshot = A!Zero
         /\ measured = A!Unsaid
      /\ trace.paid = A!Zero /\ trace.current = A!Unsaid /\ ~trace.active /\ at = "begun" /\ turn = 1
      /\ trace = [paid |-> trace.paid, current |-> trace.current, active |-> FALSE]
  BY <1>1 DEF A!Init
<1>3. A!Zero \in A!Counts /\ A!Zero \in A!Maybe /\ A!Unsaid \in A!Maybe
  BY AccCounts DEF A!Zero, A!Maybe
<1>4. said \in [1..Tries -> SUBSET Columns] /\ \A a \in 1..Tries : said[a] = Columns
  BY <1>1 DEF A!Init, A!Undispatched
<1>5. TraceShape
  BY <1>2, <1>3 DEF TraceShape
<1>6. A!Plus(A!Zero, A!Zero) = A!Zero
  BY DEF A!Plus, A!Zero
<1>7. A!Total(trace) = A!Zero
  BY <1>2 DEF A!Total
<1>8. \A c \in Columns : A!Zero[c] = 0
  BY AccCounts
<1>9. AccCosts
  BY <1>2, <1>6, <1>7, <1>8 DEF AccCosts
<1>10. AccKnows
  BY <1>2, <1>4 DEF AccKnows
<1>11. log = [a \in 1..Tries |-> <<>>] /\ turn = 1
  BY <1>1 DEF A!Init
<1>12. log \in [1..Tries -> Seq(Events)] /\ \A a \in 1..Tries : Len(log[a]) = 0
  BY <1>11
<1>13. AccEnds
  BY <1>2, <1>12, AccKinds DEF AccEnds
<1>14. trace.active \in BOOLEAN
  BY <1>1 DEF A!Init
<1>15. A!TypeOK
  BY <1>2, <1>3, <1>4, <1>14, AccKinds DEF A!TypeOK
<1>16. QED
  BY <1>5, <1>9, <1>10, <1>13, <1>15 DEF AccInv

\* Every step of Accounting leaves its invariant.
LEMMA AccStep ==
  ASSUME AccInv, A!Next
  PROVE  AccInv'
BY AccCostsStep, AccTyped, AccKnowsStep, AccEndsStep DEF AccInv

\* The invariant is what the run checks.
LEMMA AccSays == AccInv => A!TypeOK /\ A!SaidInFull
<1>1. SUFFICES ASSUME AccInv
               PROVE  A!SaidInFull
  BY DEF AccInv
<1>2. before \in A!Counts /\ now \in A!Counts /\ trace.paid \in A!Maybe /\ trace.current \in A!Maybe
      /\ turn \in 1..Tries
  BY <1>1 DEF AccInv, A!TypeOK
<1>3. \A c \in Columns : sum[c] = before[c] + now[c]
  BY <1>1, <1>2, AccCounts DEF AccInv, AccCosts
<1>4. ASSUME NEW c \in Columns
      PROVE  /\ snapshot[c] \in {Unknown, sum[c]}
             /\ snapshot[c] # Unknown => \A a \in 1..Tries : c \in said[a]
  <2>1. CASE at = "dispatched"
    <3>1. snapshot[c] = IF Unknown \in {trace.paid[c], trace.current[c]} THEN Unknown
        ELSE trace.paid[c] + trace.current[c]
      BY <1>1, <1>2, <2>1, AccCounts DEF AccInv, AccCosts, A!Total
    <3>2. trace.paid[c] \in {Unknown, before[c]} /\ trace.current[c] \in {Unknown, now[c]}
      BY <1>1, <2>1 DEF AccInv, AccCosts
    <3>3. /\ trace.paid[c] # Unknown => \A a \in 1..Tries : a # turn => c \in said[a]
          /\ trace.current[c] # Unknown => c \in said[turn]
      BY <1>1, <2>1 DEF AccInv, AccKnows
    <3>4. QED
      BY <1>3, <3>1, <3>2, <3>3
  <2>2. CASE at # "dispatched"
    <3>1. snapshot = trace.paid
      BY <1>1, <2>2 DEF AccInv, AccCosts, A!Total
    <3>2. QED
      BY <1>1, <1>3, <2>2, <3>1 DEF AccInv, AccCosts, AccKnows
  <2>3. QED
    BY <2>1, <2>2
<1>5. A!EndedOnce
  <2>1. log \in [1..Tries -> Seq(Events)] /\ Tries \in Nat
    BY <1>1, AccKinds DEF AccInv, AccEnds
  <2>2. ASSUME NEW a \in 1..turn
        PROVE  /\ \A i \in 1..Len(log[a]) : log[a][i] \in A!Endings => i = Len(log[a])
               /\ at = "over" \/ a < turn => log[a] # <<>> /\ log[a][Len(log[a])] \in A!Endings
    <3>1. log[a] \in Seq(Events)
      BY <1>2, <2>1
    <3>2. \A i \in 1..Len(log[a]) : i \in Nat
      BY <3>1
    <3>3. Len(log[a]) # 0 => log[a] # <<>>
      BY <3>1
    <3>4. QED
      BY <1>1, <3>2, <3>3 DEF AccInv, AccEnds
  <2>3. QED
    BY <2>2 DEF A!EndedOnce
<1>6. QED
  BY <1>4, <1>5 DEF A!SaidInFull, A!Agree, A!NeverLess

----------------------------------------------------------------------------
\* Measures.

\* What is assumed of the constants of Measures.
LEMMA MeasKinds ==
  /\ Columns = {"input", "cache_read"} /\ Prompts \subseteq Nat /\ 0 \in Prompts /\ Unknown \notin Nat
BY ProviderKinds DEF M!MeasuresKinds, M!AccountingKinds

\* A sum over two is the sum of the two.
LEMMA SumOfTwo ==
  ASSUME NEW a, NEW b, a # b, NEW u \in [{a, b} -> Nat]
  PROVE  SumOver(u, {a, b}) = u[a] + u[b]
<1> DEFINE S == {a, b}
<1>1. IsFiniteSet(S)
  <2>1. IsFiniteSet({a}) /\ S = {a} \cup {b}
    BY FS_Singleton
  <2>2. QED
    BY <2>1, FS_AddElement
<1>2. PICK g : g = (CHOOSE k : Adds(k, u, S)) /\ Adds(g, u, S)
  BY <1>1, AddsThere
<1>3. g[{}] = 0
  BY <1>2, AddsOne
<1>4. ASSUME NEW x \in S
      PROVE  g[{x}] = u[x]
  <2>1. {x} \in SUBSET S /\ {x} # {}
    OBVIOUS
  <2>2. PICK y \in {x} : g[{x}] = u[y] + g[{x} \ {y}]
    BY <1>2, <2>1, AddsOne
  <2>3. y = x /\ {x} \ {y} = {}
    OBVIOUS
  <2>4. u[x] \in Nat
    OBVIOUS
  <2>5. QED
    BY <1>3, <2>2, <2>3, <2>4
<1>5. PICK y \in S : g[S] = u[y] + g[S \ {y}]
  BY <1>2, AddsOne
<1>6. u[a] \in Nat /\ u[b] \in Nat
  OBVIOUS
<1>7. CASE y = a
  <2>1. S \ {y} = {b}
    BY <1>7
  <2>2. g[S] = u[a] + u[b]
    BY <1>4, <1>5, <1>7, <2>1
  <2>3. QED
    BY <1>2, <2>2 DEF SumOver
<1>8. CASE y = b
  <2>1. S \ {y} = {a}
    BY <1>8
  <2>2. g[S] = u[b] + u[a]
    BY <1>4, <1>5, <1>8, <2>1
  <2>3. g[S] = u[a] + u[b]
    BY <1>6, <2>2
  <2>4. QED
    BY <1>2, <2>3 DEF SumOver
<1>9. QED
  BY <1>7, <1>8

\* A prompt is its input and what of it was read from a cache.
LEMMA MeasPrompt ==
  ASSUME NEW u \in [Columns -> Nat]
  PROVE  M!Prompt(u) = u["input"] + u["cache_read"] /\ u["input"] \in Nat /\ u["cache_read"] \in Nat
<1>1. M!Prompt(u) = SumOver(u, Columns)
  BY DEF M!Prompt, M!MapThenSumSet, M!MapThenFoldSet, SumOver, Adds
<1>2. QED
  BY <1>1, MeasKinds, SumOfTwo

\* The largest of a set of numbers is that one of them.
LEMMA MaxIs ==
  ASSUME NEW S \in SUBSET Nat, NEW m \in S, \A y \in S : m >= y
  PROVE  M!Max(S) = m
<1>1. M!Max(S) \in S /\ \A y \in S : M!Max(S) >= y
  <2>1. \E x \in S : \A y \in S : x >= y
    OBVIOUS
  <2>2. QED
    BY <2>1 DEF M!Max
<1>2. PICK x \in Nat : x = M!Max(S)
  BY <1>1
<1>3. PICK n \in Nat : n = m
  OBVIOUS
<1>4. x >= n /\ n >= x
  BY <1>1, <1>2, <1>3
<1>5. x = n
  BY <1>4
<1>6. QED
  BY <1>2, <1>3, <1>5

\* And the smallest is that one.
LEMMA MinIs ==
  ASSUME NEW S \in SUBSET Nat, NEW m \in S, \A y \in S : m <= y
  PROVE  M!Min(S) = m
<1>1. M!Min(S) \in S /\ \A y \in S : M!Min(S) <= y
  <2>1. \E x \in S : \A y \in S : x <= y
    OBVIOUS
  <2>2. QED
    BY <2>1 DEF M!Min
<1>2. PICK x \in Nat : x = M!Min(S)
  BY <1>1
<1>3. PICK n \in Nat : n = m
  OBVIOUS
<1>4. x <= n /\ n <= x
  BY <1>1, <1>2, <1>3
<1>5. x = n
  BY <1>4
<1>6. QED
  BY <1>2, <1>3, <1>5

\* The larger of two that may be unknown.
LEMMA LargestIs ==
  ASSUME NEW a \in Nat \cup {Unknown}, NEW b \in Nat \cup {Unknown}
  PROVE  M!Largest({a, b}) = IF a = Unknown THEN b ELSE IF b = Unknown THEN a ELSE IF a >= b THEN a ELSE b
<1>1. CASE a = Unknown /\ b = Unknown
  BY <1>1 DEF M!Largest, M!Counted
<1>2. CASE a = Unknown /\ b \in Nat
  <2>1. {a, b} \ {Unknown} = {b}
    BY <1>2, MeasKinds
  <2>2. M!Max({b}) = b
    BY <1>2, MaxIs
  <2>3. QED
    BY <1>2, <2>1, <2>2 DEF M!Largest, M!Counted
<1>3. CASE a \in Nat /\ b = Unknown
  <2>1. {a, b} \ {Unknown} = {a}
    BY <1>3, MeasKinds
  <2>2. M!Max({a}) = a
    BY <1>3, MaxIs
  <2>3. a # Unknown
    BY <1>3, MeasKinds
  <2>4. QED
    BY <1>3, <2>1, <2>2, <2>3 DEF M!Largest, M!Counted
<1>4. CASE a \in Nat /\ b \in Nat
  <2>1. {a, b} \ {Unknown} = {a, b} /\ a # Unknown /\ b # Unknown
    BY <1>4, MeasKinds
  <2>2. M!Max({a, b}) = IF a >= b THEN a ELSE b
    <3>1. CASE a >= b
      <4>1. \A y \in {a, b} : a >= y
        BY <1>4, <3>1
      <4>2. QED
        BY <1>4, <3>1, <4>1, MaxIs
    <3>2. CASE ~(a >= b)
      <4>1. \A y \in {a, b} : b >= y
        BY <1>4, <3>2
      <4>2. QED
        BY <1>4, <3>2, <4>1, MaxIs
    <3>3. QED
      BY <3>1, <3>2
  <2>3. QED
    BY <2>1, <2>2 DEF M!Largest, M!Counted
<1>5. QED
  BY <1>1, <1>2, <1>3, <1>4


\* What is measured was said, of the whole prompt or in parts.
MeasParts ==
  /\ \A c \in Columns : measured[c] \in {Unknown, held[c]}
  /\ prompt = Unknown => held["input"] = 0 /\ figured.totals = {}
  /\ prompt # Unknown =>
       prompt \in figured.totals /\ (\A t \in figured.totals : prompt >= t)
       /\ held["input"] + held["cache_read"] >= prompt
  /\ \E m \in figured.totals \cup figured.reads \cup {0} : m >= held["input"] + held["cache_read"]
  /\ \E m \in figured.reads \cup {0} : \A x \in figured.reads : m >= x
  /\ fits =>
       /\ held["cache_read"] \in figured.reads \cup {0} /\ \A x \in figured.reads : held["cache_read"] >= x
       /\ prompt # Unknown => held["input"] + held["cache_read"] = prompt
       /\ measured["input"] # Unknown => measured["cache_read"] # Unknown

\* The inductive invariant of Measures.
MeasInv ==
  /\ A!TypeOK /\ TraceShape /\ M!MeasuresTypeOK
  /\ at = "begun" => /\ held = A!Zero /\ measured = A!Unsaid /\ prompt = Unknown
                     /\ figured = [totals |-> {}, reads |-> {}]
  /\ M!MeasuredWasSaid /\ (inclusive => MeasParts)

\* What a report does to the counts of a try.
MeasNow(u, e) ==
  /\ held' = IF u["input"] + u["cache_read"] >= held["input"] + held["cache_read"] THEN u ELSE held
  /\ measured' \in A!Maybe
  /\ \A c \in Columns : measured'[c] = IF e[c] = held'[c] THEN held'[c]
                                       ELSE IF measured[c] = held'[c] THEN measured[c] ELSE Unknown

\* A report of either dialect, whatever its counts and its evidence are.
LEMMA MeasReports ==
  ASSUME A!TypeOK, TraceShape, NEW u \in A!Counts, NEW e, M!Report(u, e)
  PROVE  A!TypeOK' /\ TraceShape' /\ MeasNow(u, e) /\ at = "dispatched" /\ at' = at
<1>1. held \in A!Counts /\ now \in A!Counts /\ before \in A!Counts /\ trace.paid \in A!Maybe
  BY DEF A!TypeOK
<1>2. \A c \in Columns : u[c] # Unknown
  BY MeasKinds DEF A!Counts
<1>3. M!Reported(held, u) = M!Observed(held, [c \in Columns |-> u[c]])
  BY <1>2 DEF M!Reported
<1>4. [c \in Columns |-> u[c]] = u
  BY DEF A!Counts
<1>5. PICK h : h = held' /\ h = IF u["input"] + u["cache_read"] >= held["input"] + held["cache_read"] THEN u ELSE held
  <2>1. held' = M!Observed(held, u)
    BY <1>3, <1>4 DEF M!Report
  <2>2. M!Prompt(u) = u["input"] + u["cache_read"] /\ M!Prompt(held) = held["input"] + held["cache_read"]
    BY <1>1, MeasPrompt DEF A!Counts
  <2>3. QED
    BY <2>1, <2>2 DEF M!Observed
<1>6. h \in A!Counts
  BY <1>1, <1>5
<1>7. PICK m : m = measured' /\ m = M!Evidence(measured, e, h)
  BY <1>5 DEF M!Report
<1>8. m \in A!Maybe /\ \A c \in Columns : m[c] = IF e[c] = h[c] THEN h[c]
                                       ELSE IF measured[c] = h[c] THEN measured[c] ELSE Unknown
  <2>1. \A c \in Columns : h[c] \in Nat
    BY <1>6 DEF A!Counts
  <2>2. \A c \in Columns : (IF e[c] = h[c] THEN h[c] ELSE IF measured[c] = h[c] THEN measured[c]
      ELSE Unknown)
                           \in Nat \cup {Unknown}
    BY <2>1
  <2>3. QED
    BY <1>7, <2>2 DEF M!Evidence, A!Maybe
<1>9. MeasNow(u, e)
  BY <1>5, <1>7, <1>8 DEF MeasNow
<1>10. now' \in A!Counts /\ before' = before /\ sum' = M!Plus(before, now')
  <2>1. now' = M!Observed(now, h) /\ before' = before /\ sum' = M!Plus(before, now')
    BY <1>5 DEF M!Report
  <2>2. now' = h \/ now' = now
    BY <2>1 DEF M!Observed
  <2>3. QED
    BY <1>1, <1>6, <2>1, <2>2
<1>11. sum' \in A!Counts
  BY <1>1, <1>10 DEF M!Plus, A!Counts
<1>12. trace' = [trace EXCEPT !.current = m] /\ snapshot' = M!Total(trace')
  BY <1>7 DEF M!Report, M!Notes
<1>13. trace' = [paid |-> trace.paid, current |-> m, active |-> trace.active]
  BY <1>12 DEF TraceShape
<1>14. trace'.paid = trace.paid /\ trace'.current = m /\ trace'.active = trace.active
  BY <1>13
<1>15. TraceShape'
  BY <1>1, <1>8, <1>13, <1>14 DEF TraceShape
<1>16. snapshot' \in A!Maybe
  <2>1. \A c \in Columns : trace'.paid[c] \in Nat \cup {Unknown} /\ trace'.current[c] \in Nat \cup {Unknown}
    BY <1>1, <1>8, <1>14 DEF A!Maybe
  <2>2. \A c \in Columns : (IF Unknown \in {trace'.paid[c], trace'.current[c]} THEN Unknown
                             ELSE trace'.paid[c] + trace'.current[c]) \in Nat \cup {Unknown}
    BY <2>1
  <2>3. M!Known(trace'.paid, trace'.current) \in A!Maybe
    BY <2>2 DEF M!Known, A!Maybe
  <2>4. QED
    BY <1>1, <1>12, <1>14, <2>3 DEF M!Total
<1>17. said' \in [1..Tries -> SUBSET Columns]
  <2>1. said \in [1..Tries -> SUBSET Columns]
    BY DEF A!TypeOK
  <2>2. PICK S : said' = [said EXCEPT ![turn] = @ \cup S] /\ S \in SUBSET Columns
    <3>1. said' = [said EXCEPT ![turn] = @ \cup {c \in Columns : measured'[c] # Unknown}]
      BY DEF M!Report
    <3>2. {c \in Columns : measured'[c] # Unknown} \in SUBSET Columns
      OBVIOUS
    <3>3. QED
      BY <3>1, <3>2
  <2>3. QED
    BY <2>1, <2>2
<1>18. at = "dispatched" /\ at' = at /\ turn' = turn
  BY DEF M!Report
<1>19. trace'.active \in BOOLEAN
  BY <1>14 DEF A!TypeOK
<1>20. A!TypeOK'
  BY <1>1, <1>5, <1>6, <1>7, <1>8, <1>10, <1>11, <1>14, <1>16, <1>17, <1>18, <1>19 DEF A!TypeOK
<1>21. QED
  BY <1>9, <1>15, <1>18, <1>20

\* A try of either dialect that is dispatched.
LEMMA MeasDispatch ==
  ASSUME MeasInv, M!Dispatch, UNCHANGED <<inclusive, prompt, figured, fits>>
  PROVE  MeasInv'
<1>1. at = "begun" /\ at' = "dispatched" /\ held' = M!Zero /\ measured' = M!Unsaid
    /\ UNCHANGED <<turn, before, now, sum>>
  BY DEF M!Dispatch, M!tally
<1>2. M!Zero = A!Zero /\ M!Unsaid = A!Unsaid
  BY DEF M!Zero, A!Zero, M!Unsaid, A!Unsaid
<1>3. held = A!Zero /\ measured = A!Unsaid /\ prompt = Unknown /\ figured = [totals |-> {}, reads |-> {}]
  BY <1>1 DEF MeasInv
<1>4. held' = held /\ measured' = measured
  BY <1>1, <1>2, <1>3
<1>5. trace' = [paid |-> trace.paid, current |-> A!Unsaid, active |-> TRUE] /\ snapshot' = M!Total(trace')
  BY <1>2 DEF M!Dispatch, M!Notes
<1>6. trace.paid \in A!Maybe /\ A!Unsaid \in A!Maybe
  BY AccCounts DEF MeasInv, TraceShape
<1>7. trace'.paid = trace.paid /\ trace'.current = A!Unsaid /\ trace'.active = TRUE
  BY <1>5
<1>8. TraceShape'
  BY <1>5, <1>6, <1>7 DEF TraceShape
<1>9. snapshot' \in A!Maybe
  <2>1. \A c \in Columns : trace'.paid[c] \in Nat \cup {Unknown} /\ trace'.current[c] \in Nat \cup {Unknown}
    BY <1>6, <1>7 DEF A!Maybe
  <2>2. \A c \in Columns : (IF Unknown \in {trace'.paid[c], trace'.current[c]} THEN Unknown
                             ELSE trace'.paid[c] + trace'.current[c]) \in Nat \cup {Unknown}
    BY <2>1
  <2>3. M!Known(trace'.paid, trace'.current) \in A!Maybe
    BY <2>2 DEF M!Known, A!Maybe
  <2>4. QED
    BY <1>5, <1>6, <1>7, <2>3 DEF M!Total
<1>10. said' \in [1..Tries -> SUBSET Columns]
  <2>1. said \in [1..Tries -> SUBSET Columns]
    BY DEF MeasInv, A!TypeOK
  <2>2. said' = [said EXCEPT ![turn] = {}]
    BY DEF M!Dispatch
  <2>3. {} \in SUBSET Columns
    OBVIOUS
  <2>4. QED
    BY <2>1, <2>2, <2>3
<1>11. A!TypeOK'
  <2>1. trace'.active \in BOOLEAN
    BY <1>7
  <2>2. A!TypeOK
    BY DEF MeasInv
  <2>3. QED
    BY <1>1, <1>4, <1>6, <1>7, <1>9, <1>10, <2>1, <2>2 DEF A!TypeOK
<1>12. M!MeasuresTypeOK' /\ M!MeasuredWasSaid' /\ (inclusive => MeasParts)'
  BY <1>4 DEF MeasInv, M!MeasuresTypeOK, M!MeasuredWasSaid, MeasParts
<1>13. QED
  BY <1>1, <1>8, <1>11, <1>12 DEF MeasInv


\* What is said of the provider: no figure of it is unknown.
LEMMA MeasTell ==
  ASSUME M!MeasuresTypeOK, NEW S \in SUBSET M!MaybeCounts, NEW R \in SUBSET M!MaybeCounts, M!Tell(S, R)
  PROVE  /\ figured' \in [totals : SUBSET Prompts, reads : SUBSET Prompts]
         /\ figured'.totals = figured.totals \cup (S \ {Unknown})
         /\ figured'.reads = figured.reads \cup (R \ {Unknown})
BY DEF M!MeasuresTypeOK, M!Tell, M!Counted, M!MaybeCounts

\* A report of each part, in a dialect that has them apart.
LEMMA MeasExcludes ==
  ASSUME MeasInv, NEW i \in M!MaybeCounts, NEW r \in M!MaybeCounts, M!Excludes(i, r)
  PROVE  MeasInv'
<1> DEFINE e == [c \in Columns |-> IF c = "input" THEN i ELSE r]
           u == [c \in Columns |-> IF e[c] = Unknown THEN 0 ELSE e[c]]
<1>1. A!TypeOK /\ TraceShape /\ M!MeasuresTypeOK
  BY DEF MeasInv
<1>2. ~inclusive /\ UNCHANGED <<inclusive, prompt, fits>> /\ M!Report(u, e) /\ M!Tell({i}, {r})
  BY DEF M!Excludes
<1>3. u \in A!Counts
  BY MeasKinds DEF M!MaybeCounts, A!Counts
<1>4. /\ figured' \in [totals : SUBSET Prompts, reads : SUBSET Prompts]
      /\ figured'.totals = figured.totals \cup ({i} \ {Unknown})
      /\ figured'.reads = figured.reads \cup ({r} \ {Unknown})
  <2>1. {i} \in SUBSET M!MaybeCounts /\ {r} \in SUBSET M!MaybeCounts
    OBVIOUS
  <2>2. QED
    BY <1>1, <1>2, <2>1, MeasTell
<1>5. e["input"] = i /\ e["cache_read"] = r
  BY MeasKinds
<1> HIDE DEF e, u
<1>6. A!TypeOK' /\ TraceShape' /\ MeasNow(u, e) /\ at = "dispatched" /\ at' = at
  BY <1>1, <1>2, <1>3, MeasReports
<1>7. /\ measured'["input"] \in {Unknown, i, measured["input"]}
      /\ measured'["cache_read"] \in {Unknown, r, measured["cache_read"]}
  BY <1>5, <1>6, MeasKinds DEF MeasNow
<1>8. M!MeasuredWasSaid
  BY DEF MeasInv
<1>9. M!MeasuredWasSaid'
  BY <1>2, <1>4, <1>7, <1>8 DEF M!MeasuredWasSaid
<1>10. M!MeasuresTypeOK'
  BY <1>1, <1>2, <1>4 DEF M!MeasuresTypeOK
<1>11. QED
  BY <1>2, <1>6, <1>9, <1>10 DEF MeasInv

\* A report of the output alone.
LEMMA MeasOutput ==
  ASSUME MeasInv, M!SaysOutput
  PROVE  MeasInv'
<1>1. A!TypeOK /\ TraceShape /\ M!MeasuresTypeOK /\ held \in A!Counts
  BY DEF MeasInv, A!TypeOK
<1>2. ~inclusive /\ UNCHANGED <<inclusive, prompt, figured, fits>> /\ M!Report(held, M!Unsaid)
  BY DEF M!SaysOutput
<1>3. A!TypeOK' /\ TraceShape' /\ MeasNow(held, M!Unsaid) /\ at = "dispatched" /\ at' = at
  BY <1>1, <1>2, MeasReports
<1>4. \A c \in Columns : M!Unsaid[c] = Unknown /\ held'[c] \in Nat
  BY <1>3 DEF M!Unsaid, A!TypeOK, A!Counts
<1>5. \A c \in Columns : measured'[c] \in {Unknown, measured[c]}
  BY <1>3, <1>4, MeasKinds DEF MeasNow
<1>6. measured'["input"] \in {Unknown, measured["input"]}
    /\ measured'["cache_read"] \in {Unknown, measured["cache_read"]}
  BY <1>5, MeasKinds
<1>7. M!MeasuredWasSaid
  BY DEF MeasInv
<1>8. M!MeasuredWasSaid'
  BY <1>2, <1>6, <1>7 DEF M!MeasuredWasSaid
<1>9. M!MeasuresTypeOK'
  BY <1>1, <1>2 DEF M!MeasuresTypeOK
<1>10. QED
  BY <1>2, <1>3, <1>8, <1>9 DEF MeasInv

\* What a report of the whole prompt is made to say: of a prompt that is not known yet...
LEMMA PartsUnknown ==
  ASSUME held \in A!Counts, NEW t \in M!MaybeCounts, NEW d \in M!MaybeCounts, M!Whole(t) = Unknown
  PROVE  /\ M!Parts(t, d) \in A!Counts /\ M!Parts(t, d)["input"] = held["input"]
         /\ M!Parts(t, d)["cache_read"] = IF d = Unknown THEN held["cache_read"] ELSE d
<1>1. M!Parts(t, d) = IF d # Unknown THEN [held EXCEPT !["cache_read"] = d] ELSE held
  BY DEF M!Parts
<1>2. d # Unknown => d \in Nat
  BY MeasKinds DEF M!MaybeCounts
<1>3. QED
  BY <1>1, <1>2, MeasKinds DEF A!Counts

\* ... and of one that is.
LEMMA PartsKnown ==
  ASSUME held \in A!Counts, NEW t \in M!MaybeCounts, NEW d \in M!MaybeCounts, NEW w \in Nat, M!Whole(t) = w,
         NEW n \in Nat, M!Read(t, d) = n
  PROVE  /\ M!Parts(t, d) \in A!Counts
         /\ M!Parts(t, d)["cache_read"] = IF n <= w THEN n ELSE w
         /\ M!Parts(t, d)["input"] = IF n <= w THEN w - n ELSE 0
<1> DEFINE p == IF n <= w THEN n ELSE w
<1>1. M!Min({n, w}) = p
  <2>1. \A y \in {n, w} : p <= y
    OBVIOUS
  <2>2. p \in {n, w} /\ {n, w} \in SUBSET Nat
    OBVIOUS
  <2> HIDE DEF p
  <2>3. QED
    BY <2>1, <2>2, MinIs
<1>2. w # Unknown
  BY MeasKinds
<1>3. M!Parts(t, d) = [c \in Columns |-> IF c = "input" THEN w - p ELSE p]
  BY <1>1, <1>2 DEF M!Parts
<1>4. p \in Nat /\ w - p \in Nat /\ w - p = IF n <= w THEN w - n ELSE 0
  OBVIOUS
<1> HIDE DEF p
<1>5. M!Parts(t, d) \in A!Counts /\ M!Parts(t, d)["cache_read"] = p /\ M!Parts(t, d)["input"] = w - p
  BY <1>3, <1>4, MeasKinds DEF A!Counts
<1>6. QED
  BY <1>4, <1>5 DEF p

\* A read is no less than before, and none comes with a prompt that is not taken.
LEMMA ReadIs ==
  ASSUME held \in A!Counts, NEW t, NEW d \in M!MaybeCounts
  PROVE  /\ M!Read(t, d) \in Nat
         /\ M!Read(t, d) = IF M!Stale(t) \/ d = Unknown THEN held["cache_read"]
                           ELSE IF held["cache_read"] >= d THEN held["cache_read"] ELSE d
<1>1. held["cache_read"] \in Nat
  BY MeasKinds DEF A!Counts
<1>2. d \in Nat \cup {Unknown}
  BY MeasKinds DEF M!MaybeCounts
<1>3. held["cache_read"] # Unknown
  BY <1>1, MeasKinds
<1>4. CASE M!Stale(t)
  <2>1. M!Largest({held["cache_read"], Unknown}) = held["cache_read"]
    BY <1>1, <1>3, LargestIs
  <2>2. QED
    BY <1>1, <1>4, <2>1 DEF M!Read
<1>5. CASE ~M!Stale(t)
  <2>1. M!Read(t, d) = IF d = Unknown THEN held["cache_read"]
                           ELSE IF held["cache_read"] >= d THEN held["cache_read"] ELSE d
    BY <1>1, <1>2, <1>3, <1>5, LargestIs DEF M!Read
  <2>2. QED
    BY <1>1, <1>2, <1>5, <2>1
<1>6. QED
  BY <1>4, <1>5

\* What a report of the whole prompt changes, and what is said with it.
LEMMA IncludesSays ==
  ASSUME MeasInv, NEW t \in M!MaybeCounts, NEW a \in M!MaybeCounts, NEW b \in M!MaybeCounts, M!Includes(t, a, b),
         NEW d, d = M!Largest({a, b})
  PROVE  /\ d \in M!MaybeCounts /\ inclusive /\ inclusive' = inclusive
         /\ M!Report(M!Parts(t, d), M!MeasuredOf(M!Whole(t), M!Parts(t, d), d))
         /\ prompt' = M!Whole(t)
         /\ fits' = (fits /\ ~M!Stale(t) /\ (prompt' # Unknown => M!Read(t, d) <= prompt'))
         /\ figured' \in [totals : SUBSET Prompts, reads : SUBSET Prompts]
         /\ figured'.totals = figured.totals \cup ({t} \ {Unknown})
         /\ figured.reads \subseteq figured'.reads /\ d \in figured'.reads \cup {Unknown}
         /\ \A x \in figured'.reads : x \in figured.reads \/ (d \in Nat /\ d >= x)
<1>1. d = IF a = Unknown THEN b ELSE IF b = Unknown THEN a ELSE IF a >= b THEN a ELSE b
  BY MeasKinds, LargestIs DEF M!MaybeCounts
<1>2. d \in {a, b}
  BY <1>1
<1>3. {t} \in SUBSET M!MaybeCounts /\ {a, b} \in SUBSET M!MaybeCounts
  OBVIOUS
<1>4. M!Tell({t}, {a, b}) /\ M!MeasuresTypeOK
  BY DEF M!Includes, MeasInv
<1>5. /\ figured' \in [totals : SUBSET Prompts, reads : SUBSET Prompts]
      /\ figured'.totals = figured.totals \cup ({t} \ {Unknown})
      /\ figured'.reads = figured.reads \cup ({a, b} \ {Unknown})
  BY <1>3, <1>4, MeasTell
<1>6. ASSUME NEW x \in {a, b}, x # Unknown
      PROVE  d \in Nat /\ d >= x
  <2>1. a \in Nat \cup {Unknown} /\ b \in Nat \cup {Unknown}
    BY MeasKinds DEF M!MaybeCounts
  <2>2. QED
    BY <1>1, <1>6, <2>1
<1>7. d \in M!MaybeCounts /\ d \in figured'.reads \cup {Unknown} /\ figured.reads \subseteq figured'.reads
  BY <1>2, <1>5
<1>8. \A x \in figured'.reads : x \in figured.reads \/ (d \in Nat /\ d >= x)
  BY <1>5, <1>6
<1>9. /\ inclusive /\ inclusive' = inclusive
      /\ M!Report(M!Parts(t, d), M!MeasuredOf(M!Whole(t), M!Parts(t, d), d))
      /\ prompt' = M!Whole(t)
      /\ fits' = (fits /\ ~M!Stale(t) /\ (prompt' # Unknown => M!Read(t, d) <= prompt'))
  BY DEF M!Includes
<1>10. QED
  BY <1>5, <1>7, <1>8, <1>9

\* What a report of a prompt not known yet leaves of the counts.
LEMMA IncludesUnknown ==
  ASSUME MeasInv, NEW t \in M!MaybeCounts, NEW a \in M!MaybeCounts, NEW b \in M!MaybeCounts, M!Includes(t, a, b),
         M!Whole(t) = Unknown
  PROVE  MeasInv'
<1> DEFINE d == M!Largest({a, b})
<1>1. /\ d \in M!MaybeCounts /\ inclusive /\ inclusive' = inclusive
      /\ M!Report(M!Parts(t, d), M!MeasuredOf(M!Whole(t), M!Parts(t, d), d))
      /\ prompt' = M!Whole(t)
      /\ fits' = (fits /\ ~M!Stale(t) /\ (prompt' # Unknown => M!Read(t, d) <= prompt'))
      /\ figured' \in [totals : SUBSET Prompts, reads : SUBSET Prompts]
      /\ figured'.totals = figured.totals \cup ({t} \ {Unknown})
      /\ figured.reads \subseteq figured'.reads /\ d \in figured'.reads \cup {Unknown}
      /\ \A x \in figured'.reads : x \in figured.reads \/ (d \in Nat /\ d >= x)
  BY IncludesSays
<1> HIDE DEF d
<1>2. prompt = Unknown /\ t = Unknown
  BY DEF M!Whole, M!Stale
<1>3. A!TypeOK /\ TraceShape /\ M!MeasuresTypeOK /\ M!MeasuredWasSaid /\ MeasParts
  BY <1>1 DEF MeasInv
<1>4. held \in A!Counts /\ measured \in A!Maybe
  BY <1>3 DEF A!TypeOK
<1>5. held["input"] = 0 /\ figured.totals = {}
  BY <1>2, <1>3 DEF MeasParts
<1>6. PICK r \in Nat : r = held["cache_read"]
  BY <1>4, MeasKinds DEF A!Counts
<1>7. PICK u : u = M!Parts(t, d)
  OBVIOUS
<1>8. u \in A!Counts /\ u["input"] = 0 /\ u["cache_read"] = IF d = Unknown THEN r ELSE d
  BY <1>1, <1>4, <1>5, <1>6, <1>7, PartsUnknown
<1>9. PICK e : e = M!MeasuredOf(M!Whole(t), u, d)
  OBVIOUS
<1>10. e["input"] = Unknown /\ e["cache_read"] = d
  BY <1>6, <1>8, <1>9, MeasKinds DEF M!MeasuredOf
<1>11. A!TypeOK' /\ TraceShape' /\ MeasNow(u, e) /\ at = "dispatched" /\ at' = at
  BY <1>1, <1>3, <1>7, <1>8, <1>9, MeasReports
<1>12. d # Unknown => d \in Nat
  BY <1>1, MeasKinds DEF M!MaybeCounts
<1>13. PICK q \in Nat : q = (IF d = Unknown THEN r ELSE IF d >= r THEN d ELSE r)
  BY <1>12
<1>14. PICK h : h = held' /\ h = IF u["input"] + u["cache_read"] >= held["input"] + held["cache_read"] THEN u ELSE held
  BY <1>11 DEF MeasNow
<1>15. h["input"] = 0 /\ h["cache_read"] = q
  <2>1. PICK s \in Nat : s = u["cache_read"]
    BY <1>8, <1>12
  <2>2. CASE s >= r
    BY <1>5, <1>6, <1>8, <1>12, <1>13, <1>14, <2>1, <2>2
  <2>3. CASE ~(s >= r)
    BY <1>5, <1>6, <1>8, <1>12, <1>13, <1>14, <2>1, <2>3
  <2>4. QED
    BY <2>2, <2>3
<1>16. measured["input"] = Unknown
  BY <1>1, <1>3, <1>5 DEF M!MeasuredWasSaid
<1>17. measured["cache_read"] \in figured'.reads \cup {Unknown}
  BY <1>1, <1>3 DEF M!MeasuredWasSaid
<1>18. PICK m : m = measured' /\ m["input"] = Unknown
                /\ m["cache_read"] \in {Unknown, q} /\ m["cache_read"] \in figured'.reads \cup {Unknown}
  <2>1. "input" \in Columns /\ "cache_read" \in Columns /\ Unknown # 0
    BY MeasKinds
  <2>2. measured'["input"] = Unknown
    BY <1>10, <1>11, <1>14, <1>15, <1>16, <2>1 DEF MeasNow
  <2>3. measured'["cache_read"] = IF d = q THEN q
      ELSE IF measured["cache_read"] = q THEN measured["cache_read"]
                                  ELSE Unknown
    BY <1>10, <1>11, <1>14, <1>15, <2>1 DEF MeasNow
  <2>4. QED
    BY <1>1, <1>17, <2>2, <2>3
<1>19. fits' = fits
  BY <1>1, <1>2, <1>3 DEF M!Stale, M!MeasuresTypeOK
<1>20. figured'.totals = {} /\ prompt' = Unknown
  BY <1>1, <1>2, <1>5
<1>21. M!MeasuredWasSaid' /\ M!MeasuresTypeOK'
  BY <1>1, <1>3, <1>18, <1>19, <1>20 DEF M!MeasuredWasSaid, M!MeasuresTypeOK, M!MaybeCounts
<1>22. PICK top \in Nat : top \in figured.reads \cup {0} /\ \A x \in figured.reads : top >= x
  <2>1. figured.reads \subseteq Nat
    BY <1>3, MeasKinds DEF M!MeasuresTypeOK
  <2>2. QED
    BY <1>3, <2>1 DEF MeasParts
<1>23. figured'.reads \subseteq Nat
  BY <1>1, MeasKinds
<1>24. \E z \in figured'.reads \cup {0} : \A x \in figured'.reads : z >= x
  <2>1. CASE d \in Nat /\ d >= top
    <3>1. \A x \in figured'.reads : d >= x
      BY <1>1, <1>22, <1>23, <2>1
    <3>2. d \in figured'.reads
      BY <1>1, <2>1, MeasKinds
    <3>3. QED
      BY <3>1, <3>2
  <2>2. CASE ~(d \in Nat /\ d >= top)
    <3>1. \A x \in figured'.reads : top >= x
      BY <1>1, <1>22, <1>23, <2>2
    <3>2. top \in figured'.reads \cup {0}
      BY <1>1, <1>22
    <3>3. QED
      BY <3>1, <3>2
  <2>3. QED
    BY <2>1, <2>2
<1>25. \E z \in figured'.totals \cup figured'.reads \cup {0} : z >= h["input"] + h["cache_read"]
  <2>1. CASE q = r
    <3>1. PICK z \in figured.totals \cup figured.reads \cup {0} : z >= held["input"] + held["cache_read"]
      BY <1>3 DEF MeasParts
    <3>2. z \in figured'.reads \cup {0}
      BY <1>1, <1>5, <3>1
    <3>3. z >= h["input"] + h["cache_read"]
      BY <1>5, <1>6, <1>15, <2>1, <3>1
    <3>4. QED
      BY <3>2, <3>3
  <2>2. CASE q # r
    <3>1. d = q
      BY <1>13, <2>2
    <3>2. d \in figured'.reads
      BY <1>1, <3>1, MeasKinds
    <3>3. q >= h["input"] + h["cache_read"]
      BY <1>15
    <3>4. QED
      BY <3>1, <3>2, <3>3
  <2>3. QED
    BY <2>1, <2>2
<1>26. ASSUME fits
       PROVE  q \in figured'.reads \cup {0} /\ \A x \in figured'.reads : q >= x
  <2>1. r \in figured.reads \cup {0} /\ \A x \in figured.reads : r >= x
    BY <1>3, <1>6, <1>26 DEF MeasParts
  <2>2. q \in figured'.reads \cup {0}
    BY <1>1, <1>13, <2>1
  <2>3. q >= r /\ (d \in Nat => q >= d)
    BY <1>12, <1>13, MeasKinds
  <2>4. \A x \in figured'.reads : q >= x
    BY <1>1, <1>23, <2>1, <2>3
  <2>5. QED
    BY <2>2, <2>4
<1>27. MeasParts'
  <2>1. \A c \in Columns : m[c] \in {Unknown, h[c]}
    BY <1>15, <1>18, MeasKinds
  <2>2. QED
    BY <1>14, <1>15, <1>18, <1>19, <1>20, <1>24, <1>25, <1>26, <2>1 DEF MeasParts
<1>28. QED
  BY <1>1, <1>11, <1>21, <1>27 DEF MeasInv

\* What a report makes of the prompt that is known: no total is above it, and it was said.
LEMMA WholeGrows ==
  ASSUME MeasInv, inclusive, NEW t \in M!MaybeCounts, NEW w \in Nat, M!Whole(t) = w
  PROVE  /\ w \in figured.totals \cup ({t} \ {Unknown})
         /\ \A x \in figured.totals \cup ({t} \ {Unknown}) : w >= x
         /\ w \in Prompts
         /\ prompt # Unknown => w >= prompt
         /\ prompt = Unknown => ~M!Stale(t) /\ t = w
         /\ M!Stale(t) => w = prompt
<1>1. MeasParts /\ M!MeasuresTypeOK
  BY DEF MeasInv
<1>2. figured.totals \subseteq Prompts /\ prompt \in Prompts \cup {Unknown} /\ t \in Prompts \cup {Unknown}
  BY <1>1 DEF M!MeasuresTypeOK, M!MaybeCounts
<1>3. figured.totals \subseteq Nat /\ prompt \in Nat \cup {Unknown} /\ t \in Nat \cup {Unknown}
    /\ w # Unknown
  BY <1>2, MeasKinds
<1>4. prompt = Unknown => figured.totals = {}
  BY <1>1 DEF MeasParts
<1>5. prompt # Unknown => prompt \in figured.totals /\ \A x \in figured.totals : prompt >= x
  BY <1>1 DEF MeasParts
<1>6. CASE prompt = Unknown
  <2>1. w = t /\ ~M!Stale(t)
    BY <1>3, <1>6 DEF M!Whole, M!Stale
  <2>2. QED
    BY <1>2, <1>3, <1>4, <1>6, <2>1
<1>7. CASE prompt # Unknown
  <2>1. PICK k \in Nat : k = prompt /\ k \in figured.totals /\ \A x \in figured.totals : k >= x
    BY <1>3, <1>5, <1>7
  <2>2. w = IF t = Unknown \/ t < k THEN k ELSE t
    BY <1>7, <2>1 DEF M!Whole, M!Stale
  <2>3. M!Stale(t) => t # Unknown /\ t < k
    BY <2>1 DEF M!Stale
  <2>4. CASE t = Unknown
    <3>1. w = k /\ ~M!Stale(t) /\ {t} \ {Unknown} = {}
      BY <2>2, <2>3, <2>4
    <3>2. w \in Prompts /\ w >= prompt
      BY <1>2, <1>3, <2>1, <3>1
    <3>3. QED
      BY <1>7, <2>1, <3>1, <3>2
  <2>5. CASE t \in Nat
    <3>1. w >= t /\ w >= k
      <4>1. PICK s \in Nat : s = t
        BY <2>5
      <4>2. t # Unknown
        BY <2>5, MeasKinds
      <4>3. w = IF s < k THEN k ELSE s
        BY <2>2, <4>1, <4>2
      <4>4. w >= s /\ w >= k
        BY <4>3
      <4>5. QED
        BY <4>1, <4>4
    <3>2. \A x \in figured.totals : w >= x
      BY <1>3, <2>1, <3>1
    <3>3. \A x \in {t} \ {Unknown} : w >= x
      BY <3>1
    <3>4. w \in {k, t} /\ t # Unknown
      BY <2>2, <2>5, MeasKinds
    <3>5. w \in figured.totals \cup ({t} \ {Unknown})
      BY <2>1, <3>4
    <3>6. w \in Prompts
      BY <1>2, <3>5
    <3>7. M!Stale(t) => w = k
      BY <2>2, <2>3
    <3>8. QED
      BY <1>7, <2>1, <3>1, <3>2, <3>3, <3>5, <3>6, <3>7
  <2>6. QED
    BY <1>3, <2>4, <2>5
<1>8. QED
  BY <1>6, <1>7

\* What a report of a known prompt leaves of the counts.
LEMMA IncludesKnown ==
  ASSUME MeasInv, NEW t \in M!MaybeCounts, NEW a \in M!MaybeCounts, NEW b \in M!MaybeCounts, M!Includes(t, a, b),
         NEW w \in Nat, M!Whole(t) = w
  PROVE  MeasInv'
<1> DEFINE d == M!Largest({a, b})
<1>1. /\ d \in M!MaybeCounts /\ inclusive /\ inclusive' = inclusive
      /\ M!Report(M!Parts(t, d), M!MeasuredOf(M!Whole(t), M!Parts(t, d), d))
      /\ prompt' = M!Whole(t)
      /\ fits' = (fits /\ ~M!Stale(t) /\ (prompt' # Unknown => M!Read(t, d) <= prompt'))
      /\ figured' \in [totals : SUBSET Prompts, reads : SUBSET Prompts]
      /\ figured'.totals = figured.totals \cup ({t} \ {Unknown})
      /\ figured.reads \subseteq figured'.reads /\ d \in figured'.reads \cup {Unknown}
      /\ \A x \in figured'.reads : x \in figured.reads \/ (d \in Nat /\ d >= x)
  BY IncludesSays
<1> HIDE DEF d
<1>2. /\ w \in figured'.totals /\ (\A x \in figured'.totals : w >= x) /\ w \in Prompts
      /\ prompt # Unknown => w >= prompt
      /\ prompt = Unknown => ~M!Stale(t) /\ t = w
      /\ M!Stale(t) => w = prompt
  BY <1>1, WholeGrows
<1>3. A!TypeOK /\ TraceShape /\ M!MeasuresTypeOK /\ M!MeasuredWasSaid /\ MeasParts
  BY <1>1 DEF MeasInv
<1>4. held \in A!Counts /\ measured \in A!Maybe
  BY <1>3 DEF A!TypeOK
<1>5. PICK i \in Nat, r \in Nat : i = held["input"] /\ r = held["cache_read"]
  BY <1>4, MeasKinds DEF A!Counts
<1>6. PICK n \in Nat : n = M!Read(t, d)
  BY <1>1, <1>4, ReadIs
<1>7. n = IF M!Stale(t) \/ d = Unknown THEN r ELSE IF r >= d THEN r ELSE d
  BY <1>1, <1>4, <1>5, <1>6, ReadIs
<1>8. d # Unknown => d \in Nat
  BY <1>1, MeasKinds DEF M!MaybeCounts
<1>9. n \in {r, d} /\ (~M!Stale(t) => n >= r /\ (d # Unknown => n >= d))
  BY <1>7, <1>8
<1>10. PICK u : u = M!Parts(t, d)
  OBVIOUS
<1>11. PICK ui \in Nat, ur \in Nat : /\ ui = (IF n <= w THEN w - n ELSE 0)
                                     /\ ur = (IF n <= w THEN n ELSE w)
  <2>1. (IF n <= w THEN w - n ELSE 0) \in Nat /\ (IF n <= w THEN n ELSE w) \in Nat
    OBVIOUS
  <2>2. QED
    BY <2>1
<1>12. u \in A!Counts /\ u["input"] = ui /\ u["cache_read"] = ur
  BY <1>1, <1>4, <1>6, <1>10, <1>11, PartsKnown
<1>13. ui + ur = w
  BY <1>11
<1>14. PICK e : e = M!MeasuredOf(M!Whole(t), u, d)
  OBVIOUS
<1>15. w # Unknown /\ "input" \in Columns /\ "cache_read" \in Columns /\ \A x \in Nat : x # Unknown
  BY MeasKinds
<1>16. /\ e["input"] = (IF ur \in {d, measured["cache_read"]} THEN ui ELSE Unknown)
       /\ e["cache_read"] = (IF d = ur THEN d ELSE Unknown)
  BY <1>12, <1>14, <1>15, MeasKinds DEF M!MeasuredOf
<1>17. A!TypeOK' /\ TraceShape' /\ MeasNow(u, e) /\ at = "dispatched" /\ at' = at
  BY <1>1, <1>3, <1>10, <1>12, <1>14, MeasReports
<1>18. PICK h : h = held' /\ h = IF w >= i + r THEN u ELSE held
  BY <1>5, <1>12, <1>13, <1>17 DEF MeasNow
<1>19. PICK hi \in Nat, hr \in Nat : /\ hi = h["input"] /\ hr = h["cache_read"]
                                     /\ IF w >= i + r THEN hi = ui /\ hr = ur ELSE hi = i /\ hr = r
  <2>1. CASE w >= i + r
    BY <1>12, <1>18, <2>1
  <2>2. CASE ~(w >= i + r)
    BY <1>5, <1>18, <2>2
  <2>3. QED
    BY <2>1, <2>2
<1>20. PICK mi, mr : mi = measured["input"] /\ mr = measured["cache_read"]
  OBVIOUS
<1>21. mi \in {Unknown, i} /\ mr \in {Unknown, r}
  BY <1>3, <1>5, <1>15, <1>20 DEF MeasParts
<1>22. PICK m : /\ m = measured'
                /\ m["input"] = (IF e["input"] = hi THEN hi ELSE IF mi = hi THEN hi ELSE Unknown)
                /\ m["cache_read"] = (IF e["cache_read"] = hr THEN hr ELSE IF mr = hr THEN hr ELSE Unknown)
  <2>1. measured'["input"] = (IF e["input"] = hi THEN hi ELSE IF mi = hi THEN hi ELSE Unknown)
    BY <1>15, <1>17, <1>18, <1>19, <1>20 DEF MeasNow
  <2>2. measured'["cache_read"] = (IF e["cache_read"] = hr THEN hr ELSE IF mr = hr THEN hr ELSE Unknown)
    BY <1>15, <1>17, <1>18, <1>19, <1>20 DEF MeasNow
  <2>3. QED
    BY <2>1, <2>2
<1>23. prompt' = w /\ fits' \in BOOLEAN
  BY <1>1
<1>24. mr \in figured'.reads \cup {Unknown}
  BY <1>1, <1>3, <1>20 DEF M!MeasuredWasSaid
<1>25. m["cache_read"] \in figured'.reads \cup {Unknown}
  BY <1>1, <1>15, <1>16, <1>22, <1>24
<1>26. m["input"] # Unknown => \E x \in figured'.totals, y \in figured'.reads : m["input"] + y = x
  <2>1. CASE e["input"] = hi
    <3>1. hi = ui /\ ur \in {d, mr}
      BY <1>15, <1>16, <1>20, <2>1
    <3>2. ur \in figured'.reads
      BY <1>1, <1>15, <1>24, <3>1
    <3>3. m["input"] + ur = w
      BY <1>13, <1>22, <2>1, <3>1
    <3>4. QED
      BY <1>2, <3>2, <3>3
  <2>2. CASE e["input"] # hi /\ mi = hi
    <3>1. mi # Unknown /\ m["input"] = mi
      BY <1>15, <1>22, <2>2
    <3>2. PICK x \in figured.totals, y \in figured.reads : mi + y = x
      BY <1>1, <1>3, <1>20, <3>1 DEF M!MeasuredWasSaid
    <3>3. x \in figured'.totals /\ y \in figured'.reads
      BY <1>1
    <3>4. QED
      BY <3>1, <3>2, <3>3
  <2>3. QED
    BY <1>22, <2>1, <2>2
<1>27. M!MeasuredWasSaid' /\ M!MeasuresTypeOK'
  BY <1>1, <1>2, <1>22, <1>23, <1>25, <1>26 DEF M!MeasuredWasSaid, M!MeasuresTypeOK, M!MaybeCounts
<1>28. hi + hr >= w
  <2>1. CASE w >= i + r
    BY <1>13, <1>19, <2>1
  <2>2. CASE ~(w >= i + r)
    BY <1>19, <2>2
  <2>3. QED
    BY <2>1, <2>2
<1>29. PICK top \in Nat : top \in figured.reads \cup {0} /\ \A x \in figured.reads : top >= x
  <2>1. figured.reads \subseteq Nat
    BY <1>3, MeasKinds DEF M!MeasuresTypeOK
  <2>2. QED
    BY <1>3, <2>1 DEF MeasParts
<1>30. figured'.reads \subseteq Nat
  BY <1>1, MeasKinds
<1>31. \E z \in figured'.reads \cup {0} : \A x \in figured'.reads : z >= x
  <2>1. CASE d \in Nat /\ d >= top
    <3>1. \A x \in figured'.reads : d >= x
      BY <1>1, <1>29, <1>30, <2>1
    <3>2. d \in figured'.reads
      BY <1>1, <1>15, <2>1
    <3>3. QED
      BY <3>1, <3>2
  <2>2. CASE ~(d \in Nat /\ d >= top)
    <3>1. \A x \in figured'.reads : top >= x
      BY <1>1, <1>29, <1>30, <2>2
    <3>2. top \in figured'.reads \cup {0}
      BY <1>1, <1>29
    <3>3. QED
      BY <3>1, <3>2
  <2>3. QED
    BY <2>1, <2>2
<1>32. \E z \in figured'.totals \cup figured'.reads \cup {0} : z >= h["input"] + h["cache_read"]
  <2>1. CASE w >= i + r
    <3>1. w >= h["input"] + h["cache_read"]
      BY <1>13, <1>19, <2>1
    <3>2. QED
      BY <1>2, <3>1
  <2>2. CASE ~(w >= i + r)
    <3>1. PICK z \in figured.totals \cup figured.reads \cup {0} : z >= held["input"] + held["cache_read"]
      BY <1>3 DEF MeasParts
    <3>2. z \in figured'.totals \cup figured'.reads \cup {0}
      BY <1>1, <3>1
    <3>3. z >= h["input"] + h["cache_read"]
      BY <1>5, <1>19, <2>2, <3>1
    <3>4. QED
      BY <3>2, <3>3
  <2>3. QED
    BY <2>1, <2>2
<1>33. ASSUME fits'
       PROVE  /\ hr \in figured'.reads \cup {0} /\ \A x \in figured'.reads : hr >= x
              /\ hi + hr = w
              /\ m["input"] # Unknown => m["cache_read"] # Unknown
  <2>1. fits /\ ~M!Stale(t) /\ n <= w
    BY <1>1, <1>6, <1>15, <1>23, <1>33
  <2>2. r \in figured.reads \cup {0} /\ \A x \in figured.reads : r >= x
    BY <1>3, <1>5, <2>1 DEF MeasParts
  <2>3. prompt # Unknown => i + r <= w
    <3>1. ASSUME prompt # Unknown
          PROVE  i + r <= w
      <4>1. i + r = prompt
        BY <1>3, <1>5, <2>1, <3>1 DEF MeasParts
      <4>2. w >= i + r
        BY <1>2, <3>1, <4>1
      <4>3. QED
        BY <4>2
    <3>2. QED
      BY <3>1
  <2>4. prompt = Unknown => i = 0 /\ mi = Unknown
    <3>1. ASSUME prompt = Unknown
          PROVE  i = 0 /\ mi = Unknown
      <4>1. i = 0 /\ figured.totals = {}
        BY <1>3, <1>5, <3>1 DEF MeasParts
      <4>2. mi = Unknown
        BY <1>1, <1>3, <1>20, <4>1 DEF M!MeasuredWasSaid
      <4>3. QED
        BY <4>1, <4>2
    <3>2. QED
      BY <3>1
  <2>5. n >= r /\ (d # Unknown => n >= d)
    BY <1>9, <2>1
  <2>6. w >= i + r
    BY <2>1, <2>3, <2>4, <2>5
  <2>7. hi = ui /\ hr = n /\ ur = n
    BY <1>11, <1>19, <2>1, <2>6
  <2>8. n \in figured'.reads \cup {0}
    BY <1>1, <1>9, <1>15, <2>2
  <2>9. \A x \in figured'.reads : n >= x
    BY <1>1, <1>8, <1>15, <1>30, <2>2, <2>5
  <2>10. hi + hr = w
    BY <1>13, <2>7
  <2>11. ASSUME m["input"] # Unknown
         PROVE  m["cache_read"] # Unknown
    <3>1. CASE n = d
      BY <1>15, <1>16, <1>22, <2>7, <3>1
    <3>2. CASE n = mr
      BY <1>15, <1>22, <2>7, <3>2
    <3>3. CASE n # d /\ n # mr
      <4>1. e["input"] = Unknown
        BY <1>16, <1>20, <2>7, <3>3
      <4>2. mi # Unknown
        BY <1>15, <1>22, <2>11, <4>1
      <4>3. mr # Unknown
        BY <1>3, <1>20, <2>1, <4>2 DEF MeasParts
      <4>4. n = r /\ mr = r
        BY <1>9, <1>21, <3>3, <4>3
      <4>5. QED
        BY <3>3, <4>4
    <3>4. QED
      BY <3>1, <3>2, <3>3
  <2>12. QED
    BY <2>7, <2>8, <2>9, <2>10, <2>11
<1>34. MeasParts'
  <2>1. \A c \in Columns : m[c] \in {Unknown, h[c]}
    BY <1>19, <1>22, MeasKinds
  <2>2. h["input"] + h["cache_read"] >= w /\ prompt' # Unknown
    BY <1>15, <1>19, <1>23, <1>28
  <2>3. ASSUME fits'
        PROVE  /\ h["cache_read"] \in figured'.reads \cup {0}
                  /\ \A x \in figured'.reads : h["cache_read"] >= x
               /\ h["input"] + h["cache_read"] = prompt'
               /\ m["input"] # Unknown => m["cache_read"] # Unknown
    BY <1>19, <1>23, <1>33, <2>3
  <2>4. QED
    BY <1>2, <1>18, <1>22, <1>23, <1>31, <1>32, <2>1, <2>2, <2>3 DEF MeasParts
<1>35. QED
  BY <1>1, <1>17, <1>27, <1>34 DEF MeasInv

\* A report of the whole prompt, in a dialect that says it.
LEMMA MeasIncludes ==
  ASSUME MeasInv, NEW t \in M!MaybeCounts, NEW a \in M!MaybeCounts, NEW b \in M!MaybeCounts, M!Includes(t, a, b)
  PROVE  MeasInv'
<1>1. t \in Nat \cup {Unknown} /\ prompt \in Nat \cup {Unknown}
  BY MeasKinds DEF MeasInv, M!MeasuresTypeOK, M!MaybeCounts
<1>2. M!Whole(t) \in Nat \cup {Unknown}
  BY <1>1 DEF M!Whole
<1>3. QED
  BY <1>2, IncludesUnknown, IncludesKnown

\* Nothing is known or measured of a prompt before a report.
LEMMA MeasBegins == M!MeasuresInit => MeasInv
<1>1. SUFFICES ASSUME M!MeasuresInit
               PROVE  MeasInv
  OBVIOUS
<1>2. A!Init
  <2>1. M!Zero = A!Zero /\ M!Unsaid = A!Unsaid /\ M!Undispatched = A!Undispatched
    BY DEF M!Zero, A!Zero, M!Unsaid, A!Unsaid, M!Undispatched, A!Undispatched
  <2>2. M!Init
    BY <1>1 DEF M!MeasuresInit
  <2>3. QED
    BY <2>1, <2>2 DEF M!Init, A!Init
<1>3. A!TypeOK /\ TraceShape
  BY <1>2, AccBegins DEF AccInv
<1>4. held = A!Zero /\ measured = A!Unsaid /\ at = "begun"
  BY <1>2 DEF A!Init
<1>5. held["input"] = 0 /\ held["cache_read"] = 0 /\ measured["input"] = Unknown
    /\ measured["cache_read"] = Unknown
      /\ \A c \in Columns : measured[c] = Unknown
  BY <1>4, MeasKinds DEF A!Zero, A!Unsaid
<1>6. /\ inclusive \in BOOLEAN /\ prompt = Unknown /\ figured = [totals |-> {}, reads |-> {}] /\ fits = TRUE
      /\ figured.totals = {} /\ figured.reads = {}
  BY <1>1 DEF M!MeasuresInit
<1>7. M!MeasuresTypeOK /\ M!MeasuredWasSaid
  BY <1>5, <1>6 DEF M!MeasuresTypeOK, M!MaybeCounts, M!MeasuredWasSaid
<1>8. MeasParts
  BY <1>5, <1>6 DEF MeasParts
<1>9. QED
  BY <1>3, <1>4, <1>6, <1>7, <1>8 DEF MeasInv

\* Every step of Measures leaves its invariant.
LEMMA MeasStep ==
  ASSUME MeasInv, M!MeasuresNext
  PROVE  MeasInv'
<1>1. CASE M!Dispatch /\ UNCHANGED <<inclusive, prompt, figured, fits>>
  BY <1>1, MeasDispatch
<1>2. CASE \E total, nested, other \in M!MaybeCounts : M!Includes(total, nested, other)
  BY <1>2, MeasIncludes
<1>3. CASE \E input, read \in M!MaybeCounts : M!Excludes(input, read)
  BY <1>3, MeasExcludes
<1>4. CASE M!SaysOutput
  BY <1>4, MeasOutput
<1>5. QED
  BY <1>1, <1>2, <1>3, <1>4 DEF M!MeasuresNext

\* The invariant is what the run checks.
LEMMA MeasSays == MeasInv => A!TypeOK /\ M!MeasuresTypeOK /\ M!MeasuredWasSaid /\ M!PartsOfWhole
<1>1. SUFFICES ASSUME MeasInv, inclusive
               PROVE  M!PartsOfWhole
  BY DEF MeasInv, M!PartsOfWhole
<1>2. MeasParts /\ M!MeasuresTypeOK /\ held \in A!Counts
  BY <1>1 DEF MeasInv, A!TypeOK
<1>3. figured.totals \in SUBSET Nat /\ figured.reads \in SUBSET Nat /\ Unknown \notin Nat
      /\ prompt \in Nat \cup {Unknown}
  BY <1>2, MeasKinds DEF M!MeasuresTypeOK, M!MaybeCounts
<1>4. PICK i \in Nat, r \in Nat : i = held["input"] /\ r = held["cache_read"] /\ M!Prompt(held) = i + r
  BY <1>2, MeasPrompt DEF A!Counts
<1>5. prompt = M!Largest(figured.totals)
  <2>1. M!Counted(figured.totals) = figured.totals
    BY <1>3 DEF M!Counted
  <2>2. CASE prompt = Unknown
    BY <1>2, <2>1, <2>2 DEF MeasParts, M!Largest
  <2>3. CASE prompt # Unknown
    <3>1. prompt \in figured.totals /\ \A y \in figured.totals : prompt >= y
      BY <1>2, <2>3 DEF MeasParts
    <3>2. M!Max(figured.totals) = prompt
      BY <1>3, <3>1, MaxIs
    <3>3. QED
      BY <2>1, <3>1, <3>2 DEF M!Largest
  <2>4. QED
    BY <2>2, <2>3
<1>6. PICK top \in Nat : top \in figured.reads \cup {0} /\ \A x \in figured.reads \cup {0} : top >= x
  <2>1. PICK m \in figured.reads \cup {0} : \A x \in figured.reads : m >= x
    BY <1>2 DEF MeasParts
  <2>2. m \in Nat /\ m >= 0
    BY <1>3, <2>1
  <2>3. QED
    BY <2>1, <2>2
<1>7. PICK most \in Nat : /\ most \in figured.totals \cup figured.reads \cup {0}
                          /\ \A x \in figured.totals \cup figured.reads \cup {0} : most >= x
  <2>1. CASE prompt = Unknown
    <3>1. figured.totals = {}
      BY <1>2, <2>1 DEF MeasParts
    <3>2. QED
      BY <1>6, <3>1
  <2>2. CASE prompt # Unknown
    <3>1. PICK k \in Nat : k \in figured.totals /\ \A x \in figured.totals : k >= x
      BY <1>2, <1>3, <2>2 DEF MeasParts
    <3>2. CASE k >= top
      <4>1. \A x \in figured.reads \cup {0} : k >= x
        BY <1>3, <1>6, <3>1, <3>2
      <4>2. QED
        BY <3>1, <4>1
    <3>3. CASE ~(k >= top)
      <4>1. \A x \in figured.totals : top >= x
        BY <1>3, <3>1, <3>3
      <4>2. QED
        BY <1>6, <4>1
    <3>4. QED
      BY <3>2, <3>3
  <2>3. QED
    BY <2>1, <2>2
<1>8. M!Prompt(held) <= M!Max(figured.totals \cup figured.reads \cup {0})
  <2>1. M!Max(figured.totals \cup figured.reads \cup {0}) = most
    <3>1. figured.totals \cup figured.reads \cup {0} \in SUBSET Nat
      BY <1>3
    <3>2. QED
      BY <1>7, <3>1, MaxIs
  <2>2. PICK z \in figured.totals \cup figured.reads \cup {0} : z >= i + r
    BY <1>2, <1>4 DEF MeasParts
  <2>3. PICK y \in Nat : y = z
    BY <1>3, <2>2
  <2>4. most >= y /\ y >= i + r
    BY <1>7, <2>2, <2>3
  <2>5. QED
    BY <1>4, <2>1, <2>4
<1>9. ASSUME fits
      PROVE  held["cache_read"] = M!Max(figured.reads \cup {0})
  <2>1. r \in figured.reads \cup {0} /\ \A x \in figured.reads \cup {0} : r >= x
    BY <1>2, <1>4, <1>9 DEF MeasParts
  <2>2. figured.reads \cup {0} \in SUBSET Nat
    BY <1>3
  <2>3. QED
    BY <1>4, <2>1, <2>2, MaxIs
<1>10. prompt # Unknown => M!Prompt(held) >= prompt
  BY <1>2, <1>4 DEF MeasParts
<1>11. fits /\ prompt # Unknown => M!Prompt(held) = prompt
  BY <1>2, <1>4 DEF MeasParts
<1>12. fits /\ measured["input"] # Unknown => measured["cache_read"] # Unknown
  BY <1>2 DEF MeasParts
<1>13. QED
  BY <1>5, <1>8, <1>9, <1>10, <1>11, <1>12 DEF M!PartsOfWhole

----------------------------------------------------------------------------
\* Turn, Accounting and Measures together.

\* Every step of an ask leaves its invariant.
LEMMA TurnStep ==
  ASSUME TurnInv, Next
  PROVE  TurnInv'
BY TurnTyped, TurnPaysStep, TurnHoldsStep DEF TurnInv

\* What is left alone is as it was.
LEMMA TurnStays ==
  ASSUME TurnInv, UNCHANGED asking
  PROVE  TurnInv'
<1>1. /\ phase' = phase /\ attempt' = attempt /\ budget' = budget /\ streamed' = streamed
      /\ stopped' = stopped /\ ended' = ended /\ paid' = paid /\ this' = this /\ why' = why
      /\ told' = told /\ text' = text /\ spent' = spent /\ end' = end /\ served' = served
  BY DEF asking, vars, try, tally, reader
<1>2. Billed' = Billed
  BY <1>1 DEF Billed, FoldFunction, FoldFunctionOnSet, MapThenFoldSet
<1>3. TypeOK'
  BY <1>1 DEF TurnInv, TypeOK
<1>4. TurnPays'
  BY <1>1, <1>2 DEF TurnInv, TurnPays
<1>5. TurnHolds'
  BY <1>1 DEF TurnInv, TurnHolds, WholeAnswer
<1>6. QED
  BY <1>3, <1>4, <1>5 DEF TurnInv

\* The same of the counts, ...
LEMMA AccStays ==
  ASSUME AccInv, UNCHANGED accounting
  PROVE  AccInv'
<1>1. /\ at' = at /\ turn' = turn /\ held' = held /\ measured' = measured /\ before' = before
      /\ now' = now /\ sum' = sum /\ trace' = trace /\ snapshot' = snapshot /\ log' = log /\ said' = said
  BY DEF accounting
<1>2. A!TypeOK' /\ TraceShape'
  BY <1>1 DEF AccInv, A!TypeOK, TraceShape
<1>3. A!Prompt(held)' = A!Prompt(held) /\ A!Prompt(now)' = A!Prompt(now) /\ A!Total(trace)' = A!Total(trace)
  BY <1>1
<1>4. AccCosts'
  BY <1>1, <1>3 DEF AccInv, AccCosts
<1>5. AccKnows'
  BY <1>1 DEF AccInv, AccKnows
<1>6. AccEnds'
  BY <1>1 DEF AccInv, AccEnds
<1>7. QED
  BY <1>2, <1>4, <1>5, <1>6 DEF AccInv

\* ... and of what is measured of them.
LEMMA MeasStays ==
  ASSUME MeasInv, UNCHANGED <<accounting, measuring>>
  PROVE  MeasInv'
<1>1. /\ at' = at /\ turn' = turn /\ held' = held /\ measured' = measured /\ before' = before
      /\ now' = now /\ sum' = sum /\ trace' = trace /\ snapshot' = snapshot /\ log' = log /\ said' = said
      /\ inclusive' = inclusive /\ prompt' = prompt /\ figured' = figured /\ fits' = fits
  BY DEF accounting, measuring
<1>2. A!TypeOK' /\ TraceShape'
  BY <1>1 DEF MeasInv, A!TypeOK, TraceShape
<1>3. M!MeasuresTypeOK' /\ M!MeasuredWasSaid'
  BY <1>1 DEF MeasInv, M!MeasuresTypeOK, M!MeasuredWasSaid
<1>4. (inclusive => MeasParts)'
  BY <1>1 DEF MeasInv, MeasParts
<1>5. QED
  BY <1>1, <1>2, <1>3, <1>4 DEF MeasInv

----------------------------------------------------------------------------
\* Framing.

\* What may be sent, and what may be written back or heard.
Sendable == F!Calls \cup {F!Empty, F!Short, F!Large}
Replies == [fault : {"half", "lost", "closed", "failed", "refused", "ok"}, wire : {1, 2}]

\* What the far end has of a frame, and what is on its way to it, one after the other.
Ahead(j) == IF j <= Len(got) THEN got[j] ELSE line[j - Len(got)]
Left == Len(got) + Len(line)

\* The places at which the frames begin among all the bytes that are or will be sent, the first that
\* is not answered where what is left begins: what is left is those frames, and the last of them cut
\* short only by who has gone.
Laid(s) ==
  LET from == s[Len(back) + 1] IN
  /\ \A i \in 1..Len(frames) : s[i + 1] = s[i] + Len(frames[i]) /\ s[i + 1] <= s[Len(frames) + 1]
  /\ \A i \in 1..Len(frames) : \A b \in 1..Len(frames[i]) : \A j \in 1..Left :
       from + j = s[i] + b => Ahead(j) = frames[i][b]
  /\ from + Left <= s[Len(frames) + 1]
  /\ ~hungUp => from + Left = s[Len(frames) + 1]

\* While the far end reads, every frame before the one it is at was a call, and answered.
InHand ==
  far # "closed" =>
    /\ \A i \in DOMAIN back : i \in DOMAIN frames /\ frames[i] \in F!Calls /\ back[i] # F!Half
    /\ far = "idle" => got = <<>>
    /\ far = "rest" => Len(back) + 1 \in DOMAIN frames /\ Len(got) \in 1..Len(frames[Len(back) + 1])
    /\ \E s \in [Nat -> Nat] : Laid(s)

LineKinds ==
  /\ caller \in {"anything", "stream"} /\ hungUp \in BOOLEAN /\ far \in {"idle", "rest", "closed"}
  /\ frames \in Seq(Sendable) /\ Len(frames) <= Frames
  /\ line \in Seq(0..Most) /\ got \in Seq(0..Most) /\ Len(got) <= 4
  /\ heard \in Seq(Replies) /\ back \in Seq(Replies)

\* A line that is open gave every call its reply; of one that is not, the last call may have none.
LineHeard ==
  caller = "stream" =>
    /\ \A i \in DOMAIN heard :
         /\ heard[i] \notin {F!Lost, F!Closed} => i \in DOMAIN frames /\ heard[i] = F!Means(frames[i])
         /\ i > 1 /\ heard[i] # F!Closed => heard[i - 1] \notin {F!Lost, F!Closed}
    /\ ~hungUp => \A i \in DOMAIN heard : heard[i] \notin {F!Lost, F!Closed}

LineInv == LineKinds /\ InHand /\ LineHeard /\ F!RepliesInStep

LEMMA MostIs == Most \in Nat /\ Most >= 2
  BY ProviderKinds DEF F!FramingKinds

\* What each frame is made of.
LEMMA FramesAre ==
  ASSUME NEW f \in Sendable
  PROVE  /\ f \in Seq(0..Most) /\ Len(f) \in Nat
         /\ f \in F!Calls => Len(f) = 4 /\ f[1] = 0 /\ f[2] = 2 /\ f[3] \in {1, 2} /\ f[4] \in {0, 1, 2}
         /\ f \notin F!Calls => \/ f = F!Empty /\ Len(f) = 2 /\ f[1] = 0 /\ f[2] = 0
                                \/ f = F!Short /\ Len(f) = 3 /\ f[1] = 0 /\ f[2] = 1 /\ f[3] = 1
                                \/ f = F!Large /\ Len(f) = 5 /\ f[1] = 1 /\ f[2] = 0
<1>1. CASE f \in F!Calls
  <2>1. PICK w \in {1, 2}, asks \in {0, 1, 2} : f = <<0, 2, w, asks>>
    BY <1>1 DEF F!Calls, F!Json, F!Cbor, F!Plain, F!NewerFamily, F!ReplyTooLarge
  <2>2. 0 \in 0..Most /\ 2 \in 0..Most /\ w \in 0..Most /\ asks \in 0..Most
    BY <2>1, MostIs
  <2>3. f \in Seq(0..Most)
    BY <2>1, <2>2
  <2>4. QED
    BY <1>1, <2>1, <2>3
<1>2. CASE f \notin F!Calls
  <2>1. f = <<0, 0>> \/ f = <<0, 1, 1>> \/ f = <<1, 0, 0, 2, 1>>
    BY <1>2 DEF Sendable, F!Empty, F!Short, F!Large, F!Json
  <2>2. 0 \in 0..Most /\ 1 \in 0..Most /\ 2 \in 0..Most
    BY MostIs
  <2>3. f \in Seq(0..Most)
    <3>1. CASE f = <<0, 0>>
      BY <2>2, <3>1
    <3>2. CASE f = <<0, 1, 1>>
      BY <2>2, <3>2
    <3>3. CASE f = <<1, 0, 0, 2, 1>>
      BY <2>2, <3>3
    <3>4. QED
      BY <2>1, <3>1, <3>2, <3>3
  <2>4. QED
    BY <1>2, <2>1, <2>3 DEF Sendable, F!Empty, F!Short, F!Large, F!Json
<1>3. QED
  BY <1>1, <1>2

\* A beginning of a frame is refused or whole when it is as much of the frame as the far end reads.
LEMMA ReadsAre ==
  ASSUME NEW f \in Sendable, NEW g \in Seq(0..Most), Len(g) \in 1..Len(f), Len(g) <= 4,
         \A b \in 1..Len(g) : g[b] = f[b]
  PROVE  /\ ~F!Refuses(g) /\ ~F!Whole(g) => Len(g) < Len(f) /\ Len(g) < 4
         /\ F!Unreadable(g) => F!Means(f) = F!Unread(g)
         /\ F!Whole(g) /\ F!Decodes(g) => f \in F!Calls /\ Len(g) = 4 /\ F!Means(f) = F!Answered(g)
<1> DEFINE two == Len(g) >= 2
<1>1. two => g[1] = f[1] /\ g[2] = f[2]
  OBVIOUS
<1>2. CASE f \in F!Calls
  <2>1. Len(f) = 4 /\ f[1] = 0 /\ f[2] = 2 /\ f[3] \in {1, 2} /\ f[4] \in {0, 1, 2}
    BY <1>2, FramesAre
  <2>2. two => F!Expecting(g) = 2
    BY <1>1, <2>1, MostIs DEF F!Expecting
  <2>3. ~F!Refuses(g)
    BY <2>2, MostIs DEF F!Refuses
  <2>4. F!Whole(g) <=> Len(g) = 4
    <3>1. ASSUME F!Whole(g)
          PROVE  Len(g) = 4
      BY <2>2, <3>1 DEF F!Whole
    <3>2. ASSUME Len(g) = 4
          PROVE  F!Whole(g)
      <4>1. Len(g) >= 2 /\ Len(g) = 2 + F!Expecting(g)
        BY <2>2, <3>2
      <4>2. QED
        BY <2>3, <4>1, Zenon DEF F!Whole
    <3>3. QED
      BY <3>1, <3>2
  <2>5. Len(g) = 4 => g[3] = f[3] /\ g[4] = f[4]
    OBVIOUS
  <2>6. Len(g) = 4 => F!Decodes(g) /\ F!Answered(g) = F!Answered(f)
    BY <2>1, <2>5 DEF F!Decodes, F!Answered, F!Wire, F!Json, F!Cbor
  <2>7. F!Means(f) = F!Answered(f)
    BY <1>2 DEF F!Means
  <2>8. QED
    BY <1>2, <2>1, <2>3, <2>4, <2>6, <2>7 DEF F!Unreadable
<1>3. CASE f \notin F!Calls
  <2>0. F!Means(f) = F!Unread(f)
    BY <1>3 DEF F!Means
  <2>1. two => F!Expecting(g) = F!Expecting(f) /\ F!Unread(g) = F!Unread(f)
    BY <1>1 DEF F!Expecting, F!Unread
  <2>2. CASE Len(f) = 2 /\ f[1] = 0 /\ f[2] = 0
    <3>1. two => F!Expecting(g) = 0
      BY <1>1, <2>2, MostIs DEF F!Expecting
    <3>2. F!Refuses(g) <=> two
      BY <3>1 DEF F!Refuses
    <3>3. ~F!Whole(g)
      BY <3>2 DEF F!Whole
    <3>4. QED
      BY <2>0, <2>1, <2>2, <3>2, <3>3 DEF F!Unreadable
  <2>3. CASE Len(f) = 3 /\ f[1] = 0 /\ f[2] = 1 /\ f[3] = 1
    <3>1. two => F!Expecting(g) = 1
      BY <1>1, <2>3, MostIs DEF F!Expecting
    <3>2. ~F!Refuses(g)
      BY <3>1, MostIs DEF F!Refuses
    <3>3. F!Whole(g) <=> Len(g) = 3
      <4>1. ASSUME F!Whole(g)
            PROVE  Len(g) = 3
        BY <3>1, <4>1 DEF F!Whole
      <4>2. ASSUME Len(g) = 3
            PROVE  F!Whole(g)
        <5>1. Len(g) >= 2 /\ Len(g) = 2 + F!Expecting(g)
          BY <3>1, <4>2
        <5>2. QED
          BY <3>2, <5>1, Zenon DEF F!Whole
      <4>3. QED
        BY <4>1, <4>2
    <3>4. Len(g) = 3 => ~F!Decodes(g)
      BY DEF F!Decodes
    <3>5. QED
      BY <2>0, <2>1, <2>3, <3>2, <3>3, <3>4, SMTT(20) DEF F!Unreadable
  <2>4. CASE Len(f) = 5 /\ f[1] = 1 /\ f[2] = 0
    <3>1. two => F!Expecting(g) = Most + 1
      BY <1>1, <2>4, MostIs DEF F!Expecting
    <3>2. F!Refuses(g) <=> two
      BY <3>1, MostIs DEF F!Refuses
    <3>3. ~F!Whole(g)
      BY <3>2 DEF F!Whole
    <3>4. QED
      BY <2>0, <2>1, <2>4, <3>2, <3>3 DEF F!Unreadable
  <2>5. QED
    BY <1>3, <2>2, <2>3, <2>4, FramesAre
<1>4. QED
  BY <1>2, <1>3

\* What a frame means is a reply, and not one of those that say there was none.
LEMMA MeansAre ==
  ASSUME NEW f \in Sendable
  PROVE  F!Means(f) \in Replies \ {F!Half, F!Lost, F!Closed}
<1>1. CASE f \in F!Calls
  <2>1. F!Wire(f) \in {1, 2}
    BY DEF F!Wire, F!Json, F!Cbor
  <2>2. F!Answered(f).fault \in {"refused", "failed", "ok"} /\ F!Answered(f) \in Replies
    BY <2>1 DEF F!Answered, F!Written, F!Reply, Replies
  <2>3. QED
    BY <1>1, <2>2 DEF F!Means, F!Half, F!Lost, F!Closed, F!Reply
<1>2. CASE f \notin F!Calls
  <2>1. F!Unread(f).fault \in {"refused", "failed"} /\ F!Unread(f) \in Replies
    BY DEF F!Unread, F!Reply, Replies, F!Json
  <2>2. QED
    BY <1>2, <2>1 DEF F!Means, F!Half, F!Lost, F!Closed, F!Reply
<1>3. QED
  BY <1>1, <1>2

\* No more is answered than was sent.
LEMMA AnsweredSent ==
  ASSUME LineInv, far # "closed"
  PROVE  Len(back) \in Nat /\ Len(frames) \in Nat /\ Len(back) <= Len(frames) /\ Left \in Nat
<1>1. Len(back) \in Nat /\ Len(frames) \in Nat /\ Len(got) \in Nat /\ Len(line) \in Nat
  BY DEF LineInv, LineKinds
<1>2. Len(back) > 0 => Len(back) \in DOMAIN frames
  BY <1>1 DEF LineInv, LineKinds, InHand
<1>3. QED
  BY <1>1, <1>2 DEF LineInv, LineKinds, Left

\* What the far end has of a frame is the beginning of the one it is at.
LEMMA HasOfIt ==
  ASSUME LineInv, far = "rest"
  PROVE  /\ frames[Len(back) + 1] \in Sendable
         /\ \A b \in 1..Len(got) : got[b] = frames[Len(back) + 1][b]
<1>1. frames \in Seq(Sendable) /\ Len(got) \in Nat /\ Len(line) \in Nat /\ Len(back) \in Nat
  BY DEF LineInv, LineKinds
<1>2. Len(back) + 1 \in DOMAIN frames /\ Len(got) \in 1..Len(frames[Len(back) + 1])
  BY DEF LineInv, InHand
<1>3. frames[Len(back) + 1] \in Sendable /\ Len(back) + 1 \in 1..Len(frames)
  BY <1>1, <1>2
<1>4. Len(frames[Len(back) + 1]) \in Nat
  BY <1>3, FramesAre
<1>5. ASSUME NEW b \in 1..Len(got)
      PROVE  got[b] = frames[Len(back) + 1][b]
  <2>1. b \in 1..Left /\ Ahead(b) = got[b]
    BY <1>1 DEF Left, Ahead
  <2>2. b \in 1..Len(frames[Len(back) + 1])
    BY <1>1, <1>2, <1>4
  <2>3. PICK s : Laid(s)
    BY DEF LineInv, InHand
  <2>4. Ahead(b) = frames[Len(back) + 1][b]
    BY <1>3, <2>1, <2>2, <2>3 DEF Laid
  <2>5. QED
    BY <2>1, <2>4
<1>6. QED
  BY <1>3, <1>5

\* Of a numbering that goes on by one.
LEMMA Further ==
  ASSUME NEW s \in [Nat -> Nat], NEW n \in Nat, NEW v \in Nat
  PROVE  \E t \in [Nat -> Nat] : (\A i \in 1..n + 1 : t[i] = s[i]) /\ t[n + 2] = s[n + 1] + v
<1> DEFINE t == [s EXCEPT ![n + 2] = s[n + 1] + v]
<1>1. n + 2 \in Nat /\ s[n + 1] + v \in Nat
  OBVIOUS
<1>2. t \in [Nat -> Nat] /\ (\A i \in 1..n + 1 : t[i] = s[i]) /\ t[n + 2] = s[n + 1] + v
  BY <1>1
<1>3. QED
  BY <1>2

\* A frame that is sent, or begun by who goes then, comes after what is on its way.
Sent(f, h) ==
  /\ h \in Seq(0..Most) /\ Len(h) <= Len(f) /\ (hungUp' \/ Len(h) = Len(f))
  /\ \A b \in 1..Len(h) : h[b] = f[b]
  /\ frames' = Append(frames, f) /\ line' = line \o h /\ UNCHANGED <<got, back, far>>

LEMMA SentAfter ==
  ASSUME LineInv, ~hungUp, NEW f, f \in Sendable, NEW h, Sent(f, h)
  PROVE  InHand'
<1>0. /\ frames \in Seq(Sendable) /\ line \in Seq(0..Most) /\ got \in Seq(0..Most) /\ back \in Seq(Replies)
      /\ far \in {"idle", "rest", "closed"}
  BY DEF LineInv, LineKinds
<1>1. SUFFICES ASSUME far # "closed"
               PROVE  InHand'
  BY DEF InHand, Sent
<1>2. PICK n \in Nat, v \in Nat : n = Len(frames) /\ v = Len(f)
  BY <1>0, FramesAre
<1>3. PICK k \in Nat, g \in Nat, m \in Nat, w \in Nat :
        k = Len(back) /\ g = Len(got) /\ m = Len(line) /\ w = Len(h)
  BY <1>0 DEF Sent
<1>4. k <= n
  BY <1>1, <1>2, <1>3, AnsweredSent
<1>5. Len(frames') = n + 1 /\ frames'[n + 1] = f /\ (\A i \in 1..n : frames'[i] = frames[i])
  BY <1>0, <1>2 DEF Sent
<1>6. Len(line') = m + w /\ (\A j \in 1..m : line'[j] = line[j]) /\ \A j \in 1..w : line'[m + j] = f[j]
  <2>1. line \in Seq(0..Most) /\ h \in Seq(0..Most) /\ line' = line \o h /\ \A j \in 1..w : h[j] = f[j]
    BY <1>0, <1>3 DEF Sent
  <2>2. Len(line') = m + w /\ (\A j \in 1..m : line'[j] = line[j]) /\ \A j \in 1..w : line'[m + j] = h[j]
    BY <1>3, <2>1
  <2>3. QED
    BY <2>1, <2>2
<1>7. w <= v /\ (hungUp' \/ w = v)
  BY <1>2, <1>3 DEF Sent
<1>8. PICK s \in [Nat -> Nat] : Laid(s)
  BY <1>1 DEF LineInv, InHand
<1>9. PICK t \in [Nat -> Nat] : (\A i \in 1..n + 1 : t[i] = s[i]) /\ t[n + 2] = s[n + 1] + v
  BY Further, Zenon
<1>10. Left = g + m /\ Left' = g + m + w /\ got' = got /\ back' = back /\ far' = far
  BY <1>3, <1>6 DEF Left, Sent
<1>11. s[k + 1] + (g + m) = s[n + 1]
  BY <1>2, <1>3, <1>8, <1>10 DEF Laid
<1>12. \A i \in 1..n : s[i + 1] = s[i] + Len(frames[i]) /\ s[i + 1] <= s[n + 1]
  BY <1>2, <1>8 DEF Laid
<1>13. \A i \in 1..n : \A b \in 1..Len(frames[i]) : \A j \in 1..g + m :
         s[k + 1] + j = s[i] + b => Ahead(j) = frames[i][b]
  BY <1>2, <1>3, <1>8, <1>10 DEF Laid
<1>14. \A j \in 1..g + m : Ahead(j)' = Ahead(j)
  <2>1. SUFFICES ASSUME NEW j \in 1..g + m
                 PROVE  Ahead(j)' = Ahead(j)
    OBVIOUS
  <2>2. CASE j <= g
    BY <1>3, <1>10, <2>2 DEF Ahead
  <2>3. CASE ~(j <= g)
    <3>1. j - g \in 1..m
      BY <2>3
    <3>2. line'[j - g] = line[j - g]
      BY <1>6, <3>1
    <3>3. QED
      BY <1>3, <1>10, <2>3, <3>2 DEF Ahead
  <2>4. QED
    BY <2>2, <2>3
<1>15. \A b \in 1..w : Ahead(g + m + b)' = f[b]
  <2>1. SUFFICES ASSUME NEW b \in 1..w
                 PROVE  Ahead(g + m + b)' = f[b]
    OBVIOUS
  <2>2. ~(g + m + b <= g) /\ (g + m + b) - g = m + b
    OBVIOUS
  <2>3. Ahead(g + m + b)' = line'[m + b]
    BY <1>3, <1>10, <2>2 DEF Ahead
  <2>4. QED
    BY <1>6, <2>3
<1>16. \A i \in 1..n : frames[i] \in Sendable /\ Len(frames[i]) \in Nat
  BY <1>0, <1>2, FramesAre
<1>17. \A i \in 1..n + 1 : t[i + 1] = t[i] + Len(frames'[i]) /\ t[i + 1] <= t[n + 2]
  <2>1. SUFFICES ASSUME NEW i \in 1..n + 1
                 PROVE  t[i + 1] = t[i] + Len(frames'[i]) /\ t[i + 1] <= t[n + 2]
    OBVIOUS
  <2>2. CASE i = n + 1
    <3>1. t[i + 1] = t[i] + v /\ t[i + 1] = t[n + 2] /\ t[n + 2] \in Nat
      BY <1>9, <2>2
    <3>2. Len(frames'[i]) = v
      <4>1. frames'[i] = f
        BY <1>5, <2>2
      <4>2. QED
        BY <1>2, <4>1, Zenon
    <3>3. t[n + 2] <= t[n + 2]
      BY <3>1
    <3>4. t[i + 1] <= t[n + 2]
      BY <3>1, <3>3, Zenon
    <3>5. QED
      BY <3>1, <3>2, <3>4, Zenon
  <2>3. CASE i \in 1..n
    <3>1. t[i + 1] = s[i + 1] /\ t[i] = s[i] /\ t[n + 2] = s[n + 1] + v /\ s[i + 1] \in Nat /\ s[n + 1] \in Nat
      BY <1>9, <2>3
    <3>2. frames'[i] = frames[i]
      BY <1>5, <2>3
    <3>3. s[i + 1] = s[i] + Len(frames[i]) /\ s[i + 1] <= s[n + 1]
      BY <1>12, <2>3
    <3>4. t[i + 1] <= t[n + 2]
      BY <3>1, <3>3, SMTT(20)
    <3>5. QED
      BY <3>1, <3>2, <3>3, <3>4
  <2>4. QED
    BY <2>2, <2>3
<1>18. ASSUME NEW i \in 1..n + 1, NEW b \in Nat, NEW j \in 1..g + m + w,
              b \in 1..Len(frames'[i]), t[k + 1] + j = t[i] + b
       PROVE  Ahead(j)' = frames'[i][b]
  <2>1. k + 1 \in 1..n + 1
    BY <1>4
  <2>2. PICK p \in Nat, q \in Nat, r \in Nat : p = s[k + 1] /\ q = s[n + 1] /\ r = s[i]
    OBVIOUS
  <2>3. t[k + 1] = p /\ t[i] = r
    BY <1>9, <2>1, <2>2
  <2>4. p + j = r + b /\ p + (g + m) = q
    BY <1>11, <1>18, <2>2, <2>3
  <2>5. CASE i = n + 1
    <3>1. b >= 1 /\ r = q
      BY <1>2, <1>5, <1>18, <2>2, <2>5
    <3>2. j = g + m + b /\ b \in 1..w
      BY <2>4, <3>1
    <3>3. Ahead(j)' = f[b]
      BY <1>15, <3>2
    <3>4. QED
      BY <1>5, <2>5, <3>3
  <2>6. CASE i \in 1..n
    <3>1. frames'[i] = frames[i] /\ Len(frames[i]) \in Nat
      BY <1>5, <1>16, <2>6
    <3>2. PICK d \in Nat : d = Len(frames[i]) /\ b <= d /\ b \in 1..d
      <4>1. b \in 1..Len(frames[i])
        BY <1>18, <3>1
      <4>2. PICK e \in Nat : e = Len(frames[i])
        BY <3>1
      <4>3. b <= e /\ b \in 1..e
        BY <4>1, <4>2
      <4>4. QED
        BY <4>2, <4>3
    <3>3. r + d <= q
      BY <1>12, <2>2, <2>6, <3>2
    <3>4. j \in 1..g + m
      BY <2>4, <3>2, <3>3
    <3>5. s[k + 1] + j = s[i] + b
      BY <2>2, <2>4
    <3>6. Ahead(j) = frames[i][b]
      BY <1>13, <2>6, <3>2, <3>4, <3>5
    <3>7. QED
      BY <1>14, <3>1, <3>4, <3>6
  <2>7. QED
    BY <2>5, <2>6
<1>19. t[k + 1] + (g + m + w) <= t[n + 2] /\ (~hungUp' => t[k + 1] + (g + m + w) = t[n + 2])
  <2>1. t[k + 1] = s[k + 1] /\ s[k + 1] \in Nat /\ s[n + 1] \in Nat
    BY <1>4, <1>9
  <2>2. t[k + 1] + (g + m + w) = s[n + 1] + w /\ t[n + 2] = s[n + 1] + v
    BY <1>9, <1>11, <2>1
  <2>3. QED
    BY <1>7, <2>1, <2>2
<1>20. Laid(t)'
  <2>1. Len(frames') + 1 = n + 2 /\ Len(back') = k /\ Len(frames') = n + 1
    BY <1>3, <1>5, <1>10
  <2>2. QED
    BY <1>10, <1>17, <1>18, <1>19, <2>1 DEF Laid
<1>21. DOMAIN frames = 1..n /\ DOMAIN frames' = 1..n + 1
  BY <1>0, <1>2 DEF Sent
<1>22. \A i \in DOMAIN frames : i \in DOMAIN frames' /\ frames'[i] = frames[i]
  BY <1>5, <1>21
<1>23. /\ \A i \in DOMAIN back : i \in DOMAIN frames /\ frames[i] \in F!Calls /\ back[i] # F!Half
       /\ far = "idle" => got = <<>>
       /\ far = "rest" => Len(back) + 1 \in DOMAIN frames /\ Len(got) \in 1..Len(frames[Len(back) + 1])
  BY <1>1, Zenon DEF LineInv, InHand
<1>24. /\ \A i \in DOMAIN back' : i \in DOMAIN frames' /\ frames'[i] \in F!Calls /\ back'[i] # F!Half
       /\ far' = "idle" => got' = <<>>
       /\ far' = "rest" => Len(back') + 1 \in DOMAIN frames' /\ Len(got') \in 1..Len(frames'[Len(back') + 1])
  BY <1>10, <1>22, <1>23, Zenon
<1>25. QED
  BY <1>20, <1>24, Zenon DEF InHand

\* What is in a sequence is of what it is a sequence of.
LEMMA OfSeq ==
  ASSUME NEW S, NEW q \in Seq(S), NEW i \in 1..Len(q)
  PROVE  q[i] \in S
OBVIOUS

\* A byte that is read is after those that were.
ReadOne ==
  /\ far # "closed" /\ far' = "rest" /\ line # <<>> /\ UNCHANGED <<frames, back, hungUp>>
  /\ got' = Append(got, Head(line)) /\ line' = Tail(line)
  /\ far = "rest" => ~F!Refuses(got) /\ ~F!Whole(got)

LEMMA ByteRead ==
  ASSUME LineInv, ReadOne
  PROVE  InHand' /\ Len(got') <= 4 /\ got' \in Seq(0..Most) /\ line' \in Seq(0..Most)
<1>0. /\ frames \in Seq(Sendable) /\ line \in Seq(0..Most) /\ got \in Seq(0..Most) /\ back \in Seq(Replies)
      /\ far \in {"idle", "rest"} /\ line # <<>>
  BY DEF LineInv, LineKinds, ReadOne
<1>1. PICK n \in Nat, k \in Nat, g \in Nat, m \in Nat :
        n = Len(frames) /\ k = Len(back) /\ g = Len(got) /\ m = Len(line)
  BY <1>0
<1>2. m > 0 /\ Head(line) = line[1] /\ line[1] \in 0..Most
  <2>1. Len(line) # 0
    BY <1>0
  <2>2. m > 0
    BY <1>1, <2>1
  <2>3. 1 \in 1..Len(line)
    BY <1>1, <2>2
  <2>4. line[1] \in 0..Most
    BY <1>0, <2>3, OfSeq
  <2>5. Head(line) = line[1]
    BY <1>0
  <2>6. QED
    BY <2>2, <2>4, <2>5
<1>3. Len(line') = m - 1 /\ (\A j \in 1..m - 1 : line'[j] = line[j + 1]) /\ line' \in Seq(0..Most)
  BY <1>0, <1>1, <1>2 DEF ReadOne
<1>4. /\ Len(got') = g + 1 /\ got'[g + 1] = line[1] /\ (\A j \in 1..g : got'[j] = got[j])
      /\ got' \in Seq(0..Most)
  BY <1>0, <1>1, <1>2 DEF ReadOne
<1>5. k <= n
  BY <1>0, <1>1, AnsweredSent
<1>6. PICK s \in [Nat -> Nat] : Laid(s)
  BY <1>0 DEF LineInv, InHand
<1>7. Left = g + m /\ Left' = g + m
  BY <1>1, <1>2, <1>3, <1>4 DEF Left
<1>8. k + 1 \in 1..n
  <2>1. PICK p \in Nat, q \in Nat : p = s[k + 1] /\ q = s[n + 1]
    OBVIOUS
  <2>2. p + (g + m) <= q
    BY <1>1, <1>6, <1>7, <2>1 DEF Laid
  <2>3. k = n => p = q
    BY <2>1
  <2>4. QED
    BY <1>2, <1>5, <2>2, <2>3
<1>9. frames[k + 1] \in Sendable /\ DOMAIN frames = 1..n
  BY <1>0, <1>1, <1>8
<1>10. PICK v \in Nat : v = Len(frames[k + 1]) /\ v >= 2
  <2>1. \/ Len(frames[k + 1]) = 2 \/ Len(frames[k + 1]) = 3
        \/ Len(frames[k + 1]) = 4 \/ Len(frames[k + 1]) = 5
    BY <1>9, FramesAre
  <2>2. 2 \in Nat /\ 3 \in Nat /\ 4 \in Nat /\ 5 \in Nat /\ 3 >= 2 /\ 4 >= 2 /\ 5 >= 2 /\ 2 >= 2
    OBVIOUS
  <2>3. Len(frames[k + 1]) \in Nat /\ Len(frames[k + 1]) >= 2
    BY <2>1, <2>2
  <2>4. QED
    BY <2>3
<1>11. g + 1 \in 1..v /\ g + 1 <= 4
  <2>1. CASE far = "rest"
    <3>1. Len(got) \in 1..Len(frames[k + 1]) /\ Len(got) <= 4
      BY <1>1, <2>1 DEF LineInv, LineKinds, InHand
    <3>2. \A b \in 1..Len(got) : got[b] = frames[k + 1][b]
      BY <1>1, <2>1, HasOfIt
    <3>3. ~F!Refuses(got) /\ ~F!Whole(got)
      BY <2>1 DEF ReadOne
    <3>4. Len(got) < Len(frames[k + 1]) /\ Len(got) < 4
      BY <1>0, <1>9, <3>1, <3>2, <3>3, ReadsAre
    <3>5. g < v /\ g < 4
      BY <1>1, <1>10, <3>4
    <3>6. QED
      BY <3>5
  <2>2. CASE far = "idle"
    <3>1. got = <<>>
      BY <2>2 DEF LineInv, InHand
    <3>2. g = 0
      BY <1>1, <3>1
    <3>3. QED
      BY <1>10, <3>2
  <2>3. QED
    BY <1>0, <2>1, <2>2
<1>12. \A j \in 1..g + m : Ahead(j)' = Ahead(j)
  <2>1. SUFFICES ASSUME NEW j \in 1..g + m
                 PROVE  Ahead(j)' = Ahead(j)
    OBVIOUS
  <2>2. CASE j <= g
    <3>1. j <= g + 1 /\ j \in 1..g
      BY <2>2
    <3>2. Ahead(j) = got[j] /\ Ahead(j)' = got'[j]
      BY <1>1, <1>4, <2>2, <3>1 DEF Ahead
    <3>3. QED
      BY <1>4, <3>1, <3>2
  <2>3. CASE j = g + 1
    <3>1. j - g = 1 /\ ~(j <= g) /\ j <= g + 1
      BY <2>3
    <3>2. Ahead(j) = line[1] /\ Ahead(j)' = got'[g + 1]
      BY <1>1, <1>4, <2>3, <3>1 DEF Ahead
    <3>3. QED
      BY <1>4, <3>2
  <2>4. CASE j > g + 1
    <3>1. PICK i \in 1..m - 1 : i = j - (g + 1) /\ j - g = i + 1
      BY <2>4
    <3>2. ~(j <= g) /\ ~(j <= g + 1)
      BY <2>4
    <3>3. Ahead(j) = line[i + 1]
      BY <1>1, <3>1, <3>2 DEF Ahead
    <3>4. Ahead(j)' = line'[i]
      BY <1>4, <3>1, <3>2 DEF Ahead
    <3>5. QED
      BY <1>3, <3>1, <3>3, <3>4
  <2>5. QED
    BY <2>2, <2>3, <2>4
<1>13. Laid(s)'
  <2>1. frames' = frames /\ back' = back /\ hungUp' = hungUp
    BY DEF ReadOne
  <2>2. QED
    BY <1>6, <1>7, <1>12, <2>1 DEF Laid
<1>14. \A i \in DOMAIN back : i \in DOMAIN frames /\ frames[i] \in F!Calls /\ back[i] # F!Half
  BY <1>0 DEF LineInv, InHand
<1>15. Len(back) + 1 \in DOMAIN frames /\ Len(got') \in 1..Len(frames[Len(back) + 1])
  BY <1>1, <1>4, <1>8, <1>9, <1>10, <1>11
<1>16. InHand'
  BY <1>13, <1>14, <1>15 DEF InHand, ReadOne
<1>17. Len(got') <= 4
  BY <1>4, <1>11
<1>18. QED
  BY <1>3, <1>4, <1>16, <1>17

\* A call that is answered makes way for what was sent after it.
AnswersOne ==
  /\ far = "rest" /\ F!Whole(got) /\ F!Decodes(got) /\ UNCHANGED <<frames, line, hungUp>>
  /\ back' = Append(back, F!Answered(got)) /\ far' = "idle" /\ got' = <<>>

LEMMA CallAnswered ==
  ASSUME LineInv, AnswersOne
  PROVE  InHand'
<1>0. /\ frames \in Seq(Sendable) /\ line \in Seq(0..Most) /\ got \in Seq(0..Most) /\ back \in Seq(Replies)
      /\ far = "rest"
  BY DEF LineInv, LineKinds, AnswersOne
<1>1. PICK n \in Nat, k \in Nat, m \in Nat : n = Len(frames) /\ k = Len(back) /\ m = Len(line)
  BY <1>0
<1>2. k + 1 \in 1..n /\ frames[k + 1] \in Sendable /\ DOMAIN frames = 1..n
  <2>1. Len(back) + 1 \in DOMAIN frames
    BY <1>0 DEF LineInv, InHand
  <2>2. QED
    BY <1>0, <1>1, <2>1
<1>3. frames[k + 1] \in F!Calls /\ Len(got) = 4 /\ F!Means(frames[k + 1]) = F!Answered(got)
  <2>1. Len(got) \in 1..Len(frames[k + 1]) /\ Len(got) <= 4
    BY <1>0, <1>1 DEF LineInv, LineKinds, InHand
  <2>2. \A b \in 1..Len(got) : got[b] = frames[k + 1][b]
    BY <1>0, <1>1, HasOfIt
  <2>3. QED
    BY <1>0, <1>2, <2>1, <2>2, ReadsAre DEF AnswersOne
<1>4. Len(frames[k + 1]) = 4
  BY <1>2, <1>3, FramesAre
<1>5. PICK s \in [Nat -> Nat] : Laid(s)
  BY <1>0 DEF LineInv, InHand
<1>6. Left = 4 + m /\ Left' = m /\ got' = <<>> /\ frames' = frames /\ line' = line /\ hungUp' = hungUp /\ far' = "idle"
  BY <1>1, <1>3 DEF Left, AnswersOne
<1>7. Len(back') = k + 1 /\ back'[k + 1] = F!Means(frames[k + 1]) /\ (\A i \in 1..k : back'[i] = back[i])
      /\ DOMAIN back' = 1..k + 1
  <2>1. back' = Append(back, F!Answered(got))
    BY DEF AnswersOne
  <2>2. F!Answered(got) \in Replies
    BY <1>2, <1>3, MeansAre
  <2>3. QED
    BY <1>0, <1>1, <1>3, <2>1, <2>2
<1>8. PICK p \in Nat, r \in Nat : p = s[k + 1] /\ r = s[k + 2] /\ r = p + 4
  <2>1. s[k + 2] = s[k + 1] + 4
    <3>1. s[(k + 1) + 1] = s[k + 1] + Len(frames[k + 1])
      BY <1>1, <1>2, <1>5 DEF Laid
    <3>2. QED
      BY <1>4, <3>1
  <2>2. QED
    BY <2>1
<1>9. PICK q \in Nat : q = s[n + 1] /\ p + (4 + m) <= q /\ (~hungUp => p + (4 + m) = q)
  <2>1. s[k + 1] + (4 + m) <= s[n + 1] /\ (~hungUp => s[k + 1] + (4 + m) = s[n + 1])
    BY <1>1, <1>5, <1>6 DEF Laid
  <2>2. QED
    BY <1>8, <2>1
<1>10. \A i \in 1..n : \A b \in 1..Len(frames[i]) : \A j \in 1..4 + m :
         s[k + 1] + j = s[i] + b => Ahead(j) = frames[i][b]
  BY <1>1, <1>5, <1>6 DEF Laid
<1>11. \A j \in 1..m : Ahead(j)' = line[j] /\ Ahead(j + 4) = line[j]
  <2>1. SUFFICES ASSUME NEW j \in 1..m
                 PROVE  Ahead(j)' = line[j] /\ Ahead(j + 4) = line[j]
    OBVIOUS
  <2>2. ~(j <= 0) /\ j - 0 = j /\ ~(j + 4 <= 4) /\ (j + 4) - 4 = j
    OBVIOUS
  <2>3. Ahead(j + 4) = line[j]
    BY <1>3, <2>2 DEF Ahead
  <2>4. Len(got') = 0
    BY <1>6
  <2>5. Ahead(j)' = line[j]
    BY <1>6, <2>2, <2>4 DEF Ahead
  <2>6. QED
    BY <2>3, <2>5
<1>12. ASSUME NEW i \in 1..n, NEW b \in Nat, NEW j \in 1..m, b \in 1..Len(frames[i]), s[k + 2] + j = s[i] + b
       PROVE  Ahead(j)' = frames[i][b]
  <2>1. j + 4 \in 1..4 + m /\ s[k + 1] + (j + 4) = s[i] + b
    BY <1>8, <1>12
  <2>2. Ahead(j + 4) = frames[i][b]
    BY <1>10, <1>12, <2>1
  <2>3. QED
    BY <1>11, <2>2
<1>13. Laid(s)'
  <2>1. Len(back') + 1 = k + 2
    BY <1>7
  <2>2. \A i \in 1..n : s[i + 1] = s[i] + Len(frames[i]) /\ s[i + 1] <= s[n + 1]
    BY <1>1, <1>5 DEF Laid
  <2>3. s[k + 2] + m <= s[n + 1] /\ (~hungUp => s[k + 2] + m = s[n + 1])
    BY <1>8, <1>9
  <2>4. \A i \in 1..n : \A b \in 1..Len(frames[i]) : b \in Nat
    BY <1>0, <1>1, FramesAre
  <2>5. QED
    BY <1>1, <1>6, <1>12, <2>1, <2>2, <2>3, <2>4, SMTT(20) DEF Laid
<1>14. \A i \in DOMAIN back : i \in DOMAIN frames /\ frames[i] \in F!Calls /\ back[i] # F!Half
  BY <1>0 DEF LineInv, InHand
<1>15. \A i \in DOMAIN back' : i \in DOMAIN frames /\ frames[i] \in F!Calls /\ back'[i] # F!Half
  <2>1. SUFFICES ASSUME NEW i \in 1..k + 1
                 PROVE  i \in DOMAIN frames /\ frames[i] \in F!Calls /\ back'[i] # F!Half
    BY <1>7
  <2>2. CASE i = k + 1
    BY <1>2, <1>3, <1>7, <2>2, MeansAre
  <2>3. CASE i \in 1..k
    <3>1. i \in DOMAIN back
      BY <1>0, <1>1, <2>3
    <3>2. QED
      BY <1>7, <1>14, <2>3, <3>1
  <2>4. QED
    BY <2>2, <2>3
<1>16. QED
  BY <1>6, <1>13, <1>15 DEF InHand

\* What a line that was closed, or had only more heard of it, has in hand is what it had.
LEMMA HandStays ==
  ASSUME InHand, UNCHANGED <<frames, line, far, got, back>>, hungUp => hungUp'
  PROVE  InHand'
<1>1. ASSUME NEW s, Laid(s)
      PROVE  Laid(s)'
  BY <1>1 DEF Laid, Left, Ahead
<1>2. QED
  BY <1>1 DEF InHand

\* A reply that is written answers the frame that was read, as long as it is one of those.
LEMMA RepliesStay ==
  ASSUME LineInv, far = "rest", frames' = frames, NEW r, r \in Replies, back' = Append(back, r),
         r \in {F!Half, F!Means(frames[Len(back) + 1])}
  PROVE  F!RepliesInStep' /\ back' \in Seq(Replies)
<1>1. back \in Seq(Replies) /\ frames \in Seq(Sendable)
  BY DEF LineInv, LineKinds
<1>2. PICK k \in Nat : k = Len(back)
  BY <1>1
<1>3. /\ back' \in Seq(Replies) /\ Len(back') = k + 1 /\ DOMAIN back' = 1..k + 1
      /\ back'[k + 1] = r /\ \A i \in 1..k : back'[i] = back[i]
  BY <1>1, <1>2
<1>4. k + 1 \in DOMAIN frames /\ \A i \in 1..k : i \in DOMAIN frames /\ frames[i] \in F!Calls /\ back[i] # F!Half
  <2>1. DOMAIN back = 1..k
    BY <1>1, <1>2
  <2>2. QED
    BY <1>2, <2>1 DEF LineInv, InHand
<1>5. \A i \in 1..k : back[i] \in {F!Half, F!Means(frames[i])}
  <2>1. DOMAIN back = 1..k
    BY <1>1, <1>2
  <2>2. QED
    BY <2>1 DEF LineInv, F!RepliesInStep
<1>6. ASSUME NEW i \in 1..k + 1
      PROVE  /\ i \in DOMAIN frames /\ back'[i] \in {F!Half, F!Means(frames[i])}
             /\ i < k + 1 => frames[i] \in F!Calls /\ back'[i] # F!Half
  <2>1. CASE i = k + 1
    BY <1>2, <1>3, <1>4, <2>1
  <2>2. CASE i \in 1..k
    BY <1>3, <1>4, <1>5, <2>2
  <2>3. i = k + 1 \/ i \in 1..k
    OBVIOUS
  <2>4. QED
    BY <2>1, <2>2, <2>3, Zenon
<1>7. QED
  BY <1>3, <1>6 DEF F!RepliesInStep

LEMMA LineBegins == F!Init => LineInv
<1>1. SUFFICES ASSUME F!Init
               PROVE  LineInv
  OBVIOUS
<1>2. /\ frames = <<>> /\ line = <<>> /\ got = <<>> /\ heard = <<>> /\ back = <<>> /\ hungUp = FALSE
      /\ far = "idle" /\ caller \in {"anything", "stream"}
  BY <1>1 DEF F!Init
<1>3. LineKinds
  <2>1. Len(frames) <= Frames /\ Len(got) <= 4
    BY <1>2, ProviderKinds DEF F!FramingKinds
  <2>2. <<>> \in Seq(Sendable) /\ <<>> \in Seq(Replies) /\ <<>> \in Seq(0..Most)
    OBVIOUS
  <2>3. QED
    BY <1>2, <2>1, <2>2, Zenon DEF LineKinds
<1>4. Laid([i \in Nat |-> 0])
  <2> DEFINE s == [i \in Nat |-> 0]
  <2>1. Len(frames) = 0 /\ Len(back) = 0 /\ Left = 0 /\ s[1] = 0 /\ s[0 + 1] = 0
    BY <1>2 DEF Left
  <2> HIDE DEF s
  <2>2. QED
    BY <2>1 DEF Laid
<1>5. [i \in Nat |-> 0] \in [Nat -> Nat]
  OBVIOUS
<1>6. InHand
  BY <1>2, <1>4, <1>5 DEF InHand
<1>7. LineHeard /\ F!RepliesInStep
  BY <1>2 DEF LineHeard, F!RepliesInStep
<1>8. QED
  BY <1>3, <1>6, <1>7 DEF LineInv

\* More is sent: what was answered, and what was heard, was of the frames before.
LEMMA SentKeeps ==
  ASSUME LineInv, NEW f, f \in Sendable, frames' = Append(frames, f), back' = back
  PROVE  /\ F!RepliesInStep' /\ frames' \in Seq(Sendable) /\ Len(frames') = Len(frames) + 1
         /\ \A i \in DOMAIN frames : i \in DOMAIN frames' /\ frames'[i] = frames[i]
<1>1. frames \in Seq(Sendable)
  BY DEF LineInv, LineKinds
<1>2. PICK n \in Nat : n = Len(frames)
  BY <1>1
<1>3. /\ frames' \in Seq(Sendable) /\ Len(frames') = n + 1 /\ DOMAIN frames' = 1..n + 1 /\ DOMAIN frames = 1..n
      /\ \A i \in 1..n : frames'[i] = frames[i]
  BY <1>1, <1>2
<1>4. \A i \in DOMAIN frames : i \in DOMAIN frames' /\ frames'[i] = frames[i]
  BY <1>3
<1>5. F!RepliesInStep'
  BY <1>4, Zenon DEF LineInv, F!RepliesInStep
<1>6. QED
  BY <1>2, <1>3, <1>4, <1>5

\* What a config has heard stays so while more is sent.
LEMMA HeardStays ==
  ASSUME LineHeard, caller' = caller, heard' = heard, hungUp => hungUp',
         \A i \in DOMAIN frames : i \in DOMAIN frames' /\ frames'[i] = frames[i]
  PROVE  LineHeard'
BY Zenon DEF LineHeard

\* And when a call of it came back with a reply of its own, or with none on a line that is shut then, or
\* on a line that was shut.
LEMMA HeardMore ==
  ASSUME LineInv, caller' = caller, NEW r, r \in Replies, heard' = Append(heard, r), hungUp => hungUp',
         \A i \in DOMAIN frames : i \in DOMAIN frames' /\ frames'[i] = frames[i],
         \/ hungUp /\ r = F!Closed
         \/ ~hungUp /\ hungUp' /\ r = F!Lost
         \/ ~hungUp /\ Len(heard) + 1 \in DOMAIN frames /\ r = F!Means(frames[Len(heard) + 1])
            /\ r \notin {F!Lost, F!Closed}
  PROVE  LineHeard' /\ heard' \in Seq(Replies)
<1>1. heard \in Seq(Replies)
  BY DEF LineInv, LineKinds
<1>2. PICK k \in Nat : k = Len(heard)
  BY <1>1
<1>3. /\ heard' \in Seq(Replies) /\ DOMAIN heard' = 1..k + 1 /\ DOMAIN heard = 1..k
      /\ heard'[k + 1] = r /\ \A i \in 1..k : heard'[i] = heard[i]
  BY <1>1, <1>2
<1>4. SUFFICES ASSUME caller = "stream"
               PROVE  LineHeard'
  BY <1>3 DEF LineHeard
<1>5. /\ \A i \in 1..k :
           /\ heard[i] \notin {F!Lost, F!Closed} => i \in DOMAIN frames /\ heard[i] = F!Means(frames[i])
           /\ i > 1 /\ heard[i] # F!Closed => heard[i - 1] \notin {F!Lost, F!Closed}
      /\ ~hungUp => \A i \in 1..k : heard[i] \notin {F!Lost, F!Closed}
  BY <1>3, <1>4 DEF LineInv, LineHeard
<1>6. \A i \in 1..k + 1 : i = k + 1 \/ i \in 1..k
  OBVIOUS
<1>7. \A i \in 1..k + 1 : heard'[i] \notin {F!Lost, F!Closed} => i \in DOMAIN frames' /\ heard'[i] = F!Means(frames'[i])
  <2>1. SUFFICES ASSUME NEW i \in 1..k + 1, heard'[i] \notin {F!Lost, F!Closed}
                 PROVE  i \in DOMAIN frames' /\ heard'[i] = F!Means(frames'[i])
    OBVIOUS
  <2>2. CASE i = k + 1
    BY <1>2, <1>3, <2>1, <2>2
  <2>3. CASE i \in 1..k
    BY <1>3, <1>5, <2>1, <2>3
  <2>4. QED
    BY <1>6, <2>2, <2>3
<1>8. \A i \in 1..k + 1 : i > 1 /\ heard'[i] # F!Closed => heard'[i - 1] \notin {F!Lost, F!Closed}
  <2>1. SUFFICES ASSUME NEW i \in 1..k + 1, i > 1, heard'[i] # F!Closed
                 PROVE  heard'[i - 1] \notin {F!Lost, F!Closed}
    OBVIOUS
  <2>2. i - 1 \in 1..k
    BY <2>1
  <2>3. CASE i = k + 1
    <3>1. ~hungUp
      BY <1>3, <2>1, <2>3
    <3>2. QED
      BY <1>3, <1>5, <2>2, <3>1
  <2>4. CASE i \in 1..k
    BY <1>3, <1>5, <2>1, <2>2, <2>4
  <2>5. QED
    BY <1>6, <2>3, <2>4
<1>9. ~hungUp' => \A i \in 1..k + 1 : heard'[i] \notin {F!Lost, F!Closed}
  <2>1. SUFFICES ASSUME ~hungUp', NEW i \in 1..k + 1
                 PROVE  heard'[i] \notin {F!Lost, F!Closed}
    OBVIOUS
  <2>2. ~hungUp /\ r \notin {F!Lost, F!Closed}
    BY <2>1
  <2>3. CASE i = k + 1
    BY <1>3, <2>2, <2>3
  <2>4. CASE i \in 1..k
    BY <1>3, <1>5, <2>2, <2>4
  <2>5. QED
    BY <1>6, <2>3, <2>4
<1>10. QED
  BY <1>3, <1>7, <1>8, <1>9 DEF LineHeard

\* A step of the near end that sends.
LEMMA NearSends ==
  ASSUME LineInv, ~hungUp, Len(frames) < Frames, NEW f, f \in Sendable, NEW h, Sent(f, h),
         caller' = caller, hungUp' \in BOOLEAN, heard' \in Seq(Replies), LineHeard'
  PROVE  LineInv'
<1>1. InHand'
  BY SentAfter
<1>2. F!RepliesInStep' /\ frames' \in Seq(Sendable) /\ Len(frames') = Len(frames) + 1
  BY SentKeeps DEF Sent
<1>3. Len(frames') <= Frames
  <2>1. Len(frames) \in Nat /\ Frames \in Nat
    BY ProviderKinds DEF LineInv, LineKinds, F!FramingKinds
  <2>2. QED
    BY <1>2, <2>1
<1>4. line' \in Seq(0..Most)
  <2>1. line \in Seq(0..Most) /\ h \in Seq(0..Most) /\ line' = line \o h
    BY DEF LineInv, LineKinds, Sent
  <2>2. QED
    BY <2>1
<1>5. LineKinds'
  BY <1>2, <1>3, <1>4, Zenon DEF LineInv, LineKinds, Sent
<1>6. QED
  BY <1>1, <1>2, <1>5 DEF LineInv

LEMMA BeginningOf ==
  ASSUME NEW S, NEW q \in Seq(S), NEW n \in 0..Len(q)
  PROVE  /\ SubSeq(q, 1, n) \in Seq(S) /\ Len(SubSeq(q, 1, n)) = n /\ n <= Len(q)
         /\ \A b \in 1..n : SubSeq(q, 1, n)[b] = q[b]
OBVIOUS

\* All or a part of a frame is the beginning of it.
LEMMA PartOfIt ==
  ASSUME NEW f, f \in Sendable, NEW n \in 0..Len(f)
  PROVE  /\ SubSeq(f, 1, n) \in Seq(0..Most) /\ Len(SubSeq(f, 1, n)) = n /\ n <= Len(f)
         /\ \A b \in 1..n : SubSeq(f, 1, n)[b] = f[b]
<1>1. f \in Seq(0..Most)
  BY FramesAre
<1>2. QED
  BY <1>1, BeginningOf

LEMMA SendStep ==
  ASSUME LineInv, NEW f, f \in Sendable, F!Send(f) \/ F!SendPart(f)
  PROVE  LineInv'
<1>1. /\ ~hungUp /\ Len(frames) < Frames /\ frames' = Append(frames, f) /\ caller' = caller /\ heard' = heard
      /\ UNCHANGED <<got, back, far>>
  BY DEF F!Send, F!SendPart
<1>2. LineHeard' /\ heard' \in Seq(Replies)
  <2>1. \A i \in DOMAIN frames : i \in DOMAIN frames' /\ frames'[i] = frames[i]
    BY <1>1, SentKeeps
  <2>2. LineHeard /\ heard' \in Seq(Replies)
    BY <1>1 DEF LineInv, LineKinds
  <2>3. QED
    BY <1>1, <2>1, <2>2, HeardStays
<1>3. f \in Seq(0..Most)
  BY FramesAre
<1>4. CASE F!Send(f)
  <2>1. Sent(f, f) /\ hungUp' \in BOOLEAN
    BY <1>1, <1>3, <1>4 DEF F!Send, Sent, LineInv, LineKinds
  <2>2. QED
    BY <1>1, <1>2, <2>1, NearSends
<1>5. CASE F!SendPart(f)
  <2>1. PICK n \in 0..Len(f) - 1 : line' = line \o SubSeq(f, 1, n)
    BY <1>5 DEF F!SendPart
  <2>2. n \in 0..Len(f)
    BY <1>3
  <2>3. hungUp' = TRUE
    BY <1>5 DEF F!SendPart
  <2>4. Sent(f, SubSeq(f, 1, n))
    BY <1>1, <2>1, <2>2, <2>3, PartOfIt DEF Sent
  <2>5. QED
    BY <1>1, <1>2, <2>3, <2>4, NearSends
<1>6. QED
  BY <1>4, <1>5

LEMMA CallStep ==
  ASSUME LineInv, NEW asks, asks \in {F!Plain, F!NewerFamily, F!ReplyTooLarge}, F!Call(asks) \/ F!CallCut(asks)
  PROVE  LineInv'
<1> DEFINE f == <<0, 2, F!Json, asks>>
<1>0. f \in Sendable
  BY DEF Sendable, F!Calls
<1>1. /\ ~hungUp /\ Len(frames) < Frames /\ frames' = Append(frames, f) /\ caller' = caller
      /\ UNCHANGED <<got, back, far>>
  BY DEF F!Call, F!CallCut
<1>2. Len(f) = 4
  OBVIOUS
<1> HIDE DEF f
<1>3. \A i \in DOMAIN frames : i \in DOMAIN frames' /\ frames'[i] = frames[i]
  BY <1>0, <1>1, SentKeeps
<1>4. f \in Seq(0..Most)
  BY <1>0, FramesAre
<1>5. CASE F!Call(asks)
  <2>1. line' = line \o f /\ hungUp' = hungUp /\ heard' = heard
    BY <1>5 DEF F!Call, f
  <2>2. Sent(f, f)
    BY <1>1, <1>4, <2>1 DEF Sent
  <2>3. LineHeard /\ heard' \in Seq(Replies)
    BY <2>1 DEF LineInv, LineKinds
  <2>4. LineHeard'
    BY <1>1, <1>3, <2>1, <2>3, HeardStays
  <2>5. hungUp' \in BOOLEAN
    BY <2>1 DEF LineInv, LineKinds
  <2>6. QED
    BY <1>0, <1>1, <2>2, <2>3, <2>4, <2>5, NearSends
<1>6. CASE F!CallCut(asks)
  <2>1. PICK n \in 0..3 : line' = line \o SubSeq(f, 1, n)
    BY <1>6 DEF F!CallCut, f
  <2>2. hungUp' = TRUE /\ heard' = Append(heard, F!Lost)
    BY <1>6 DEF F!CallCut
  <2>3. n \in 0..Len(f)
    BY <1>2
  <2>4. Sent(f, SubSeq(f, 1, n))
    BY <1>0, <1>1, <2>1, <2>2, <2>3, PartOfIt DEF Sent
  <2>5. F!Lost \in Replies
    BY DEF Replies, F!Lost, F!Reply, F!Json
  <2>6. LineHeard' /\ heard' \in Seq(Replies)
    BY <1>1, <1>3, <2>2, <2>5, HeardMore
  <2>7. QED
    BY <1>0, <1>1, <2>2, <2>4, <2>6, NearSends
<1>7. QED
  BY <1>5, <1>6

\* The config hears a reply, or that there is none, or closes.
LEMMA HearStep ==
  ASSUME LineInv, F!Hears \/ F!HearsNothing \/ F!CallClosed \/ F!Close
  PROVE  LineInv'
<1>1. UNCHANGED <<caller, frames, line, far, got, back>> /\ (hungUp => hungUp') /\ hungUp' \in BOOLEAN
  BY DEF F!Hears, F!HearsNothing, F!CallClosed, F!Close, LineInv, LineKinds
<1>2. InHand'
  BY <1>1, HandStays DEF LineInv
<1>3. F!RepliesInStep'
  BY <1>1 DEF LineInv, F!RepliesInStep
<1>4. SUFFICES heard' \in Seq(Replies) /\ LineHeard'
  BY <1>1, <1>2, <1>3, Zenon DEF LineInv, LineKinds
<1>5. \A i \in DOMAIN frames : i \in DOMAIN frames' /\ frames'[i] = frames[i]
  BY <1>1
<1>6. F!Lost \in Replies /\ F!Closed \in Replies
  BY DEF Replies, F!Lost, F!Closed, F!Reply, F!Json
<1>7. CASE F!Hears
  <2>1. PICK i \in Nat : i = Len(heard) + 1
    BY DEF LineInv, LineKinds
  <2>2. ~hungUp /\ i \in DOMAIN back /\ back[i] # F!Half /\ heard' = Append(heard, back[i])
    BY <1>7, <2>1 DEF F!Hears, LineInv, LineKinds
  <2>3. i \in DOMAIN frames /\ back[i] = F!Means(frames[i])
    BY <2>2 DEF LineInv, F!RepliesInStep
  <2>4. frames[i] \in Sendable
    BY <2>3 DEF LineInv, LineKinds
  <2>5. back[i] \in Replies \ {F!Lost, F!Closed}
    BY <2>3, <2>4, MeansAre
  <2>6. QED
    BY <1>1, <1>5, <2>1, <2>2, <2>3, <2>5, HeardMore
<1>8. CASE F!HearsNothing
  <2>1. ~hungUp /\ hungUp' /\ heard' = Append(heard, F!Lost)
    BY <1>8 DEF F!HearsNothing
  <2>2. QED
    BY <1>1, <1>5, <1>6, <2>1, HeardMore
<1>9. CASE F!CallClosed
  <2>1. hungUp /\ heard' = Append(heard, F!Closed)
    BY <1>9 DEF F!CallClosed
  <2>2. QED
    BY <1>1, <1>5, <1>6, <2>1, HeardMore
<1>10. CASE F!Close
  <2>1. heard' = heard
    BY <1>10 DEF F!Close
  <2>2. LineHeard /\ heard' \in Seq(Replies)
    BY <2>1 DEF LineInv, LineKinds
  <2>3. QED
    BY <1>1, <1>5, <2>1, <2>2, HeardStays
<1>11. QED
  BY <1>7, <1>8, <1>9, <1>10

\* The far end reads a byte, or no more of them.
LEMMA ReadStep ==
  ASSUME LineInv, F!First \/ F!Rest \/ F!Quiet
  PROVE  LineInv'
<1>1. UNCHANGED <<caller, frames, hungUp, heard, back>>
  BY DEF F!First, F!Rest, F!Quiet, F!near
<1>2. LineHeard' /\ F!RepliesInStep'
  BY <1>1, Zenon DEF LineInv, LineHeard, F!RepliesInStep
<1>3. CASE F!First \/ F!Rest
  <2>1. ReadOne
    <3>1. CASE F!First
      <4>1. far = "idle" /\ far' = "rest" /\ line # <<>> /\ line' = Tail(line) /\ got' = <<Head(line)>>
        BY <3>1 DEF F!First
      <4>2. got = <<>>
        BY <4>1 DEF LineInv, InHand
      <4>3. got' = Append(got, Head(line))
        BY <4>1, <4>2
      <4>4. QED
        BY <1>1, <4>1, <4>3 DEF ReadOne
    <3>2. CASE F!Rest
      BY <1>1, <3>2 DEF F!Rest, ReadOne, F!near
    <3>3. QED
      BY <1>3, <3>1, <3>2
  <2>2. InHand' /\ Len(got') <= 4 /\ got' \in Seq(0..Most) /\ line' \in Seq(0..Most)
    BY <2>1, ByteRead
  <2>3. far' = "rest"
    BY <2>1 DEF ReadOne
  <2>4. LineKinds'
    BY <1>1, <2>2, <2>3 DEF LineInv, LineKinds
  <2>5. QED
    BY <1>2, <2>2, <2>4 DEF LineInv
<1>4. CASE F!Quiet
  <2>1. UNCHANGED <<line, got>> /\ far' = "closed"
    BY <1>4 DEF F!Quiet
  <2>2. InHand'
    BY <2>1 DEF InHand
  <2>3. LineKinds'
    BY <1>1, <2>1, Zenon DEF LineInv, LineKinds
  <2>4. QED
    BY <1>2, <2>2, <2>3 DEF LineInv
<1>5. QED
  BY <1>3, <1>4

\* The far end answers, or cannot, and reads on or closes.
LEMMA AnswerStep ==
  ASSUME LineInv, F!NotRead \/ F!Answer \/ F!AnswerFails
  PROVE  LineInv'
<1>1. /\ UNCHANGED <<caller, frames, hungUp, heard, line>> /\ far = "rest" /\ far' \in {"idle", "closed"}
      /\ got' = <<>>
  BY DEF F!NotRead, F!Answer, F!AnswerFails, F!near
<1>2. LineHeard'
  BY <1>1, Zenon DEF LineInv, LineHeard
<1> DEFINE f == frames[Len(back) + 1]
<1>3. f \in Sendable /\ \A b \in 1..Len(got) : got[b] = f[b]
  BY <1>1, HasOfIt
<1>4. got \in Seq(0..Most) /\ Len(got) \in 1..Len(f) /\ Len(got) <= 4
  BY <1>1 DEF LineInv, LineKinds, InHand
<1> HIDE DEF f
<1>5. /\ F!Unreadable(got) => F!Means(f) = F!Unread(got)
      /\ F!Whole(got) /\ F!Decodes(got) => F!Means(f) = F!Answered(got)
  BY <1>3, <1>4, ReadsAre
<1>6. F!Means(f) \in Replies /\ F!Half \in Replies
  BY <1>3, MeansAre DEF Replies, F!Half, F!Reply, F!Json
<1>7. back' = back \/ back' = Append(back, F!Half) \/ back' = Append(back, F!Means(f))
  BY <1>5 DEF F!NotRead, F!Answer, F!AnswerFails
<1>8. F!RepliesInStep' /\ back' \in Seq(Replies)
  <2>1. CASE back' = back
    BY <1>1, <2>1 DEF LineInv, LineKinds, F!RepliesInStep
  <2>2. CASE back' = Append(back, F!Half)
    BY <1>1, <1>6, <2>2, RepliesStay
  <2>3. CASE back' = Append(back, F!Means(f))
    BY <1>1, <1>6, <2>3, RepliesStay DEF f
  <2>4. QED
    BY <1>7, <2>1, <2>2, <2>3
<1>9. LineKinds'
  <2>1. got' \in Seq(0..Most) /\ Len(got') <= 4
    BY <1>1
  <2>2. QED
    BY <1>1, <1>8, <2>1 DEF LineInv, LineKinds
<1>10. InHand'
  <2>1. CASE far' = "closed"
    BY <2>1 DEF InHand
  <2>2. CASE far' = "idle"
    <3>1. AnswersOne
      BY <1>1, <2>2 DEF AnswersOne, F!NotRead, F!Answer, F!AnswerFails
    <3>2. QED
      BY <3>1, CallAnswered
  <2>3. QED
    BY <1>1, <2>1, <2>2
<1>11. QED
  BY <1>2, <1>8, <1>9, <1>10 DEF LineInv

LEMMA LineStep ==
  ASSUME LineInv, F!Next
  PROVE  LineInv'
<1>1. CASE \E f \in F!Calls \cup {F!Empty, F!Short, F!Large} : F!Send(f) \/ F!SendPart(f)
  BY <1>1, SendStep DEF Sendable
<1>2. CASE \E asks \in {F!Plain, F!NewerFamily, F!ReplyTooLarge} : F!Call(asks) \/ F!CallCut(asks)
  BY <1>2, CallStep
<1>3. CASE F!Hears \/ F!HearsNothing \/ F!Close \/ F!CallClosed
  BY <1>3, HearStep
<1>4. CASE F!First \/ F!Rest \/ F!Quiet
  BY <1>4, ReadStep
<1>5. CASE F!NotRead \/ F!Answer \/ F!AnswerFails
  BY <1>5, AnswerStep
<1>6. QED
  BY <1>1, <1>2, <1>3, <1>4, <1>5 DEF F!Next

LEMMA LineStays ==
  ASSUME LineInv, UNCHANGED framing
  PROVE  LineInv'
<1>1. UNCHANGED <<caller, frames, line, hungUp, heard, far, got, back>>
  BY DEF framing
<1>2. InHand'
  BY <1>1, HandStays DEF LineInv
<1>3. QED
  BY <1>1, <1>2, Zenon DEF LineInv, LineKinds, LineHeard, F!RepliesInStep

LEMMA LineTells == LineInv => F!TypeOK /\ F!RepliesInStep /\ F!HearsItsOwn
<1>1. SUFFICES ASSUME LineInv
               PROVE  F!TypeOK /\ F!RepliesInStep /\ F!HearsItsOwn
  OBVIOUS
<1>2. F!TypeOK
  <2>1. Len(got) \in Nat /\ Len(got) <= 4
    BY <1>1 DEF LineInv, LineKinds
  <2>2. Len(got) <= 2 + Most
    BY <2>1, MostIs
  <2>3. \A b \in DOMAIN line : line[b] \in 0..Most
    <3>1. line \in Seq(0..Most)
      BY <1>1 DEF LineInv, LineKinds
    <3>2. DOMAIN line = 1..Len(line)
      BY <3>1
    <3>3. QED
      BY <3>1, <3>2, OfSeq
  <2>4. QED
    BY <1>1, <2>2, <2>3 DEF LineInv, LineKinds, F!TypeOK
<1>3. QED
  BY <1>1, <1>2 DEF LineInv, LineHeard, F!HearsItsOwn

\* For any number of tries, pieces, amounts and columns: the reader of an ask that is over has all
\* of one try, or hears that it failed, and has been told all that it cost (mind/provider.rs); the
\* events of the ask know what the reader was told or that they do not know it (mind/accounting.rs);
\* what is said to be measured was said (config/apis.lua); and however many frames, of whatever sizes,
\* are sent on a line, each is answered as what it is or is not (serving/talking.rs, framing.rs,
\* mind/lua/stream.rs).
THEOREM LeavesAllWith == Runs => []LeftWith
<1> DEFINE Inv == /\ part = "turn" => TurnInv
                  /\ part = "accounting" => AccInv
                  /\ part = "measures" => MeasInv
                  /\ part = "line" => LineInv
           Others == <<part, asking, signing, parsing, accounting, measuring, packing, offering, framing, reading>>
<1>1. Begins => Inv
  <2>1. ASSUME M!MeasuresInit
        PROVE  A!Init
    <3>1. M!Zero = A!Zero /\ M!Unsaid = A!Unsaid /\ M!Undispatched = A!Undispatched
      BY DEF M!Zero, A!Zero, M!Unsaid, A!Unsaid, M!Undispatched, A!Undispatched
    <3>2. M!Init
      BY <2>1 DEF M!MeasuresInit
    <3>3. QED
      BY <3>1, <3>2 DEF M!Init, A!Init
  <2>2. QED
    BY <2>1, TurnBegins, AccBegins, MeasBegins, LineBegins DEF Begins
<1>2. ASSUME Inv, [Goes]_Others
      PROVE  Inv'
  <2>1. CASE part = "turn" /\ Next /\ UNCHANGED part
    BY <1>2, <2>1, TurnStep
  <2>2. CASE part = "accounting" /\ A!Next /\ UNCHANGED part
    BY <1>2, <2>2, AccStep
  <2>3. CASE part = "measures" /\ M!MeasuresNext /\ UNCHANGED part
    BY <1>2, <2>3, MeasStep
  <2>4. CASE part = "line" /\ F!Next /\ UNCHANGED part
    BY <1>2, <2>4, LineStep
  <2>5. CASE /\ UNCHANGED part /\ (part = "turn" => UNCHANGED asking)
             /\ (part = "accounting" => UNCHANGED accounting)
             /\ (part = "measures" => UNCHANGED <<accounting, measuring>>)
             /\ (part = "line" => UNCHANGED framing)
    BY <1>2, <2>5, TurnStays, AccStays, MeasStays, LineStays
  <2>6. QED
    BY <1>2, <2>1, <2>2, <2>3, <2>4, <2>5 DEF Goes, Asking, Signing
<1>3. Inv => LeftWith
  BY TurnTells, AccSays, MeasSays, LineTells DEF LeftWith, Asking
<1>4. Inv /\ [Goes]_Others => Inv'
  BY <1>2
<1>5. QED
  BY <1>1, <1>3, <1>4, PTL DEF Runs

================================================================================
