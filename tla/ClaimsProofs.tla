----------------------------- MODULE ClaimsProofs -----------------------------
(***************************************************************************)
(* As long as the sessions that claim stay and none lets go, link(2)       *)
(* settles a claim for every number of agents and of their tools: whoever  *)
(* looks for a holder finds the living one, and nobody comes to the point  *)
(* of clearing it.                                                         *)
(***************************************************************************)
EXTENDS Claims, TLAPS

\* Where a call is about to unlink the record, whatever is in it.
Clearing == {"clear", "lclear", "aclear", "fclear"}

\* A tool is out, for a session, as long as it has a call to make.
ToolsOut == \A t \in Tools : pc[t] = "idle" <=> speaks[t] = NoOne

\* What calm keeps: the holder recorded is there and so is whoever asks, nobody else was told the
\* work is its own, nobody is about to unlink its record, whoever asks a holder asks that one, and
\* whoever forgets a session's claims forgets somebody else's.
Kept ==
  /\ claim # NoOne => Present(claim)
  /\ \A t \in Tools : pc[t] \in {"link", "read", "ask"} => Present(speaks[t])
  /\ holds \subseteq {claim}
  /\ \A x \in Procs : pc[x] \notin Clearing
  /\ \A x \in Procs : pc[x] \in {"read", "aread"} => claim # NoOne
  /\ \A x \in Procs : pc[x] \in {"ask", "aask"} => seen[x] = claim /\ claim # NoOne
  /\ \A x \in Procs : pc[x] = "fread" => seen[x] \in Sessions /\ seen[x] # claim
  /\ \A x \in Procs : pc[x] = "fread" => seen[x] = x \/ seen[x] \notin alive

IInv == TypeOK /\ ToolsOut /\ (calm => Kept)

LEMMA InitIInv == Init => IInv
<1> SUFFICES ASSUME Init PROVE TypeOK /\ ToolsOut /\ (calm => Kept)
  BY DEF IInv
<1>1. TypeOK /\ ToolsOut
  <2>1. calm \in BOOLEAN
    BY DEF Init
  <2>2. QED
    BY <2>1, ClaimKinds DEF Init, TypeOK, ToolsOut, Procs, Calls
<1>2. ASSUME calm PROVE Kept
  <2>1. claim = NoOne
    BY <1>2 DEF Init
  <2>2. QED
    BY <2>1, ClaimKinds DEF Init, Kept, Procs, Clearing
<1>3. QED
  BY <1>1, <1>2

LEMMA StepTyped == TypeOK /\ ToolsOut /\ [Next]_vars => TypeOK' /\ ToolsOut'
<1> SUFFICES ASSUME TypeOK, ToolsOut, [Next]_vars
             PROVE  TypeOK' /\ ToolsOut'
  OBVIOUS
<1> USE ClaimKinds DEF ToolsOut, TypeOK, Procs, Calls, To
<1>1. ASSUME NEW t \in Tools, Claiming(t) \/ Letting(t) \/ Killed(t)
      PROVE  TypeOK' /\ ToolsOut'
  <2>1. CASE NamedAt(t)
    BY <2>1 DEF NamedAt, Granted, On, Out
  <2>2. CASE ReadHeld(t)
    BY <2>2 DEF ReadHeld, Granted, Denied, On, Out
  <2>3. CASE AskHolder(t)
    BY <2>3 DEF AskHolder, Denied, On, Out
  <2>4. CASE ClearHeld(t)
    BY <2>4 DEF ClearHeld, Denied, Out
  <2>5. CASE ReadOwn(t)
    <3>1. calm' \in BOOLEAN
      BY <2>5, Zenon DEF ReadOwn
    <3>2. CASE On(t, "lclear")
      BY <2>5, <3>1, <3>2 DEF ReadOwn, On
    <3>3. CASE Out(t) /\ holds' = holds \ {speaks[t]}
      BY <2>5, <3>1, <3>3 DEF ReadOwn, Out
    <3>4. QED
      BY <2>5, <3>2, <3>3 DEF ReadOwn
  <2>6. CASE ClearOwn(t)
    BY <2>6 DEF ClearOwn, Out
  <2>7. CASE Killed(t)
    BY <2>7 DEF Killed, Out
  <2>8. QED
    BY <1>1, <2>1, <2>2, <2>3, <2>4, <2>5, <2>6, <2>7 DEF Claiming, Letting
<1>2. ASSUME NEW t \in Tools, NEW s \in Sessions, Take(t, s) \/ LetGo(t, s)
      PROVE  TypeOK' /\ ToolsOut'
  <2>1. CASE Take(t, s)
    <3>1. calm' \in BOOLEAN
      BY <2>1 DEF Take
    <3>2. QED
      BY <2>1, <3>1 DEF Take
  <2>2. CASE LetGo(t, s)
    BY <2>2 DEF LetGo
  <2>3. QED
    BY <1>2, <2>1, <2>2
<1>3. ASSUME NEW s \in Sessions, Leave(s) \/ Die(s) \/ Rise(s)
      PROVE  TypeOK' /\ ToolsOut'
  <2>1. calm' \in BOOLEAN
    BY <1>3 DEF Leave, Die, Rise
  <2>2. CASE Leave(s)
    BY <2>1, <2>2 DEF Leave
  <2>3. CASE Die(s)
    BY <2>1, <2>3 DEF Die
  <2>4. CASE Rise(s)
    BY <2>4 DEF Rise
  <2>5. QED
    BY <1>3, <2>2, <2>3, <2>4
<1>4. ASSUME NEW l \in Listers, List(l) \/ Listing(l) \/ \E d \in Sessions : Forget(l, d)
      PROVE  TypeOK' /\ ToolsOut'
  BY <1>4 DEF List, Listing, ListRead, ListAsk, ListClear, Forget, Through
<1>5. ASSUME NEW x \in Sessions \cup Listers, ForgetRead(x) \/ ForgetClear(x)
      PROVE  TypeOK' /\ ToolsOut'
  BY <1>5 DEF ForgetRead, ForgetClear, Forgotten, Through
<1>6. CASE UNCHANGED vars
  BY <1>6 DEF vars
<1>7. QED
  BY <1>1, <1>2, <1>3, <1>4, <1>5, <1>6 DEF Next

\* calm is lost for good.
LEMMA OnceLost == TypeOK /\ [Next]_vars /\ calm' => calm
BY Zenon DEF TypeOK, Next, vars, Claiming, Letting, Listing, NamedAt, ReadHeld, AskHolder, ClearHeld, ReadOwn,
   ClearOwn, Killed, Take, LetGo, Leave, Die, Rise, List, ListRead, ListAsk, ListClear, Forget,
   ForgetRead, ForgetClear

LEMMA StepKept == TypeOK /\ ToolsOut /\ Kept /\ [Next]_vars /\ calm' => Kept'
<1> SUFFICES ASSUME TypeOK, ToolsOut, Kept, [Next]_vars, calm'
             PROVE  Kept'
  OBVIOUS
<1> USE ClaimKinds DEF ToolsOut, Kept, TypeOK, Procs, Clearing, To, Present
<1>1. ASSUME NEW t \in Tools, Claiming(t) \/ Letting(t) \/ Killed(t)
      PROVE  Kept'
  <2>1. CASE NamedAt(t)
    BY <2>1 DEF NamedAt, Granted, On, Out
  <2>2. CASE ReadHeld(t)
    BY <2>2 DEF ReadHeld, Granted, Denied, On, Out
  <2>3. CASE AskHolder(t)
    BY <2>3 DEF AskHolder, Denied, On, Out
  <2>4. CASE ClearHeld(t)
    BY <2>4 DEF ClearHeld
  <2>5. CASE ReadOwn(t)
    BY <2>5 DEF ReadOwn, Out
  <2>6. CASE ClearOwn(t)
    BY <2>6 DEF ClearOwn
  <2>7. CASE Killed(t)
    BY <2>7 DEF Killed, Out
  <2>8. QED
    BY <1>1, <2>1, <2>2, <2>3, <2>4, <2>5, <2>6, <2>7 DEF Claiming, Letting
<1>2. ASSUME NEW t \in Tools, NEW s \in Sessions, Take(t, s) \/ LetGo(t, s)
      PROVE  Kept'
  <2>1. CASE Take(t, s)
    <3>1. Present(s)
      BY <2>1, Zenon DEF Take
    <3>2. QED
      BY <2>1, <3>1 DEF Take
  <2>2. CASE LetGo(t, s)
    BY <2>2 DEF LetGo
  <2>3. QED
    BY <1>2, <2>1, <2>2
<1>3. ASSUME NEW s \in Sessions, Leave(s) \/ Die(s) \/ Rise(s)
      PROVE  Kept'
  <2>1. (Leave(s) \/ Die(s)) /\ ~Engaged(s)
    BY <1>3, Zenon DEF Leave, Die, Rise
  <2>2. claim # s /\ s \notin holds /\ \A t \in Tools : speaks[t] # s
    BY <2>1 DEF Engaged
  <2>3. CASE Leave(s)
    BY <2>2, <2>3 DEF Leave
  <2>4. CASE Die(s)
    BY <2>2, <2>4 DEF Die
  <2>5. QED
    BY <2>1, <2>3, <2>4
<1>4. ASSUME NEW l \in Listers, List(l) \/ Listing(l) \/ \E d \in Sessions : Forget(l, d)
      PROVE  Kept'
  <2>1. CASE List(l)
    BY <2>1 DEF List
  <2>2. CASE ListRead(l)
    BY <2>2 DEF ListRead
  <2>3. CASE ListAsk(l)
    BY <2>3 DEF ListAsk, Through
  <2>4. CASE ListClear(l)
    BY <2>4 DEF ListClear
  <2>5. ASSUME NEW d \in Sessions, Forget(l, d)
        PROVE  Kept'
    BY <2>5 DEF Forget
  <2>6. QED
    BY <1>4, <2>1, <2>2, <2>3, <2>4, <2>5 DEF Listing
<1>5. ASSUME NEW x \in Sessions \cup Listers, ForgetRead(x) \/ ForgetClear(x)
      PROVE  Kept'
  <2>1. pc[x] = "fread" /\ claim # seen[x] /\ Forgotten(x) /\ UNCHANGED <<claim, alive, holds, speaks, pass>>
    BY <1>5 DEF ForgetRead, ForgetClear
  <2>2. x \in Sessions => claim # x
    BY <2>1
  <2>3. QED
    BY <2>1, <2>2 DEF Forgotten, Through
<1>6. CASE UNCHANGED vars
  BY <1>6 DEF vars
<1>7. QED
  BY <1>1, <1>2, <1>3, <1>4, <1>5, <1>6 DEF Next

LEMMA StepIInv == IInv /\ [Next]_vars => IInv'
BY StepTyped, OnceLost, StepKept DEF IInv

LEMMA Invariance == Spec => []IInv
BY InitIInv, StepIInv, PTL DEF Spec

\* Of any number of agents that ask for the same work, each through any number of tools, at most
\* one is told it is its own (Claims!OneHolder), as long as they stay and none lets go.
THEOREM Settled == Spec => []OneHolder
<1>1. IInv => OneHolder
  BY DEF IInv, Kept, OneHolder
<1>2. QED
  BY <1>1, Invariance, PTL

\* So long the record names whoever was told so (Claims!RecordBehind): a loser reads back who beat
\* it.
THEOREM Recorded == Spec => []RecordBehind
<1>1. IInv => RecordBehind
  BY DEF IInv, Kept, RecordBehind
<1>2. QED
  BY <1>1, Invariance, PTL
=============================================================================
