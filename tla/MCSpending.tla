------------------------------ MODULE MCSpending ------------------------------
(***************************************************************************)
(* What a session leaves in files as it works, by two parts that share no  *)
(* state: the ledger of its run, for three asks that cost nothing or much, *)
(* and its report, which outlives it.  A behaviour is one of one of them.  *)
(***************************************************************************)
EXTENDS Spending, TLC

CONSTANTS
  Ids, Runs, NoRun, MaxDepth, MaxChildren, Writer, Others, Talk,            \* Reports
  Tools, Says, PageLines, PageBytes, MaxLives, NoReport, Old

VARIABLES
  part,
  parents, runs, life, report, stages, has, told, look

R == INSTANCE Reports WITH
       up <- parents, run <- runs, file <- report, stage <- stages

ASSUME ReportPartKinds == R!ReportKinds /\ R!KinshipKinds

CONSTANTS a1, a2, a3, i1, i2, lead, other, beside

ThreeAsks == {a1, a2, a3}
TwoInodes == {i1, i2}
Symmetry == Permutations(Asks)

FourNames == {lead, other, beside, Writer}
ThreeRuns == {"ra", "rb", "rc"}
Notes(x, r) == [up |-> x, run |-> r]
ThreeOthers ==
  (lead :> Notes(Nobody, "ra")) @@ (other :> Notes(Nobody, "rb")) @@ (beside :> Notes(lead, "ra"))
TwoTools == {1, 2}
ThreeReports == (1 :> <<1, 3, 1, 1>>) @@ (2 :> <<0, 9>>) @@ (Old :> <<9>>)

reporting == <<parents, runs, life, report, stages, has, told, look>>

\* The part that is left alone is in its initial state.
Begins ==
  /\ Init /\ R!Init /\ part \in {"ledger", "report"}
  /\ part = "ledger" => report.of = NoReport

\* A report is read to its end.
Moves ==
  \/ part = "ledger" /\ Next /\ UNCHANGED <<part, reporting>>
  \/ part = "report" /\ (look.by # Nobody => ~look.whole) /\ R!Next /\ UNCHANGED <<part, vars>>

Books == Begins /\ [][Moves]_<<part, vars, reporting>>

----------------------------------------------------------------------------
\* Reports: nobody reads what its writer would not have told, the pages of a report are all of it,
\* and who was told of one finds it.
ReportIsTheirs == R!WithinWalls /\ R!PagesWhole /\ R!ToldOfWhatIsThere
=============================================================================
