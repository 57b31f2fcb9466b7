--------------------------------- MODULE LP ---------------------------------
(***************************************************************************)
(* lp.c with lp-cplex.c, lp-gurobi.c and lp-lpsolve.c: one interface of    *)
(* linear programs over three solvers, which number rows and columns       *)
(* differently, delete them one by one or by ranges, at once or later, and *)
(* say by different words that they are done.  The solvers are external:   *)
(* modelled is what they do with the calls of these files.                 *)
(***************************************************************************)
EXTENDS Integers, FiniteSets, SequencesExt

CONSTANTS
  MaxRows, MaxCols,   \* bounds on the size of a program
  MaxCalls,           \* bound on the calls after borLPNew
  None                \* a null pointer

VARIABLES
  store,    \* solver: which one; cells: the table it keeps, with the objective
            \* before the rows and the right-hand side before the columns;
            \* senses of the rows; vars: range and type of the columns;
            \* dropped: rows that Gurobi will delete with its next update;
            \* mip: CPLEX is to use its mixed-integer optimizer; calls so far
  result    \* the last call and what it returned

Solvers == {"cplex", "gurobi", "lpsolve"}
Requests == Solvers \cup {"default"}
Infinity == 1000
Unset == "unset"    \* the sense of a row of borLPNew, which each solver chooses
Integral == {"integer", "binary"}

\* The solver of borLPNew among those the library was built with; None: exit.
Chosen(asked, built) ==
  CASE asked \in built -> asked
    [] asked \in Solvers \ built -> None
    [] "cplex" \in built -> "cplex"
    [] "gurobi" \in built -> "gurobi"
    [] "lpsolve" \in built -> "lpsolve"
    [] OTHER -> None

SolverAvailable(asked, built) == IF asked \in Solvers THEN asked \in built ELSE built # {}

Zeros(n) == [i \in 1..n |-> 0] \o <<>>
NewVar == [lb |-> 0, ub |-> Infinity, type |-> "continuous"]

New(solver, rows, cols) ==
  [solver |-> solver,
   cells |-> [r \in 1..(rows + 1) |-> Zeros(cols + 1)] \o <<>>,
   senses |-> [r \in 1..rows |-> Unset] \o <<>>,
   vars |-> [c \in 1..cols |-> NewVar] \o <<>>,
   dropped |-> {}, mip |-> FALSE, calls |-> 0]

-----------------------------------------------------------------------------
(* The solvers.  lpsolve counts rows and columns from 1 and calls the      *)
(* objective row 0; CPLEX counts from 0 and calls the objective row -1 and *)
(* the right-hand side column -1.  Gurobi counts from 0 and has names for  *)
(* these two.                                                              *)

Aside(s) == IF s.solver = "lpsolve" THEN 0 ELSE -1
Place(s, n) == n - Aside(s) + 1

SetCell(s, row, col, v) == [s EXCEPT !.cells[Place(s, row)][Place(s, col)] = v]

Cut(seq, first, last) == SubSeq(seq, 1, first - 1) \o SubSeq(seq, last + 1, Len(seq))

\* Rows, and columns, from first to last as the solver counts them.
WithoutRows(s, first, last) ==
  [s EXCEPT !.cells = Cut(@, Place(s, first), Place(s, last)),
            !.senses = Cut(@, Place(s, first) - 1, Place(s, last) - 1)]
WithoutCols(s, first, last) ==
  [s EXCEPT !.cells = [r \in DOMAIN @ |-> Cut(@[r], Place(s, first), Place(s, last))] \o <<>>,
            !.vars = Cut(@, Place(s, first) - 1, Place(s, last) - 1)]

\* GRBupdatemodel: what was to be deleted goes; the others do it at once.
Updated(s) ==
  LET kept == SelectSeq([r \in DOMAIN s.senses |-> r - 1] \o <<>>, LAMBDA r : r \notin s.dropped)
  IN  [s EXCEPT !.cells = <<@[1]>> \o ([i \in DOMAIN kept |-> @[kept[i] + 2]] \o <<>>),
                !.senses = [i \in DOMAIN kept |-> @[kept[i] + 1]] \o <<>>,
                !.dropped = {}]

-----------------------------------------------------------------------------
(* The calls.  The number of a row or column is turned into the solver's.  *)

Number(s, i) == IF s.solver = "lpsolve" THEN i + 1 ELSE i

SetObj(s, i, v) == SetCell(s, Aside(s), Number(s, i), v)
SetCoef(s, row, col, v) == Updated(SetCell(s, Number(s, row), Number(s, col), v))
SetRHS(s, row, v, sense) ==
  [SetCell(s, Number(s, row), Aside(s), v) EXCEPT !.senses[row + 1] = sense]

SetVarRange(s, i, lb, ub) == [s EXCEPT !.vars[i + 1] = [@ EXCEPT !.lb = lb, !.ub = ub]]
SetVarFree(s, i) == SetVarRange(s, i, -Infinity, Infinity)
\* A bug the checks must find: only integer variables make a program mixed.
SetTypeInteger(s, i, type) ==
  [s EXCEPT !.vars[i + 1].type = type, !.mip = @ \/ (s.solver = "cplex" /\ type = "integer")]

SetType(s, i, type) == [s EXCEPT !.vars[i + 1].type = type, !.mip = (s.solver = "cplex")]

SetVarInt(s, i) == SetType(s, i, "integer")
SetVarBinary(s, i) ==
  IF s.solver = "lpsolve" THEN SetVarInt(SetVarRange(s, i, 0, 1), i) ELSE SetType(s, i, "binary")

\* Without rhs a row has 0, without sense it is an equation.
AddRows(s, cnt, rhs, sense) ==
  LET row(i) == <<IF rhs = None THEN 0 ELSE rhs[i]>> \o Zeros(Len(s.vars))
      added == [s EXCEPT
        !.cells = @ \o ([i \in 1..cnt |-> row(i)] \o <<>>),
        !.senses = @ \o (IF sense = None THEN [i \in 1..cnt |-> "E"] \o <<>> ELSE sense)]
  IN Updated(added)

AddCols(s, cnt) ==
  Updated([s EXCEPT !.cells = [r \in DOMAIN @ |-> @[r] \o Zeros(cnt)] \o <<>>,
                    !.vars = @ \o ([c \in 1..cnt |-> NewVar] \o <<>>)])

CplexDelRows(s, begin, end) == WithoutRows(s, begin, end)
GurobiDelRows(s, begin, end) == [s EXCEPT !.dropped = @ \cup begin..end]

\* A bug the checks must find: the number counts on while the rows move up.
LpsolveDelRowsOn(s, begin, end) ==
  FoldLeft(LAMBDA t, i : IF i > Len(t.senses) THEN t ELSE WithoutRows(t, i, i),
           s, [n \in 1..(end - begin + 1) |-> begin + n])

\* One row at a time, each of which has the number of the first.
LpsolveDelRows(s, begin, end) ==
  FoldLeft(LAMBDA t, i : WithoutRows(t, i + 1, i + 1), s, [n \in 1..(end - begin + 1) |-> begin])

DelRows(s, begin, end) ==
  CASE s.solver = "cplex" -> CplexDelRows(s, begin, end)
    [] s.solver = "gurobi" -> GurobiDelRows(s, begin, end)
    [] s.solver = "lpsolve" -> LpsolveDelRows(s, begin, end)

\* lpsolve is given the number that counts from 0: a column before each of
\* those named goes, and none when it is asked for column 0.
LpsolveDelCols(s, begin, end) ==
  FoldLeft(LAMBDA t, i : IF begin \in 1..Len(t.vars) THEN WithoutCols(t, begin, begin) ELSE t,
           s, [n \in 1..(end - begin + 1) |-> begin])

DelCols(s, begin, end) ==
  IF s.solver = "lpsolve" THEN LpsolveDelCols(s, begin, end)
  ELSE Updated(WithoutCols(s, begin, end))

\* A bug the checks must find: the objective is counted with the rows.
NumRowsAll(s) == Len(s.cells)

\* Gurobi counts the rows to be deleted until its next update, and numbers the
\* others with them.
NumRows(s) == Len(s.senses)
NumCols(s) == Len(s.vars)

\* What a solver may say of its attempt, and what counts as a solution.
Outcomes == {"optimal", "nearly", "failure", "none"}
Accepted(s) == IF s.solver = "gurobi" THEN {"optimal"} ELSE {"optimal", "nearly"}

\* lpsolve is asked again after a numerical failure, once.
Outcome(s, first, again) == IF s.solver = "lpsolve" /\ first = "failure" THEN again ELSE first

\* CPLEX exits when it is to solve a program with integers as one without.
Refused(s) == s.solver = "cplex" /\ ~s.mip /\ \E i \in DOMAIN s.vars : s.vars[i].type \in Integral

-----------------------------------------------------------------------------
(* The program that a table stands for.  The solvers take a binary         *)
(* variable for 0 or 1 whatever range it has.                              *)

VarOf(v) == IF v.type = "binary" THEN [lb |-> 0, ub |-> 1, whole |-> TRUE]
            ELSE [lb |-> v.lb, ub |-> v.ub, whole |-> v.type = "integer"]

Program(s) ==
  LET t == Updated(s)
  IN  [objective |-> Tail(t.cells[1]),
       rows |-> [r \in DOMAIN t.senses |->
                   [rhs |-> t.cells[r + 1][1], sense |-> t.senses[r], coefs |-> Tail(t.cells[r + 1])]],
       vars |-> [c \in DOMAIN t.vars |-> VarOf(t.vars[c])]]

\* A caller does not change the range or the type of a binary variable.
Open(s, i) == s.vars[i + 1].type # "binary"

-----------------------------------------------------------------------------
Rows == 0..(NumRows(store) - 1)
Cols == 0..(NumCols(store) - 1)

Init ==
  /\ \E solver \in Solvers, rows \in {0, MaxRows}, cols \in {0, MaxCols} :
       store = New(solver, rows, cols)
  /\ result = None

Becomes(call, s) ==
  /\ store.calls < MaxCalls
  /\ store' = [s EXCEPT !.calls = @ + 1]
  /\ result' = [call |-> call, ret |-> None]

SetObjCall == \E i \in Cols : Becomes(<<"obj", i, 7>>, SetObj(store, i, 7))
SetRangeCall == \E i \in Cols :
  Open(store, i) /\ Becomes(<<"range", i, 2, 5>>, SetVarRange(store, i, 2, 5))
SetFreeCall == \E i \in Cols :
  Open(store, i) /\ Becomes(<<"range", i, -Infinity, Infinity>>, SetVarFree(store, i))
SetIntCall == \E i \in Cols : Open(store, i) /\ Becomes(<<"integer", i>>, SetVarInt(store, i))
SetBinaryCall == \E i \in Cols : Becomes(<<"binary", i>>, SetVarBinary(store, i))
SetCoefCall == \E r \in Rows, i \in Cols : Becomes(<<"coef", r, i, 7>>, SetCoef(store, r, i, 7))
SetRHSCall == \E r \in Rows : Becomes(<<"rhs", r, 7, "L">>, SetRHS(store, r, 7, "L"))

\* The end of the program: Gurobi's addRows reads the senses without a look
\* whether there are any.
Crashes(call) ==
  /\ store.calls < MaxCalls
  /\ store' = [store EXCEPT !.calls = MaxCalls]
  /\ result' = [call |-> call, ret |-> "crash"]

AddRowsCall == \E cnt \in 1..(MaxRows - NumRows(store)) :
  \E rhs \in {None, SubSeq(<<3, 4, 5>>, 1, cnt)}, sense \in {None, SubSeq(<<"L", "G", "E">>, 1, cnt)} :
    IF store.solver = "gurobi" /\ sense = None THEN Crashes(<<"addrows", cnt, rhs, sense>>)
    ELSE Becomes(<<"addrows", cnt, rhs, sense>>, AddRows(store, cnt, rhs, sense))
AddColsCall == \E cnt \in 1..(MaxCols - NumCols(store)) :
  Becomes(<<"addcols", cnt>>, AddCols(store, cnt))
DelRowsCall == \E begin, end \in Rows :
  /\ begin <= end
  /\ Becomes(<<"delrows", begin, end>>, DelRows(store, begin, end))
DelColsCall == \E begin, end \in Cols :
  /\ begin <= end
  /\ Becomes(<<"delcols", begin, end>>, DelCols(store, begin, end))

SolveCall == \E first, again \in Outcomes :
  LET s == Updated(store)
  IN  /\ store.calls < MaxCalls
      /\ store' = [s EXCEPT !.calls = @ + 1]
      /\ result' = [call |-> <<"solve", first, again>>,
                    ret |-> IF Refused(s) THEN "exit" ELSE IF Outcome(s, first, again) \in Accepted(s) THEN 0 ELSE -1]

Next ==
  \/ SetObjCall \/ SetRangeCall \/ SetFreeCall \/ SetIntCall \/ SetBinaryCall \/ SetCoefCall
  \/ SetRHSCall \/ AddRowsCall \/ AddColsCall \/ DelRowsCall \/ DelColsCall \/ SolveCall

-----------------------------------------------------------------------------
(* What lp.h promises of the calls, whatever the solver.                   *)

Kept(seq, begin, end) == SelectSeq([i \in DOMAIN seq |-> i] \o <<>>, LAMBDA i : i - 1 \notin begin..end)

Meant(p, call) ==
  CASE call[1] = "obj" -> [p EXCEPT !.objective[call[2] + 1] = call[3]]
    [] call[1] = "range" -> [p EXCEPT !.vars[call[2] + 1] = [@ EXCEPT !.lb = call[3], !.ub = call[4]]]
    [] call[1] = "integer" -> [p EXCEPT !.vars[call[2] + 1].whole = TRUE]
    [] call[1] = "binary" -> [p EXCEPT !.vars[call[2] + 1] = [lb |-> 0, ub |-> 1, whole |-> TRUE]]
    [] call[1] = "coef" -> [p EXCEPT !.rows[call[2] + 1].coefs[call[3] + 1] = call[4]]
    [] call[1] = "rhs" -> [p EXCEPT !.rows[call[2] + 1] = [@ EXCEPT !.rhs = call[3], !.sense = call[4]]]
    [] call[1] = "addrows" ->
         [p EXCEPT !.rows = @ \o [i \in 1..call[2] |->
           [rhs |-> IF call[3] = None THEN 0 ELSE call[3][i],
            sense |-> IF call[4] = None THEN "E" ELSE call[4][i],
            coefs |-> Zeros(Len(p.vars))]]]
    [] call[1] = "addcols" ->
         [objective |-> p.objective \o Zeros(call[2]),
          rows |-> [r \in DOMAIN p.rows |-> [p.rows[r] EXCEPT !.coefs = @ \o Zeros(call[2])]],
          vars |-> p.vars \o [i \in 1..call[2] |-> VarOf(NewVar)]]
    [] call[1] = "delrows" ->
         LET kept == Kept(p.rows, call[2], call[3])
         IN  [p EXCEPT !.rows = [i \in DOMAIN kept |-> p.rows[kept[i]]]]
    [] call[1] = "delcols" ->
         LET kept == Kept(p.vars, call[2], call[3])
             rest(seq) == [i \in DOMAIN kept |-> seq[kept[i]]]
         IN  [objective |-> rest(p.objective),
              rows |-> [r \in DOMAIN p.rows |-> [p.rows[r] EXCEPT !.coefs = rest(@)]],
              vars |-> rest(p.vars)]
    [] OTHER -> p

\* A solution is reported when the solver has one, and only then; a solver
\* that says "nearly" may be believed or not.
Answers(call, ret) ==
  call[1] = "solve" =>
    /\ ret \in {0, -1}
    /\ call[2] = "optimal" => ret = 0
    /\ call[2] = "none" => ret = -1

\* Where the code does not keep the promise: the deletion of columns with
\* lpsolve, rows added without senses with Gurobi, and the number of a row
\* given to Gurobi while others wait for their deletion.
Astray(call) ==
  \/ call[1] = "delcols" /\ store.solver = "lpsolve"
  \/ call[1] = "addrows" /\ store.solver = "gurobi" /\ call[4] = None
  \/ call[1] \in {"coef", "rhs", "delrows"} /\ store.dropped # {}

Promised == /\ Astray(result'.call) \/ Program(store') = Meant(Program(store), result'.call)
            /\ Answers(result'.call, result'.ret)

\* The table is a table, only Gurobi delays, and CPLEX knows of every integer.
WellFormed(s) ==
  /\ Len(s.cells) = Len(s.senses) + 1
  /\ \A r \in DOMAIN s.cells : Len(s.cells[r]) = Len(s.vars) + 1
  /\ s.dropped \subseteq 0..(NumRows(s) - 1)
  /\ s.dropped = {} \/ s.solver = "gurobi"
  /\ ~Refused(s)

\* The numbers of rows and columns are those of the program and, until Gurobi's
\* next update, of the rows that it has yet to delete; and a solver is available
\* just when borLPNew finds it.
AnswersRight(s) ==
  /\ NumRows(s) = Len(Program(s).rows) + Cardinality(s.dropped)
  /\ NumCols(s) = Len(Program(s).vars)
  /\ \A asked \in Requests, built \in SUBSET Solvers :
       SolverAvailable(asked, built) <=> Chosen(asked, built) # None
=============================================================================
