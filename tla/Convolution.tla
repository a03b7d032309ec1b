---------------------------- MODULE Convolution ----------------------------
(***************************************************************************)
(* The program of async/: func splits the output of a convolution into     *)
(* four blocks, gives each to a std::async task, waits for the tasks and   *)
(* does the whole once more by itself.  The tasks share the input, which   *)
(* nobody writes, and the output, of which each writes its own block.      *)
(*                                                                         *)
(* A sum is the set of the products it adds: every call adds them in the   *)
(* order of the same two loops, so equal sets are equal sums, rounding     *)
(* included.  std::async may fail to start a thread; what was started then *)
(* still has references to the output of func, which is being unwound.     *)
(***************************************************************************)
EXTENDS Integers

CONSTANT Sizes    \* lengths of input and kernel that func is called with

ASSUME SizesAssumption == Sizes \subseteq [input : Nat, kernel : Nat]

VARIABLES
  size,      \* len1 and len2
  stage,     \* what func does
  count,     \* futures that func holds, then those it has waited for
  call,      \* per call of conv_block: "none", "running" or "ended"
  at,        \* per call, the cell <<i, j>> its loops have come to
  array      \* output and output1, cell by cell

convolutionVars == <<size, stage, count, call, at, array>>

Task == 1 .. 4
Single == 0                       \* func's own call of conv_block
Caller == {Single} \cup Task

OutputLen == size.input - size.kernel + 1
Half == OutputLen \div 2
Cells == (0 .. OutputLen - 1) \X (0 .. OutputLen - 1)

\* The bounds of the calls' loops: first .. end - 1.
Rows(t) == [first |-> IF t \in {3, 4} THEN Half ELSE 0,
            end |-> IF t \in {1, 2} THEN Half ELSE OutputLen]

\* Mutant: the halves leave out the middle column.
ColsApart(t) == [first |-> IF t \in {2, 4} THEN Half + 1 ELSE 0,
                 end |-> IF t \in {1, 3} THEN Half ELSE OutputLen]

Cols(t) == [first |-> IF t \in {2, 4} THEN Half ELSE 0,
            end |-> IF t \in {1, 3} THEN Half ELSE OutputLen]

Target(t) == IF t = Single THEN "output1" ELSE "output"

\* The products of cell c; those outside of the input are skipped.
Sum(c) ==
  LET k == 0 .. size.kernel - 1 IN
  {<<c[1] + m[1], c[2] + m[2], m>> :
     m \in {p \in k \X k : c[1] + p[1] < size.input /\ c[2] + p[2] < size.input}}

Running == {t \in Caller : call[t] = "running"}

ConvolutionInit == /\ size \in Sizes
                   /\ stage = IF OutputLen < 0 THEN "thrown" ELSE "launch"
                   /\ count = 0
                   /\ call = [t \in Caller |-> "none"]
                   /\ at = [t \in Caller |-> <<0, 0>>]
                   /\ array = [a \in {"output", "output1"} |-> [c \in Cells |-> {}]]

-----------------------------------------------------------------------------
Begin(t) == /\ call' = [call EXCEPT ![t] = "running"]
            /\ at' = [at EXCEPT ![t] = <<Rows(t).first, Cols(t).first>>]

\* The calls that are about to write a cell.
Writing == {t \in Running : at[t][1] < Rows(t).end /\ at[t][2] < Cols(t).end}

\* One cell of conv_block, or its end.
ConvBlock(t) ==
  LET i == at[t][1]
      j == at[t][2]
  IN
  /\ t \in Running
  /\ IF t \in Writing
     THEN /\ array' = [array EXCEPT ![Target(t)][at[t]] = Sum(at[t])]
          /\ at' = [at EXCEPT ![t] = IF j + 1 < Cols(t).end THEN <<i, j + 1>>
                                     ELSE <<i + 1, Cols(t).first>>]
          /\ UNCHANGED call
     ELSE /\ call' = [call EXCEPT ![t] = "ended"]
          /\ UNCHANGED <<array, at>>
  /\ UNCHANGED <<size, stage, count>>

\* std::async starts the next task, or throws.
Launch ==
  /\ stage = "launch" /\ count < 4
  /\ \/ Begin(count + 1) /\ count' = count + 1 /\ UNCHANGED stage
     \/ stage' = "unwind" /\ UNCHANGED <<call, at, count>>
  /\ UNCHANGED <<size, array>>

\* get() of the next future returns when its task has ended; after the last
\* one func calls conv_block itself.
Get ==
  /\ \/ /\ stage = "launch" /\ count = 4
        /\ stage' = "get" /\ count' = 0
        /\ UNCHANGED <<call, at>>
     \/ /\ stage = "get" /\ count < 4 /\ call[count + 1] = "ended"
        /\ count' = count + 1
        /\ UNCHANGED <<stage, call, at>>
     \/ /\ stage = "get" /\ count = 4
        /\ stage' = "single" /\ Begin(Single)
        /\ UNCHANGED count
  /\ UNCHANGED <<size, array>>

Return == /\ stage = "single" /\ call[Single] = "ended"
          /\ stage' = "returned"
          /\ UNCHANGED <<size, count, call, at, array>>

\* The destructor of a future of std::async waits for its task; futures are
\* destroyed in the opposite order, and the output after them.  (The caller
\* is any that catches; under main, which does not, the process may end.)
Unwind ==
  /\ stage = "unwind"
  /\ \/ /\ count > 0 /\ call[count] = "ended"
        /\ count' = count - 1 /\ UNCHANGED stage
     \/ /\ count = 0
        /\ stage' = "thrown" /\ UNCHANGED count
  /\ UNCHANGED <<size, call, at, array>>

ConvolutionNext == \/ Launch \/ Get \/ Return \/ Unwind
                   \/ \E t \in Caller : ConvBlock(t)

ConvolutionSpec == ConvolutionInit /\ [][ConvolutionNext]_convolutionVars

-----------------------------------------------------------------------------
\* The tasks do together what one call does (matrix.h:61-80): no two calls
\* ever write the same cell of an array, func reads and frees the arrays
\* only when nobody writes them any more, also when a task could not be
\* started, and both arrays then hold the whole convolution.
ParallelIsSequential ==
  /\ \A t, u \in Writing : t # u /\ Target(t) = Target(u) => at[t] # at[u]
  /\ stage \in {"single", "returned"} =>
       Running \subseteq {Single} /\ array["output"] = [c \in Cells |-> Sum(c)]
  /\ stage \in {"returned", "thrown"} => Running = {}
  /\ stage = "returned" => array["output1"] = array["output"]
=============================================================================
