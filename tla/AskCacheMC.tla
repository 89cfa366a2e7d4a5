------------------------------ MODULE AskCacheMC ------------------------------
(* Four answers of the model: a plain one with two actions, a flagged one, *)
(* a conditional one, and one without a script.  The one question is       *)
(* structured, so it is asked a second time under another key.             *)
EXTENDS AskCache, TLC

Script(strict, ops, flagged) == [strict |-> strict, ops |-> ops, flagged |-> flagged]

Answer(script, actions) ==
    [script |-> script, scripted |-> TRUE, flagged |-> script.flagged,
     actions |-> actions, table |-> FALSE]

Answers ==
    { Answer(Script(FALSE, 0, FALSE), 2),
      Answer(Script(FALSE, 1, TRUE), 1),
      Answer(Script(TRUE, 0, FALSE), 1),
      NoPlan }

\* The processes differ in nothing.
AskSymmetry == Permutations(Asks)
=============================================================================
