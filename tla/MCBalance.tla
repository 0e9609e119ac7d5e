------------------------------ MODULE MCBalance ------------------------------
(***************************************************************************)
(* The programs of MCGfa, and what TLC computes of the bytecode the        *)
(* compiler makes of them: it is balanced, as GfaBalance asks.             *)
(***************************************************************************)
EXTENDS MCGfa, GfaBalance

-----------------------------------------------------------------------------
(***************************************************************************)
(* The notes of GfaBalance, followed from the beginning of a bytecode p.   *)
(* Pairs of an address and a note: those of done are followed already.     *)
(***************************************************************************)
RECURSIVE Follow(_, _, _)
Follow(p, done, todo) ==
  IF todo = {} THEN done
  ELSE LET sound == {d \in todo : Sound(p, d[1], d[2])}
           more  == UNION {Leads(p, d[1], d[2]) : d \in sound}
       IN  Follow(p, done \cup todo, more \ (done \cup todo))

NotesOf(p) ==
  LET pairs == Follow(p, {}, {<<0, Base>>})
  IN  [a \in {d[1] : d \in pairs} |-> (CHOOSE d \in pairs : d[1] = a)[2]]

BalancedSources ==
  {Factorial, LoopCaller, Chooser, Recover, Failing, FailingHandler, Bottomless,
   Crowded, ResumeInMain, ResumeInGosub, Stopping, Chaining, Astray}
  \cup {Loops(n) : n \in 0 .. 4} \cup {Calls(n) : n \in 0 .. 3}

\* The compiler makes balanced bytecode of procedures, functions, loops, error
\* handlers and jumps between them.
ASSUME CompiledIsBalanced ==
  \A s \in BalancedSources : LET p == Compile(s) IN BalancedBy(p, NotesOf(p))
=============================================================================
