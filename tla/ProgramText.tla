------------------------------ MODULE ProgramText ------------------------------
(***************************************************************************)
(* What the line editor promises: a program is a sequence of lines.  Lines *)
(* are inserted, replaced and removed, nothing else changes them; a file   *)
(* that was saved gives the saved program back; what is executed is the    *)
(* beginning of the program.                                               *)
(***************************************************************************)
EXTENDS Integers, Sequences

CONSTANTS Line,    \* what a line may be
          Names,   \* names of files
          MaxLines \* lines of a program

VARIABLES program,  \* the lines
          disk,     \* the program in each file there is
          executed  \* what was executed last

pvars == <<program, disk, executed>>

Program == UNION {[1 .. n -> Line] : n \in 0 .. MaxLines}

Beginning(p, n) == [i \in 1 .. n |-> p[i]]

WithLine(p, n, t) ==
  [i \in 1 .. Len(p) + 1 |->
     IF i < n THEN p[i] ELSE IF i = n THEN t ELSE p[i - 1]]

WithoutLines(p, from, to) ==
  [i \in 1 .. Len(p) - (to + 1 - from) |->
     IF i < from THEN p[i] ELSE p[i + (to + 1 - from)]]

Init ==
  /\ program = <<>>
  /\ executed = <<>>
  /\ \E N \in SUBSET Names : disk \in [N -> Program]

Insert ==
  /\ Len(program) < MaxLines
  /\ \E n \in 1 .. Len(program) + 1, t \in Line : program' = WithLine(program, n, t)
  /\ UNCHANGED <<disk, executed>>

Replace ==
  /\ \E n \in 1 .. Len(program), t \in Line : program' = [program EXCEPT ![n] = t]
  /\ UNCHANGED <<disk, executed>>

Remove ==
  /\ \E from \in 1 .. Len(program) : \E to \in from .. Len(program) :
       program' = WithoutLines(program, from, to)
  /\ UNCHANGED <<disk, executed>>

Clear ==
  /\ program' = <<>>
  /\ UNCHANGED <<disk, executed>>

Save ==
  /\ \E f \in Names :
       disk' = [g \in DOMAIN disk \cup {f} |-> IF g = f THEN program ELSE disk[g]]
  /\ UNCHANGED <<program, executed>>

Load ==
  /\ \E f \in DOMAIN disk : program' = disk[f]
  /\ UNCHANGED <<disk, executed>>

Execute ==
  /\ \E n \in 1 .. Len(program) : executed' = Beginning(program, n)
  /\ UNCHANGED <<program, disk>>

Next == Insert \/ Replace \/ Remove \/ Clear \/ Save \/ Load \/ Execute

Spec == Init /\ [][Next]_pvars
=============================================================================
