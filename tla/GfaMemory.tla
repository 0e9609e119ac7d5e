------------------------------- MODULE GfaMemory -------------------------------
(***************************************************************************)
(* The emulated memory of vmem.c, the statements that write it (POKE and   *)
(* its relatives, BMOVE, BLOAD, BGET) or read it into a file (BSAVE), and  *)
(* the programs that share it.  There is one memory in the process: main   *)
(* and every runtime make it if it is not there, and every runtime that    *)
(* ends destroys it, also one that CHAIN has started.                      *)
(*                                                                         *)
(* An address is a 32-bit number of which only the low bits count.  Values *)
(* of several bytes are sequences of bytes, the high byte first.           *)
(***************************************************************************)
EXTENDS Integers, Sequences

CONSTANTS Size,      \* VMEM_SIZE, a power of two
          Home,      \* where BLOAD loads what is to be loaded at 0
          Byte,
          Zero,      \* what memory is filled with
          NoMemory,  \* g_mem is NULL
          Addresses, \* the addresses that programs use
          MaxLoad,   \* bytes of a file that BLOAD reads and BSAVE writes
          MaxBlock,  \* bytes that BGET reads
          Names,     \* names of files
          Foreign,   \* what files may hold that BSAVE has not written
          MaxDepth   \* bound: programs that have chained each other

Data == UNION {[1 .. n -> Byte] : n \in 0 .. MaxLoad}

ASSUME MemoryAssumption ==
  /\ Size \in Nat \ {0} /\ Home \in 1 .. Size - 1
  /\ Zero \in Byte
  /\ Addresses \subseteq Int
  /\ MaxLoad \in Nat /\ MaxBlock \in 0 .. MaxLoad
  /\ Foreign \subseteq Data
  /\ MaxDepth \in Nat \ {0}
  /\ NoMemory \notin [0 .. Size - 1 -> Byte]

VARIABLES
  mem,   \* g_mem
  disk,  \* the contents of each file there is
  depth, \* runtimes there are
  phase, \* what the innermost one does
  saved  \* history: where and from which memory the files were saved

vars == <<mem, disk, depth, phase, saved>>

Cells  == 0 .. Size - 1
Memory == [Cells -> Byte]
Clear  == [c \in Cells |-> Zero]

Smaller(a, b) == IF a < b THEN a ELSE b
Larger(a, b)  == IF a > b THEN a ELSE b

vmem_wrap(a) == a % Size

vmem_addr_valid(a) == a \in Cells

-----------------------------------------------------------------------------
(***************************************************************************)
(* Reading and writing.                                                    *)
(***************************************************************************)

\* PEEK, DPEEK, LPEEK, BYTE{} and the others: n bytes, around the end of the memory.
Read(m, a, n) == [i \in 1 .. n |-> m[vmem_wrap(a + i - 1)]]

\* POKE, DPOKE, LPOKE: what is behind the end of the memory is not written in it.
Write(m, a, d) ==
  [c \in Cells |-> IF c - vmem_wrap(a) \in 0 .. Len(d) - 1
                   THEN d[c - vmem_wrap(a) + 1] ELSE m[c]]

\* Mutant: the address of the source does not wrap.
CopyOneUnwrapped(m, dst, src) ==
  [m EXCEPT ![vmem_wrap(dst)] = IF src \in Cells THEN m[src] ELSE Zero]

CopyOne(m, dst, src) == [m EXCEPT ![vmem_wrap(dst)] = m[vmem_wrap(src)]]

\* The loop of vmem_copy: byte by byte, forward.
vmem_copy(m, dst, src, n) ==
  LET copied[i \in 0 .. Larger(n, 0)] ==
        IF i = 0 THEN m ELSE CopyOne(copied[i - 1], dst + i - 1, src + i - 1)
  IN  copied[Larger(n, 0)]

\* Mutant: a block may be longer than the buffer.
FittingUnlimited(a, n, limit) == IF vmem_addr_valid(a) THEN Smaller(n, Size - a) ELSE 0

\* What fits at address a, of at most limit bytes.
Fitting(a, n, limit) ==
  IF vmem_addr_valid(a) THEN Smaller(Smaller(n, limit), Size - a) ELSE 0

Beginning(d, n) == [i \in 1 .. n |-> d[i]]

-----------------------------------------------------------------------------
(***************************************************************************)
(* Statements.                                                             *)
(***************************************************************************)
Executing == phase = "executing"

\* A memory that is not there is not written.
SetMemory(m) == mem' = IF mem = NoMemory THEN NoMemory ELSE m

Poke(a, d) ==
  /\ Executing
  /\ SetMemory(Write(mem, a, d))
  /\ UNCHANGED <<disk, depth, phase, saved>>

Bmove(dst, src, n) ==
  /\ Executing
  /\ SetMemory(vmem_copy(mem, dst, src, n))
  /\ UNCHANGED <<disk, depth, phase, saved>>

\* The memory m with as much of d at a as fits.
Filled(m, a, d, limit) == Write(m, a, Beginning(d, Fitting(a, Len(d), limit)))

Loaded(m, address, d) == Filled(m, IF address = 0 THEN Home ELSE address, d, MaxLoad)

\* A file that cannot be opened changes nothing.
Bload(f, address) ==
  /\ Executing
  /\ f \in DOMAIN disk
  /\ SetMemory(Loaded(mem, address, disk[f]))
  /\ UNCHANGED <<disk, depth, phase, saved>>

\* What comes from a channel.
Bget(a, d) ==
  /\ Executing
  /\ SetMemory(Filled(mem, a, d, MaxBlock))
  /\ UNCHANGED <<disk, depth, phase, saved>>

\* Mutant: the last byte is saved too.
ImageWithEnd(a, b) == Read(mem, a, Fitting(a, b - a + 1, MaxLoad))

\* The bytes from the lower address up to the higher one.
Image(a, b) == Read(mem, a, Fitting(a, b - a, MaxLoad))

\* The file is opened, and emptied, before it is known whether there is anything to save.
Bsave(f, start, end) ==
  /\ Executing
  /\ LET a == Smaller(start, end)
         b == Larger(start, end)
     IN  /\ disk' = [g \in DOMAIN disk \cup {f} |-> IF g = f THEN Image(a, b) ELSE disk[g]]
         /\ saved' = [saved EXCEPT ![f] = [at |-> a, end |-> b, mem |-> mem]]
  /\ UNCHANGED <<mem, depth, phase>>

-----------------------------------------------------------------------------
(***************************************************************************)
(* Programs.                                                               *)
(***************************************************************************)
vmem_init == mem' = IF mem = NoMemory THEN Clear ELSE mem

\* run_program, also called by CHAIN, which ends the program when it returns.
Load ==
  /\ phase \in {"none", "executing"}
  /\ depth < MaxDepth
  /\ vmem_init
  /\ depth' = depth + 1
  /\ phase' = "executing"
  /\ UNCHANGED <<disk, saved>>

Finish ==
  /\ Executing
  /\ phase' = "ended"
  /\ UNCHANGED <<mem, disk, depth, saved>>

\* Mutant: the memory outlives the runtime.
ShutdownKeepingMemory ==
  /\ phase = "ended"
  /\ depth' = depth - 1
  /\ phase' = IF depth > 1 THEN "ended" ELSE "none"
  /\ UNCHANGED <<mem, disk, saved>>

\* Mutant: the program that had chained this one goes on.
ShutdownAndReturn ==
  /\ phase = "ended"
  /\ mem' = NoMemory
  /\ depth' = depth - 1
  /\ phase' = IF depth > 1 THEN "executing" ELSE "none"
  /\ UNCHANGED <<disk, saved>>

Shutdown ==
  /\ phase = "ended"
  /\ mem' = NoMemory
  /\ depth' = depth - 1
  /\ phase' = IF depth > 1 THEN "ended" ELSE "none"
  /\ UNCHANGED <<disk, saved>>

NotSaved == [at |-> 0, end |-> 0, mem |-> NoMemory]

\* main has made the memory.
Init ==
  /\ mem = Clear
  /\ \E N \in SUBSET Names : disk \in [N -> Foreign]
  /\ depth = 0
  /\ phase = "none"
  /\ saved = [f \in Names |-> NotSaved]

Values == UNION {[1 .. n -> Byte] : n \in {1, 2, 4}}
Blocks == UNION {[1 .. n -> Byte] : n \in 0 .. MaxBlock}

Next ==
  \/ \E a \in Addresses : \/ \E d \in Values : Poke(a, d)
                          \/ \E d \in Blocks : Bget(a, d)
                          \/ \E f \in Names : Bload(f, a)
  \/ \E dst, src, n \in Addresses : Bmove(dst, src, n)
  \/ \E f \in Names, start, end \in Addresses : Bsave(f, start, end)
  \/ Load
  \/ Finish
  \/ Shutdown

Spec == Init /\ [][Next]_vars

-----------------------------------------------------------------------------
(***************************************************************************)
(* Properties.                                                             *)
(***************************************************************************)
TypeOK ==
  /\ mem \in Memory \cup {NoMemory}
  /\ \E N \in SUBSET Names : disk \in [N -> Data]
  /\ depth \in 0 .. MaxDepth
  /\ phase \in {"none", "executing", "ended"}

\* A program that is executed has its memory, also behind and inside of CHAIN, although
\* the end of a chained program destroys the memory of the one that called it.
MemoryThere == Executing => mem # NoMemory

\* No program that is run from the editor sees what an earlier one has left.
FreshMemory == [][phase = "none" /\ Executing' => mem' = Clear]_vars

\* BMOVE copies the bytes that were there before it began, also around the end of the
\* memory, unless the destination begins inside of the source.
CopyIsMove ==
  Executing =>
    \A dst, src \in Addresses, n \in Addresses \cap 1 .. Size :
      vmem_wrap(dst - src) = 0 \/ vmem_wrap(dst - src) >= n =>
        Read(vmem_copy(mem, dst, src, n), dst, n) = Read(mem, src, n)

\* What BSAVE has saved, BLOAD puts back where it was, whatever has happened since, and
\* it writes nothing else; but what was saved at 0 is not loaded there.
LoadRestores ==
  \A f \in Names :
    LET s == saved[f]
    IN  Executing /\ s.mem # NoMemory /\ s.at # 0 =>
          \A c \in Cells :
            Loaded(mem, s.at, disk[f])[c] =
              IF s.at \in Cells /\ c \in s.at .. s.at + Smaller(s.end - s.at, MaxLoad) - 1
              THEN s.mem[c] ELSE mem[c]
=============================================================================
