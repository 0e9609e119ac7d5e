--------------------------- MODULE GfaHistoryProofs ---------------------------
(***************************************************************************)
(* Theorems about the subroutines and handlers a program is in, for every  *)
(* bytecode, every limit and every width of the integer types.             *)
(*                                                                         *)
(* The first part is about calls: the frames are those of the calls that   *)
(* are active (FramesMatch), RETURN goes back to its caller (ReturnsSafe)  *)
(* and gives the parameters back (ParametersSafe), and RESUME goes to the  *)
(* fault (ResumesSafe).  The second part is about the values on the stack  *)
(* in balanced bytecodes: a statement finds the stack as its subroutine    *)
(* found it (BalanceSafe), a subroutine gives the operands that were       *)
(* waiting back to its caller (OperandsSafe), and a function leaves one    *)
(* result (ResultsSafe).                                                   *)
(*                                                                         *)
(* None of them holds without a condition.  RESUME leaves its handler and  *)
(* keeps the frame; a call without room for a frame raises an error or     *)
(* goes on without one; there is one resume_ip.  The theorems say that     *)
(* nothing else disturbs the frames.                                       *)
(***************************************************************************)
EXTENDS GfaBalance, GfaVMProofs, FiniteSetTheorems

\* A step of the history is a step of the interpreter.
LEMMA HistoryStep ==
  ASSUME [HNext]_hvars
  PROVE  [Next]_vmvars
BY DEF HNext, hvars

-----------------------------------------------------------------------------
(***************************************************************************)
(* What an instruction can do to the frames: push one, keep them all, or,  *)
(* for RET, pop one.                                                       *)
(***************************************************************************)
Pushing ==
  /\ Depth < MaxDepth
  /\ \E s \in Stacks : call_stack' = Append(call_stack, Frame(ip + 1, s))
  /\ \/ Called /\ resume_ip' = resume_ip /\ UNCHANGED vars
     \/ ~Called /\ resume_ip' = ip /\ Handled /\ Fetch.op \in FaultOps

Overflowing ==
  /\ Depth = MaxDepth
  /\ UNCHANGED call_stack
  /\ \/ At({"ON_GOSUB"}) /\ resume_ip' = resume_ip
     \/ TrapsWithoutFrame

Keeping ==
  /\ UNCHANGED call_stack
  /\ resume_ip' = resume_ip
  /\ ~Called /\ ~TrapsWithoutFrame
  /\ Fetch.op # "RET"

\* Most instructions have nothing to do with frames.
LEMMA FramelessKeeps ==
  ASSUME Live, Fetch.op \notin CallOps \cup FaultOps \cup {"RET"},
         UNCHANGED call_stack, UNCHANGED resume_ip
  PROVE  Keeping
BY DEF Keeping, Called, At, CallOps, TrapsWithoutFrame

\* Those on the stack, and statements.
LEMMA SimpleKeeps ==
  ASSUME \/ PushConst \/ PushString \/ PushVar \/ Pop \/ PopStore \/ Dup \/ Swap
         \/ ArrayLoad \/ ArrayStore \/ BinaryOp \/ Negate \/ Marker
         \/ Statement \/ Poly \/ InputVar \/ Dim \/ EraseVar \/ ClearAll
         \/ ReadData \/ Restore \/ BindRef \/ JumpIf
  PROVE  Keeping
<1>1. Live /\ Quiet /\ UNCHANGED call_stack
  BY DEF PushConst, PushString, PushVar, Pop, PopStore, Dup, Swap, ArrayLoad,
         ArrayStore, BinaryOp, Negate, Marker, Statement, Poly, InputVar, Dim,
         EraseVar, ClearAll, ReadData, Restore, BindRef, JumpIf, At, Plain
<1>2. UNCHANGED resume_ip
  BY <1>1 DEF Quiet, errors
<1>3. Fetch.op \notin CallOps \cup FaultOps \cup {"RET"}
  <2>1. RowOps \cap (CallOps \cup FaultOps \cup {"RET"}) = {}
    BY DEF RowOps, PrintOps, TransferOps, ScreenOps, ChannelOps, MemoryOps,
           SystemOps, ArrayOps, GfxOps, WindowOps, CallOps, FaultOps
  <2>2. CASE Statement
    BY <2>1, <2>2 DEF Statement, At
  <2>3. CASE BinaryOp
    BY <2>3 DEF BinaryOp, At, Arithmetic, Comparisons, Logic, CallOps, FaultOps
  <2>4. CASE ~Statement /\ ~BinaryOp
    BY <2>4 DEF PushConst, PushString, PushVar, Pop, PopStore, Dup, Swap, ArrayLoad,
           ArrayStore, Negate, Marker, Poly, InputVar, Dim, EraseVar, ClearAll,
           ReadData, Restore, BindRef, JumpIf, At, CallOps, FaultOps
  <2> QED
    BY <2>2, <2>3, <2>4
<1> QED
  BY <1>1, <1>2, <1>3, FramelessKeeps

\* Those that end a program or deal with errors.
LEMMA EndingKeeps ==
  ASSUME End \/ Stop \/ Quit \/ OnError \/ Resume
  PROVE  Keeping
<1>1. Live /\ UNCHANGED call_stack /\ UNCHANGED resume_ip
  BY DEF End, Stop, Quit, OnError, Resume, At, errors
<1>2. Fetch.op \notin CallOps \cup FaultOps \cup {"RET"}
  BY DEF End, Stop, Quit, OnError, Resume, At, CallOps, FaultOps
<1> QED
  BY <1>1, <1>2, FramelessKeeps

\* An error of an instruction that is not a call.
LEMMA FaultPushes ==
  ASSUME TypeOK, Live, Fetch.op \in FaultOps \ {"CALL"}, Fetch.op = "JMP" => Fetch.arg < 0,
         NEW c, NEW s \in Stacks, NEW skip, Trap(c, s, skip)
  PROVE  Pushing \/ Overflowing \/ Keeping
<1>1. ~Called /\ Fetch.op # "RET"
  BY DEF Called, At, FaultOps
<1>2. Depth \in Nat /\ Depth <= MaxDepth /\ MaxDepth \in Nat
  BY VMAssumption DEF TypeOK, FramesOK, Depth
<1>3. CASE Handled /\ Depth < MaxDepth
  BY <1>1, <1>3 DEF Trap, PushFrame, Pushing
<1>4. CASE Handled /\ ~(Depth < MaxDepth)
  <2>1. Depth = MaxDepth /\ UNCHANGED call_stack /\ resume_ip' = ip
    BY <1>2, <1>4 DEF Trap, PushFrame
  <2>2. CASE TrapsWithoutFrame
    BY <2>1, <2>2 DEF Overflowing
  <2>3. CASE ~TrapsWithoutFrame
    <3>1. resume_ip' = resume_ip
      BY <1>4, <2>1, <2>3 DEF TrapsWithoutFrame
    <3> QED
      BY <1>1, <2>1, <2>3, <3>1 DEF Keeping
  <2> QED
    BY <2>2, <2>3
<1>5. CASE ~Handled
  BY <1>1, <1>5 DEF Trap, Keeping, TrapsWithoutFrame
<1> QED
  BY <1>3, <1>4, <1>5

\* Instructions that may raise an error, and CALL_BUILTIN.
LEMMA FaultingEffect ==
  ASSUME TypeOK, Divide \/ Raise \/ Mat \/ MatExpr \/ Builtin \/ Chain
  PROVE  Pushing \/ Overflowing \/ Keeping
<1> DEFINE Quietly == UNCHANGED call_stack /\ UNCHANGED resume_ip
           Trapping == \E c \in Int, s \in Stacks, skip \in {0, 1} : Trap(c, s, skip)
<1>1. Live /\ Fetch.op \in Divisions \cup {"ERROR", "FATAL", "MAT", "MAT_EXPR", "CALL_BUILTIN"}
  BY DEF Divide, Raise, Mat, MatExpr, Builtin, Chain, At
<1>2. stack \in Stacks /\ \A n \in Nat : Drop(stack, n) \in Stacks
  BY DropStacks DEF TypeOK
<1>3. Quietly \/ (Trapping /\ Fetch.op # "FATAL")
  <2>1. CASE Divide
    <3>1. (Advance /\ Plain) \/ RaiseError(11, Drop(stack, 2), 0)
      BY <2>1 DEF Divide
    <3>2. Fetch.op # "FATAL"
      BY <2>1 DEF Divide, At, Divisions
    <3> QED
      BY <1>2, <3>1, <3>2 DEF RaiseError, Plain, Quiet, errors
  <2>2. CASE Raise
    <3>1. CASE stack = <<>> \/ Fetch.op # "ERROR"
      BY <2>2, <3>1 DEF Raise, Plain, Quiet, errors
    <3>2. CASE stack # <<>> /\ Fetch.op = "ERROR"
      <4>1. ToLong(Top(stack)) \in Int
        BY <1>2, <3>2, TopInt, ToLongInt
      <4>2. RaiseError(ToLong(Top(stack)), Drop(stack, 1), 0)
        BY <2>2, <3>2 DEF Raise
      <4> QED
        BY <1>2, <3>2, <4>1, <4>2 DEF RaiseError
    <3> QED
      BY <3>1, <3>2
  <2>3. CASE Mat
    <3>1. Fetch.arg \in Nat /\ Fetch.op # "FATAL"
      BY <2>3, TargetType DEF Mat, At
    <3>2. \/ Quiet /\ UNCHANGED call_stack
          \/ \E c \in MatErrors : RaiseError(c, Drop(stack, Fetch.arg), 1)
      BY <2>3 DEF Mat
    <3> QED
      BY <1>2, <3>1, <3>2 DEF RaiseError, Quiet, errors, MatErrors
  <2>4. CASE MatExpr
    <3>1. (Advance /\ Plain) \/ RaiseError(17, stack, 1)
      BY <2>4 DEF MatExpr
    <3>2. Fetch.op # "FATAL"
      BY <2>4 DEF MatExpr, At
    <3> QED
      BY <1>2, <3>1, <3>2 DEF RaiseError, Plain, Quiet, errors
  <2>5. CASE Builtin
    BY <2>5 DEF Builtin, errors
  <2>6. CASE Chain
    <3>1. UNCHANGED <<ip, call_stack, errors>> \/ Trap(19, Drop(stack, 1), 0)
      BY <2>6 DEF Chain
    <3>2. Fetch.op # "FATAL"
      BY <2>6 DEF Chain, At
    <3> QED
      BY <1>2, <3>1, <3>2 DEF errors
  <2> QED
    BY <2>1, <2>2, <2>3, <2>4, <2>5, <2>6
<1>4. CASE Quietly
  <2>1. ~Called /\ Fetch.op # "RET"
    BY <1>1 DEF Called, At, Divisions
  <2>2. CASE TrapsWithoutFrame
    BY <1>4, <2>2 DEF Overflowing, TrapsWithoutFrame
  <2>3. CASE ~TrapsWithoutFrame
    BY <1>4, <2>1, <2>3 DEF Keeping
  <2> QED
    BY <2>2, <2>3
<1>5. CASE Trapping /\ Fetch.op # "FATAL"
  <2>1. Fetch.op \in FaultOps \ {"CALL"} /\ Fetch.op # "JMP"
    BY <1>1, <1>5 DEF Divisions, FaultOps
  <2> QED
    BY <1>1, <1>5, <2>1, FaultPushes
<1> QED
  BY <1>3, <1>4, <1>5

\* A jump has no frame unless its target is unknown.
LEMMA JumpEffect ==
  ASSUME TypeOK, Jump
  PROVE  Pushing \/ Overflowing \/ Keeping
<1>1. Live /\ Fetch.op = "JMP" /\ stack \in Stacks
  BY DEF Jump, At, TypeOK
<1>2. CASE Fetch.arg < 0
  <2>1. Trap(9, stack, 0)
    BY <1>2 DEF Jump, RaiseError
  <2> QED
    BY <1>1, <1>2, <2>1, FaultPushes DEF FaultOps
<1>3. CASE ~(Fetch.arg < 0)
  BY <1>1, <1>3 DEF Jump, Plain, Quiet, errors, Keeping, Called, At, TrapsWithoutFrame
<1> QED
  BY <1>2, <1>3

\* CALL pushes the frame of the call, or of the error it raises.
LEMMA CallEffect ==
  ASSUME TypeOK, Call
  PROVE  Pushing \/ Overflowing \/ Keeping
<1>1. Live /\ Fetch.op = "CALL" /\ At({"CALL"}) /\ stack \in Stacks /\ Fetch.arg \in Int
  BY FetchType DEF Call, At, TypeOK
<1>2. Depth \in Nat /\ Depth <= MaxDepth /\ MaxDepth \in Nat
  BY VMAssumption DEF TypeOK, FramesOK, Depth
<1>3. CASE Fetch.arg >= 0 /\ Depth < MaxDepth
  <2>1. /\ call_stack' = PushFrame(ip + 1, stack) /\ Quiet /\ UNCHANGED memory
    BY <1>1, <1>3 DEF Call
  <2>2. call_stack' = Append(call_stack, Frame(ip + 1, stack))
    BY <1>3, <2>1 DEF PushFrame
  <2>3. Called /\ resume_ip' = resume_ip /\ UNCHANGED vars
    BY <1>1, <1>3, <2>1 DEF Called, Quiet, errors, memory
  <2> QED
    BY <1>1, <1>3, <2>2, <2>3 DEF Pushing
<1>4. CASE ~(Fetch.arg >= 0 /\ Depth < MaxDepth)
  <2>1. ~Called
    BY <1>1, <1>4 DEF Called, At
  <2>2. PICK c \in Int : Trap(c, stack, 0)
    BY <1>1, <1>4 DEF Call, RaiseError
  <2>3. CASE Handled /\ Depth < MaxDepth
    BY <1>1, <2>1, <2>2, <2>3 DEF Trap, PushFrame, Pushing, FaultOps
  <2>4. CASE Handled /\ ~(Depth < MaxDepth)
    <3>1. Depth = MaxDepth /\ UNCHANGED call_stack /\ resume_ip' = ip
      BY <1>2, <2>2, <2>4 DEF Trap, PushFrame
    <3>2. CASE TrapsWithoutFrame
      BY <3>1, <3>2 DEF Overflowing
    <3>3. CASE ~TrapsWithoutFrame
      <4>1. resume_ip' = resume_ip
        BY <1>1, <2>4, <3>1, <3>3 DEF TrapsWithoutFrame, FaultOps
      <4> QED
        BY <1>1, <2>1, <3>1, <3>3, <4>1 DEF Keeping
    <3> QED
      BY <3>2, <3>3
  <2>5. CASE ~Handled
    BY <1>1, <2>1, <2>2, <2>5 DEF Trap, Keeping, TrapsWithoutFrame
  <2> QED
    BY <2>3, <2>4, <2>5
<1> QED
  BY <1>3, <1>4

\* ON GOSUB pushes a frame if it jumps, and if there is room.
LEMMA OnGotoEffect ==
  ASSUME TypeOK, OnGoto
  PROVE  Pushing \/ Overflowing \/ Keeping
<1> DEFINE sp      == Len(stack)
           given   == ToLong(Top(stack))
           count   == IF given \in 1 .. MaxTargets THEN given ELSE 0
           index   == IF sp > count + 1 THEN ToLong(stack[sp - count - 1]) ELSE 0
           rest    == Drop(stack, count + 2)
           targets == IF index \in 1 .. count
                      THEN Labelled(stack[sp - 1 - (count - index)]) ELSE {}
<1>1. /\ Live /\ Fetch.op \in {"ON_GOTO", "ON_GOSUB"}
      /\ Quiet /\ UNCHANGED memory
      /\ \/ Advance /\ UNCHANGED call_stack
         \/ /\ targets # {}
            /\ ip' = FirstOf(targets) + 1
            /\ call_stack' = IF Fetch.op = "ON_GOSUB" THEN PushFrame(ip + 1, rest)
                             ELSE call_stack
  BY DEF OnGoto, At
<1>2. rest \in Stacks
  <2>1. count \in Nat
    BY DEF MaxTargets
  <2> QED
    BY <2>1, DropStacks DEF TypeOK
<1>3. /\ targets \subseteq Nat
      /\ \A k \in targets : code[k + 1].op = "LABEL"
  BY <1>1, FetchType, LabelledType
<1>4. resume_ip' = resume_ip /\ UNCHANGED vars
  BY <1>1 DEF Quiet, errors, memory
<1>5. ~TrapsWithoutFrame /\ Fetch.op # "RET" /\ Fetch.op # "CALL"
  BY <1>1 DEF TrapsWithoutFrame, FaultOps
<1> HIDE DEF targets, rest
<1>6. CASE Advance /\ UNCHANGED call_stack
  BY <1>1, <1>4, <1>5, <1>6 DEF Keeping, Called, At, Advance
<1>7. CASE Fetch.op = "ON_GOTO" /\ UNCHANGED call_stack
  BY <1>1, <1>4, <1>5, <1>7 DEF Keeping, Called, At
<1>8. CASE /\ targets # {} /\ ip' = FirstOf(targets) + 1
           /\ Fetch.op = "ON_GOSUB" /\ call_stack' = PushFrame(ip + 1, rest)
  <2>1. FirstOf(targets) \in targets
    BY <1>3, <1>8, FirstOfIn
  <2>2. FirstOf(targets) # ip
    BY <1>1, <1>3, <2>1 DEF Fetch
  <2>3. ip' # ip + 1
    <3>1. FirstOf(targets) \in Nat /\ ip \in Nat
      BY <1>3, <2>1 DEF TypeOK
    <3> DEFINE first == FirstOf(targets)
    <3> HIDE DEF first
    <3>2. first \in Nat /\ first # ip /\ ip' = first + 1
      BY <1>8, <2>2, <3>1 DEF first
    <3> QED
      BY <3>1, <3>2
  <2>4. Called
    BY <1>1, <1>8, <2>3 DEF Called, At
  <2>5. CASE Depth < MaxDepth
    BY <1>2, <1>4, <1>8, <2>4, <2>5 DEF Pushing, PushFrame
  <2>6. CASE ~(Depth < MaxDepth)
    <3>1. Depth = MaxDepth
      BY <2>6, VMAssumption DEF TypeOK, FramesOK, Depth
    <3> QED
      BY <1>1, <1>4, <1>8, <2>6, <3>1 DEF Overflowing, PushFrame, At
  <2> QED
    BY <2>5, <2>6
<1> QED
  BY <1>1, <1>6, <1>7, <1>8

\* So every instruction but RET and SAVE_LOCAL has one of these effects.
LEMMA FrameEffect ==
  ASSUME TypeOK, Instruction
  PROVE  Pushing \/ Overflowing \/ Keeping \/ Return \/ SaveLocal
BY SimpleKeeps, EndingKeeps, FaultingEffect, JumpEffect, CallEffect, OnGotoEffect
   DEF Instruction

\* SAVE_LOCAL changes what the innermost frame has saved, and no frame else.
Saving ==
  /\ Depth' = Depth
  /\ \A k \in 1 .. Depth : call_stack'[k].return_ip = call_stack[k].return_ip
  /\ \A k \in 1 .. Depth - 1 : call_stack'[k] = call_stack[k]
  /\ resume_ip' = resume_ip
  /\ ~Called /\ ~TrapsWithoutFrame
  /\ Fetch.op = "SAVE_LOCAL"

LEMMA SavingEffect ==
  ASSUME TypeOK, SaveLocal
  PROVE  /\ Saving
         /\ RoomForParameter /\ call_stack # <<>> =>
              call_stack'[Depth].saved =
                Append(call_stack[Depth].saved, [var |-> Fetch.sym, val |-> Read(Fetch.sym)])
<1>1. Live /\ Fetch.op = "SAVE_LOCAL" /\ Quiet /\ At({"SAVE_LOCAL"})
  BY DEF SaveLocal, At
<1>2. resume_ip' = resume_ip /\ ~Called /\ ~TrapsWithoutFrame
  BY <1>1 DEF Quiet, errors, Called, At, TrapsWithoutFrame, FaultOps
<1> DEFINE saves == call_stack # <<>> /\ Len(call_stack[Depth].saved) < MaxSaved
           old   == IF Len(stack) = StackSize THEN Top(stack) ELSE Read(Fetch.sym)
           entry == [var |-> Fetch.sym, val |-> old]
           g     == [call_stack[Depth] EXCEPT !.saved = Append(@, entry)]
<1>3. call_stack' = IF saves THEN [call_stack EXCEPT ![Depth] = g] ELSE call_stack
  BY DEF SaveLocal
<1>4. CASE ~saves
  <2>1. Saving
    BY <1>1, <1>2, <1>3, <1>4 DEF Saving, Depth
  <2>2. ~(RoomForParameter /\ call_stack # <<>>)
    BY <1>1, <1>4 DEF RoomForParameter
  <2> QED
    BY <2>1, <2>2
<1>5. CASE saves
  <2>1. /\ Depth \in 1 .. Len(call_stack)
        /\ call_stack[Depth] \in FrameType
        /\ call_stack \in Seq(FrameType)
    BY <1>5, FrameType1 DEF TypeOK, FramesOK, Depth
  <2>2. /\ g.return_ip = call_stack[Depth].return_ip
        /\ g.saved = Append(call_stack[Depth].saved, entry)
    BY <2>1 DEF FrameType
  <2> HIDE DEF g, entry
  <2>3. /\ Len(call_stack') = Len(call_stack)
        /\ \A k \in 1 .. Len(call_stack) :
             call_stack'[k] = IF k = Depth THEN g ELSE call_stack[k]
    BY <1>3, <1>5, <2>1
  <2>4. Saving
    <3>1. /\ Depth' = Depth
          /\ \A k \in 1 .. Depth : call_stack'[k].return_ip = call_stack[k].return_ip
      BY <2>2, <2>3 DEF Depth
    <3>2. \A k \in 1 .. Depth - 1 : call_stack'[k] = call_stack[k]
      BY <2>1, <2>3 DEF Depth
    <3> QED
      BY <1>1, <1>2, <3>1, <3>2 DEF Saving
  <2>5. RoomForParameter => entry = [var |-> Fetch.sym, val |-> Read(Fetch.sym)]
    <3>1. RoomForParameter => Len(stack) # StackSize
      BY <1>1, StackIsSeq DEF RoomForParameter, TypeOK
    <3> QED
      BY <3>1 DEF entry
  <2> QED
    BY <2>1, <2>2, <2>3, <2>4, <2>5
<1> QED
  BY <1>4, <1>5

-----------------------------------------------------------------------------
(***************************************************************************)
(* The history, and what every step does to it.                            *)
(***************************************************************************)
EntryType == [site : Nat, to : Nat, vars : [Vars -> Int], handler : BOOLEAN,
              operands : Stacks]

\* What is remembered of a step is an entry.
LEMMA EntryTyped ==
  ASSUME TypeOK, TypeOK', Live
  PROVE  /\ Entry \in EntryType
         /\ Entry.site = ip /\ Entry.to = ip' /\ Entry.vars = vars
         /\ Entry.handler <=> ~Called
<1> DEFINE args == IF Called THEN Cardinality(Receivers(ip')) ELSE 0
           s    == IF At({"CALL"}) THEN stack ELSE stack'
<1>1. ip \in Nat /\ ip' \in Nat /\ vars \in [Vars -> Int] /\ stack \in Stacks /\ stack' \in Stacks
  BY DEF TypeOK, MemoryOK, Stacks
<1>2. args \in Nat
  <2>1. Body(ip') \in Int /\ Len(code) - 1 \in Int
    BY <1>1, FetchType DEF Body
  <2>2. Receivers(ip') \subseteq Body(ip') .. Len(code) - 1
    BY DEF Receivers
  <2>3. IsFiniteSet(Receivers(ip'))
    BY <2>1, <2>2, FS_Interval, FS_Subset
  <2> QED
    BY <2>3, FS_CardinalityType
<1>3. Drop(s, args) \in Stacks
  BY <1>1, <1>2, DropStacks
<1>4. (~Called) \in BOOLEAN
  BY Zenon
<1> DEFINE flag == ~Called
<1>5. Entry = [site |-> ip, to |-> ip', vars |-> vars, handler |-> flag,
               operands |-> Drop(s, args)]
  BY DEF Entry
<1>6. flag <=> ~Called
  OBVIOUS
<1> HIDE DEF flag, s, args
<1>7. flag \in BOOLEAN
  BY <1>4 DEF flag
<1>8. /\ Entry \in EntryType /\ Entry.handler = flag /\ Entry.site = ip /\ Entry.to = ip'
      /\ Entry.vars = vars
  BY <1>1, <1>3, <1>5, <1>7 DEF EntryType
<1> QED
  BY <1>6, <1>8, Zenon

\* A program that is not executed has no history.
LEMMA RememberNothing ==
  ASSUME Remember, host # "executing"
  PROVE  active' = <<>>
BY DEF Remember, Left, At, Live

\* What a step of a program that is executed adds or takes away.
LEMMA RememberStep ==
  ASSUME Remember, host = "executing"
  PROVE  /\ Entered => active' = Append(active, Entry)
         /\ ~Entered /\ Left /\ active # <<>> =>
              active' = SubSeq(active, 1, Len(active) - 1)
         /\ ~Entered /\ ~(Left /\ active # <<>>) => active' = active
BY DEF Remember

\* An instruction enters something exactly when it pushes a frame or lacks one.
LEMMA EffectOnHistory ==
  ASSUME TypeOK, Live, Remember
  PROVE  /\ Pushing => active' = Append(active, Entry)
         /\ Overflowing /\ RoomForFrame => FALSE
         /\ Keeping \/ Saving =>
              active' = IF At({"RESUME"}) /\ ~fatal_error /\ active # <<>>
                        THEN SubSeq(active, 1, Len(active) - 1) ELSE active
         /\ Return =>
              active' = IF active # <<>> THEN SubSeq(active, 1, Len(active) - 1) ELSE active
<1>1. host = "executing"
  BY DEF Live
<1>2. Depth \in Nat /\ MaxDepth \in Nat /\ call_stack \in Seq(FrameType)
  BY VMAssumption DEF TypeOK, FramesOK, Depth
<1>3. Pushing => Entered
  <2> SUFFICES ASSUME Pushing PROVE Entered
    OBVIOUS
  <2>1. PICK s \in Stacks : call_stack' = Append(call_stack, Frame(ip + 1, s))
    BY DEF Pushing
  <2> DEFINE f == Frame(ip + 1, s)
  <2> HIDE DEF f
  <2>2. Depth' = Depth + 1
    BY <1>2, <2>1 DEF Depth, f
  <2> QED
    BY <1>2, <2>2 DEF Entered
<1>4. Overflowing /\ RoomForFrame => FALSE
  <2>1. Overflowing => At(CallOps) \/ (At(FaultOps) /\ Handled)
    BY DEF Overflowing, TrapsWithoutFrame, At, CallOps
  <2> QED
    BY <1>2, <2>1 DEF Overflowing, RoomForFrame
<1>5. Keeping \/ Saving => ~Entered /\ ~At({"RET"})
  BY <1>2 DEF Keeping, Saving, Entered, Depth, At
<1>6. Return => ~Entered /\ At({"RET"})
  <2> SUFFICES ASSUME Return PROVE ~Entered /\ At({"RET"})
    OBVIOUS
  <2>1. At({"RET"}) /\ ~Called /\ ~TrapsWithoutFrame
    BY DEF Return, At, Called, TrapsWithoutFrame, FaultOps
  <2>2. CASE call_stack = <<>>
    BY <1>2, <2>1, <2>2 DEF Return, Entered, Depth
  <2>3. CASE call_stack # <<>>
    <3>1. call_stack' = SubSeq(call_stack, 1, Len(call_stack) - 1) /\ Len(call_stack) \in Nat \ {0}
      BY <1>2, <2>3 DEF Return, Depth
    <3> DEFINE n == Len(call_stack) - 1
    <3>2. n \in Nat /\ n <= Len(call_stack) /\ call_stack' = SubSeq(call_stack, 1, n)
      BY <3>1
    <3> HIDE DEF n
    <3>3. Len(call_stack') = n
      BY <1>2, <3>2
    <3> QED
      BY <1>2, <2>1, <3>1, <3>3 DEF Entered, Depth, n
  <2> QED
    BY <2>2, <2>3
<1>7. At({"RET"}) => ~At({"RESUME"})
  BY DEF At
<1> QED
  BY <1>1, <1>3, <1>4, <1>5, <1>6, <1>7, RememberStep DEF Left

\* An instruction may end the program, but never makes the host load one.
LEMMA InstructionHost ==
  ASSUME Instruction
  PROVE  Live /\ host' \in {"executing", "exited", "hung"} /\ UNCHANGED program
<1>1. CASE \/ PushConst \/ PushString \/ PushVar \/ Pop \/ PopStore \/ Dup \/ Swap
           \/ ArrayLoad \/ ArrayStore \/ BinaryOp \/ Negate \/ Marker
           \/ Statement \/ Poly \/ InputVar \/ Dim \/ EraseVar \/ ClearAll
           \/ ReadData \/ Restore \/ BindRef \/ JumpIf \/ SaveLocal
  <2>1. Live /\ Quiet
    BY <1>1 DEF PushConst, PushString, PushVar, Pop, PopStore, Dup, Swap, ArrayLoad,
           ArrayStore, BinaryOp, Negate, Marker, Statement, Poly, InputVar, Dim,
           EraseVar, ClearAll, ReadData, Restore, BindRef, JumpIf, SaveLocal, At, Plain
  <2> QED
    BY <2>1 DEF Quiet, caller, Live
<1>2. CASE Divide \/ Jump \/ Call \/ Return \/ OnGoto \/ Raise \/ Mat \/ MatExpr
  <2>1. Live /\ UNCHANGED caller
    BY <1>2 DEF Divide, Jump, Call, Return, OnGoto, Raise, Mat, MatExpr, At,
                RaiseError, Plain, Quiet
  <2> QED
    BY <2>1 DEF caller, Live
<1>3. CASE End \/ Stop \/ Quit \/ OnError \/ Resume \/ Builtin \/ Chain
  BY <1>3 DEF End, Stop, Quit, OnError, Resume, Builtin, Chain, At, caller, Live
<1> QED
  BY <1>1, <1>2, <1>3 DEF Instruction

-----------------------------------------------------------------------------
(***************************************************************************)
(* One frame for each entry, and it returns behind the site of the entry.  *)
(***************************************************************************)
OneFrameEach ==
  /\ Len(active) = Depth
  /\ \A k \in 1 .. Depth : call_stack[k].return_ip = active[k].site + 1

CallsInv ==
  /\ active \in Seq(EntryType)
  /\ host \in {"idle", "loaded"} => call_stack = <<>> /\ active = <<>>
  /\ host = "executing" => OneFrameEach

\* A frame and an entry are pushed together.
LEMMA PushingKeepsCalls ==
  ASSUME TypeOK, TypeOK', Live, CallsInv, Pushing, active' = Append(active, Entry)
  PROVE  active' \in Seq(EntryType) /\ OneFrameEach'
<1> DEFINE e == Entry
<1>1. e \in EntryType /\ e.site = ip /\ active' = Append(active, e)
  BY EntryTyped
<1>2. /\ active \in Seq(EntryType) /\ Len(active) = Depth /\ Depth \in Nat
      /\ \A k \in 1 .. Depth : call_stack[k].return_ip = active[k].site + 1
  BY DEF CallsInv, OneFrameEach, Live, Depth, TypeOK, FramesOK
<1>3. call_stack \in Seq(FrameType)
  BY DEF TypeOK, FramesOK
<1>4. PICK s \in Stacks : call_stack' = Append(call_stack, Frame(ip + 1, s))
  BY DEF Pushing
<1> DEFINE f == Frame(ip + 1, s)
<1>5. f.return_ip = ip + 1 /\ call_stack' = Append(call_stack, f)
  BY <1>4 DEF Frame
<1> HIDE DEF e, f, EntryType, FrameType
<1>6. /\ active' \in Seq(EntryType)
      /\ Len(active') = Depth + 1
      /\ \A k \in 1 .. Depth : active'[k] = active[k]
      /\ active'[Depth + 1] = e
  BY <1>1, <1>2
<1>7. /\ Depth' = Depth + 1
      /\ \A k \in 1 .. Depth : call_stack'[k] = call_stack[k]
      /\ call_stack'[Depth + 1] = f
  BY <1>2, <1>3, <1>5 DEF Depth
<1>8. ASSUME NEW k \in 1 .. Depth + 1
      PROVE  call_stack'[k].return_ip = active'[k].site + 1
  <2>1. CASE k \in 1 .. Depth
    BY <1>2, <1>6, <1>7, <2>1
  <2>2. CASE k = Depth + 1
    BY <1>1, <1>5, <1>6, <1>7, <2>2
  <2> QED
    BY <1>2, <2>1, <2>2
<1> QED
  BY <1>6, <1>7, <1>8 DEF OneFrameEach

\* RET pops the two.
LEMMA ReturnKeepsCalls ==
  ASSUME TypeOK, Live, CallsInv, Return,
         active' = IF active # <<>> THEN SubSeq(active, 1, Len(active) - 1) ELSE active
  PROVE  active' \in Seq(EntryType) /\ OneFrameEach'
<1>1. /\ active \in Seq(EntryType) /\ Len(active) = Depth /\ Depth \in Nat
      /\ \A k \in 1 .. Depth : call_stack[k].return_ip = active[k].site + 1
      /\ call_stack \in Seq(FrameType)
  BY DEF CallsInv, OneFrameEach, Live, Depth, TypeOK, FramesOK
<1>2. call_stack = <<>> <=> active = <<>>
  BY <1>1, EmptySeq DEF Depth
<1>3. CASE call_stack = <<>>
  BY <1>1, <1>2, <1>3 DEF Return, OneFrameEach, Depth
<1>4. CASE call_stack # <<>>
  <2> DEFINE n == Depth - 1
  <2>1. n \in Nat /\ n <= Depth
    BY <1>1, <1>4, EmptySeq DEF Depth
  <2>2. call_stack' = SubSeq(call_stack, 1, n) /\ active' = SubSeq(active, 1, n)
    BY <1>1, <1>2, <1>4 DEF Return
  <2> HIDE DEF n, EntryType, FrameType
  <2>3. /\ active' \in Seq(EntryType) /\ Len(active') = n
        /\ \A k \in 1 .. n : active'[k] = active[k]
    BY <1>1, <2>1, <2>2
  <2>4. /\ Len(call_stack') = n
        /\ \A k \in 1 .. n : call_stack'[k] = call_stack[k]
    BY <1>1, <2>1, <2>2 DEF Depth
  <2> QED
    BY <1>1, <2>1, <2>3, <2>4 DEF OneFrameEach, Depth
<1> QED
  BY <1>3, <1>4

\* Every other instruction keeps the two as they are, unless it is a RESUME.
LEMMA StayingKeepsCalls ==
  ASSUME TypeOK, Live, CallsInv, Keeping \/ Saving, active' = active
  PROVE  active' \in Seq(EntryType) /\ OneFrameEach'
<1>1. /\ active \in Seq(EntryType) /\ Len(active) = Depth
      /\ \A k \in 1 .. Depth : call_stack[k].return_ip = active[k].site + 1
  BY DEF CallsInv, OneFrameEach, Live
<1>2. Depth' = Depth
  BY DEF Keeping, Saving, Depth
<1>3. \A k \in 1 .. Depth : call_stack'[k].return_ip = call_stack[k].return_ip
  BY DEF Keeping, Saving
<1> QED
  BY <1>1, <1>2, <1>3 DEF OneFrameEach

\* So every instruction keeps the frames and the entries together.
LEMMA InstructionKeepsCalls ==
  ASSUME TypeOK, TypeOK', CallsInv, Instruction, Remember, RoomForFrame, NoResume
  PROVE  CallsInv'
<1>1. Live /\ host' \in {"executing", "exited", "hung"}
  BY InstructionHost
<1>2. active' \in Seq(EntryType) /\ OneFrameEach'
  <2>1. Pushing \/ Overflowing \/ Keeping \/ Return \/ Saving
    BY FrameEffect, SavingEffect
  <2>2. CASE Pushing
    BY <1>1, <2>2, EffectOnHistory, PushingKeepsCalls
  <2>3. CASE Overflowing
    BY <1>1, <2>3, EffectOnHistory
  <2>4. CASE Keeping \/ Saving
    <3>1. ~(At({"RESUME"}) /\ ~fatal_error)
      BY DEF NoResume
    <3> QED
      BY <1>1, <2>4, <3>1, EffectOnHistory, StayingKeepsCalls
  <2>5. CASE Return
    BY <1>1, <2>5, EffectOnHistory, ReturnKeepsCalls
  <2> QED
    BY <2>1, <2>2, <2>3, <2>4, <2>5
<1> QED
  BY <1>1, <1>2 DEF CallsInv

\* The host starts a program without frames and without entries.
LEMMA HostKeepsCalls ==
  ASSUME ~HostContinues, CallsInv, Remember,
         Load \/ Execute \/ Finish \/ ContinueStopped \/ ContinueResume \/ Terminated
  PROVE  CallsInv'
<1>1. <<>> \in Seq(EntryType) /\ Len(<<>>) = 0
  OBVIOUS
<1>2. CASE Load
  BY <1>1, <1>2, RememberNothing DEF Load, CallsInv
<1>3. CASE Execute
  <2>1. active' = <<>> /\ call_stack' = <<>> /\ host' = "executing"
    BY <1>3, RememberNothing DEF Execute, Begin, CallsInv
  <2> QED
    BY <1>1, <2>1 DEF CallsInv, OneFrameEach, Depth
<1>4. CASE Finish
  <2>1. host = "executing" /\ host' = "done" /\ ~Live /\ UNCHANGED call_stack
    BY <1>4 DEF Finish
  <2>2. ~Entered /\ ~Left
    <3>1. ~Called /\ ~TrapsWithoutFrame /\ ~Left
      BY <2>1 DEF Called, TrapsWithoutFrame, Left, At
    <3>2. Depth' = Depth
      BY <2>1 DEF Depth
    <3>3. CallsInv => Depth \in Nat
      BY <2>1 DEF CallsInv, OneFrameEach
    <3> QED
      BY <3>1, <3>2, <3>3 DEF Entered
  <2> QED
    BY <2>1, <2>2, RememberStep DEF CallsInv
<1>5. CASE Terminated
  BY <1>1, <1>5, RememberNothing DEF Terminated, CallsInv, vmvars, caller
<1> QED
  BY <1>2, <1>3, <1>4, <1>5 DEF ContinueStopped, ContinueResume

LEMMA CallsStep ==
  ASSUME ~HostContinues, TypeOK, TypeOK', CallsInv, RoomForFrame, NoResume, [HNext]_hvars
  PROVE  CallsInv'
<1>1. CASE UNCHANGED hvars
  BY <1>1 DEF hvars, vmvars, caller, CallsInv, OneFrameEach, Depth
<1>2. CASE HNext
  BY <1>2, InstructionKeepsCalls, HostKeepsCalls DEF HNext, Next
<1> QED
  BY <1>1, <1>2

LEMMA CallsInit ==
  ASSUME HInit
  PROVE  CallsInv
BY DEF HInit, Init, CallsInv

\* As long as every call and every handled error finds room for its frame and
\* no program RESUMEs, a program that is executed has one frame for each
\* subroutine and handler it is in.
THEOREM FramesMatch ==
  ~HostContinues => (HSpec /\ []RoomForFrame /\ []NoResume => []FramesMatchCalls)
<1> SUFFICES ASSUME ~HostContinues
             PROVE  HSpec /\ []RoomForFrame /\ []NoResume => []FramesMatchCalls
  OBVIOUS
<1>1. HInit => TypeOK /\ CallsInv
  BY TypeInit, CallsInit DEF HInit
<1>2. TypeOK /\ [HNext]_hvars => TypeOK'
  BY HistoryStep, TypeStep
<1>3. /\ TypeOK /\ TypeOK' /\ CallsInv /\ RoomForFrame /\ NoResume /\ [HNext]_hvars
      => CallsInv'
  BY CallsStep
<1>4. CallsInv => FramesMatchCalls
  BY DEF CallsInv, OneFrameEach, FramesMatchCalls
<1> QED
  BY <1>1, <1>2, <1>3, <1>4, PTL DEF HSpec

-----------------------------------------------------------------------------
(***************************************************************************)
(* Where RETURN goes.                                                      *)
(***************************************************************************)
\* Nothing else happens at a RET.
LEMMA OnlyReturn ==
  ASSUME Next, At({"RET"})
  PROVE  Return
<1>1. Live /\ Fetch.op = "RET" /\ host = "executing"
  BY DEF At, Live
<1>2. ~(Load \/ Execute \/ Finish \/ ContinueStopped \/ ContinueResume \/ Terminated)
  BY <1>1 DEF Load, Execute, Finish, ContinueStopped, ContinueResume, Terminated
<1>3. ~(PushConst \/ PushString \/ PushVar \/ Pop \/ PopStore \/ Dup \/ Swap
        \/ ArrayLoad \/ ArrayStore)
  BY <1>1 DEF PushConst, PushString, PushVar, Pop, PopStore, Dup, Swap,
              ArrayLoad, ArrayStore, At
<1>4. ~(BinaryOp \/ Negate \/ Divide)
  BY <1>1 DEF BinaryOp, Negate, Divide, At, Arithmetic, Comparisons, Logic, Divisions
<1>5. ~(Jump \/ JumpIf \/ Call \/ SaveLocal \/ BindRef \/ OnGoto
        \/ Marker \/ End \/ Stop \/ Quit \/ OnError \/ Raise \/ Resume)
  BY <1>1 DEF Jump, JumpIf, Call, SaveLocal, BindRef, OnGoto, Marker,
              End, Stop, Quit, OnError, Raise, Resume, At
<1>6. ~Statement
  BY <1>1 DEF Statement, At, RowOps, PrintOps, TransferOps, ScreenOps,
              ChannelOps, MemoryOps, SystemOps, ArrayOps, GfxOps, WindowOps
<1>7. ~(Poly \/ InputVar \/ Dim \/ EraseVar \/ ClearAll \/ Mat \/ MatExpr
        \/ ReadData \/ Restore \/ Builtin \/ Chain)
  BY <1>1 DEF Poly, InputVar, Dim, EraseVar, ClearAll, Mat, MatExpr, ReadData,
              Restore, Builtin, Chain, At
<1> QED
  BY <1>2, <1>3, <1>4, <1>5, <1>6, <1>7 DEF Next, Instruction

\* The innermost frame is that of the innermost entry.
LEMMA InnermostFrame ==
  ASSUME TypeOK, CallsInv, Live, active # <<>>
  PROVE  /\ Depth \in Nat \ {0} /\ Len(active) = Depth
         /\ call_stack[Depth].return_ip = Innermost.site + 1
<1>1. /\ active \in Seq(EntryType) /\ Len(active) = Depth /\ Depth \in Nat
      /\ \A k \in 1 .. Depth : call_stack[k].return_ip = active[k].site + 1
  BY DEF CallsInv, OneFrameEach, Live, Depth, TypeOK, FramesOK
<1>2. Len(active) # 0
  BY <1>1, EmptySeq
<1> QED
  BY <1>1, <1>2 DEF Innermost

LEMMA ReturningStep ==
  ASSUME TypeOK, CallsInv, HNext, Returning
  PROVE  ip' = Innermost.site + 1
<1>1. Return /\ Live /\ active # <<>> /\ call_stack # <<>>
  BY OnlyReturn DEF HNext, Returning, At
<1> QED
  BY <1>1, InnermostFrame DEF Return

\* Under the same conditions RETURN goes on behind what entered the innermost
\* subroutine or handler.
THEOREM ReturnsSafe ==
  ~HostContinues => (HSpec /\ []RoomForFrame /\ []NoResume => ReturnsToCaller)
<1> SUFFICES ASSUME ~HostContinues
             PROVE  HSpec /\ []RoomForFrame /\ []NoResume => ReturnsToCaller
  OBVIOUS
<1>1. HInit => TypeOK /\ CallsInv
  BY TypeInit, CallsInit DEF HInit
<1>2. TypeOK /\ [HNext]_hvars => TypeOK'
  BY HistoryStep, TypeStep
<1>3. /\ TypeOK /\ TypeOK' /\ CallsInv /\ RoomForFrame /\ NoResume /\ [HNext]_hvars
      => CallsInv'
  BY CallsStep
<1>4. TypeOK /\ CallsInv /\ [HNext]_hvars => [Returning => ip' = Innermost.site + 1]_hvars
  BY ReturningStep
<1> QED
  BY <1>1, <1>2, <1>3, <1>4, PTL DEF HSpec, ReturnsToCaller

-----------------------------------------------------------------------------
(***************************************************************************)
(* Where RESUME goes, with or without room for frames.                     *)
(***************************************************************************)
\* The handler that is active, if any, was entered by the last error.
ResumeInv ==
  /\ active \in Seq(EntryType)
  /\ \A k \in Handlers : active[k].site = resume_ip

\* An instruction makes an entry, a handler if it has raised an error, or
\* leaves one, or neither.
LEMMA EntryEffect ==
  ASSUME TypeOK, Instruction, Remember
  PROVE  \/ /\ active' = Append(active, Entry)
            /\ \/ Called /\ resume_ip' = resume_ip
               \/ ~Called /\ resume_ip' = ip
         \/ /\ \/ active' = active
               \/ active # <<>> /\ active' = SubSeq(active, 1, Len(active) - 1)
            /\ resume_ip' = resume_ip
<1>1. Live /\ host = "executing"
  BY InstructionHost DEF Live
<1>2. Pushing \/ Overflowing \/ Keeping \/ Return \/ Saving
  BY FrameEffect, SavingEffect
<1>3. CASE Pushing
  BY <1>1, <1>3, EffectOnHistory DEF Pushing
<1>4. CASE Overflowing
  <2>1. Depth' = Depth /\ Depth \in Nat
    BY <1>4 DEF Overflowing, Depth, TypeOK, FramesOK
  <2>2. CASE TrapsWithoutFrame
    <3>1. ~Called
      BY <1>4, <2>1, <2>2 DEF Overflowing, Called, TrapsWithoutFrame, At, FaultOps
    <3>2. Entered /\ resume_ip' = ip
      BY <2>2 DEF Entered, TrapsWithoutFrame
    <3> QED
      BY <1>1, <3>1, <3>2, RememberStep
  <2>3. CASE At({"ON_GOSUB"}) /\ resume_ip' = resume_ip
    <3>1. ~TrapsWithoutFrame /\ ~Left
      BY <2>3 DEF TrapsWithoutFrame, At, FaultOps, Left
    <3>2. Entered <=> Called
      BY <2>1, <3>1 DEF Entered
    <3> QED
      BY <1>1, <2>3, <3>1, <3>2, RememberStep
  <2> QED
    BY <1>4, <2>2, <2>3 DEF Overflowing
<1>5. CASE Keeping \/ Saving
  BY <1>1, <1>5, EffectOnHistory DEF Keeping, Saving
<1>6. CASE Return
  BY <1>1, <1>6, EffectOnHistory DEF Return, errors
<1> QED
  BY <1>2, <1>3, <1>4, <1>5, <1>6

LEMMA InstructionKeepsResume ==
  ASSUME TypeOK, TypeOK', ResumeInv, Instruction, Remember, OneHandler'
  PROVE  ResumeInv'
<1>1. Live
  BY InstructionHost
<1>2. /\ active \in Seq(EntryType)
      /\ \A k \in 1 .. Len(active) : active[k].handler => active[k].site = resume_ip
  BY DEF ResumeInv, Handlers
<1>3. CASE /\ active' = Append(active, Entry)
           /\ \/ Called /\ resume_ip' = resume_ip
              \/ ~Called /\ resume_ip' = ip
  <2> DEFINE e == Entry
             n == Len(active)
  <2>1. /\ e \in EntryType /\ e.site = ip /\ active' = Append(active, e)
        /\ e.handler <=> ~Called
    BY <1>1, <1>3, EntryTyped
  <2> HIDE DEF e, EntryType
  <2>2. n \in Nat
    BY <1>2
  <2>3. /\ active' \in Seq(EntryType) /\ Len(active') = n + 1
        /\ \A k \in 1 .. n : active'[k] = active[k]
        /\ active'[n + 1] = e
    BY <1>2, <2>1
  <2> HIDE DEF n
  <2>4. ASSUME NEW k \in 1 .. n + 1, active'[k].handler
        PROVE  active'[k].site = resume_ip'
    <3>1. CASE Called
      <4>1. k \in 1 .. n /\ active[k].handler
        BY <2>1, <2>2, <2>3, <2>4, <3>1
      <4> QED
        BY <1>2, <1>3, <2>3, <3>1, <4>1 DEF n
    <3>2. CASE ~Called
      <4>1. n + 1 \in Handlers'
        BY <2>1, <2>2, <2>3, <3>2 DEF Handlers
      <4>2. k \in Handlers'
        BY <2>2, <2>3, <2>4 DEF Handlers
      <4>3. k = n + 1
        BY <4>1, <4>2 DEF OneHandler
      <4> QED
        BY <1>3, <2>1, <2>3, <3>2, <4>3
    <3> QED
      BY <3>1, <3>2
  <2> QED
    BY <2>3, <2>4 DEF ResumeInv, Handlers
<1>4. CASE active' = active /\ resume_ip' = resume_ip
  BY <1>4 DEF ResumeInv, Handlers
<1>5. CASE /\ active # <<>> /\ active' = SubSeq(active, 1, Len(active) - 1)
           /\ resume_ip' = resume_ip
  <2> DEFINE n == Len(active) - 1
  <2>1. n \in Nat /\ n <= Len(active) /\ active' = SubSeq(active, 1, n)
    BY <1>2, <1>5, EmptySeq
  <2> HIDE DEF n, EntryType
  <2>2. /\ active' \in Seq(EntryType) /\ Len(active') = n
        /\ \A k \in 1 .. n : active'[k] = active[k]
    BY <1>2, <2>1
  <2>3. \A k \in 1 .. n : active'[k].handler => active'[k].site = resume_ip'
    BY <1>2, <1>5, <2>1, <2>2
  <2> QED
    BY <2>2, <2>3 DEF ResumeInv, Handlers
<1> QED
  BY <1>3, <1>4, <1>5, EntryEffect

LEMMA ResumeInvStep ==
  ASSUME TypeOK, TypeOK', ResumeInv, OneHandler', [HNext]_hvars
  PROVE  ResumeInv'
<1>1. CASE UNCHANGED hvars
  BY <1>1 DEF hvars, vmvars, errors, ResumeInv, Handlers
<1>2. CASE Instruction /\ Remember
  BY <1>2, InstructionKeepsResume
<1>3. CASE Remember /\ host # "executing"
  <2>1. active' = <<>>
    BY <1>3, RememberNothing
  <2> QED
    BY <2>1 DEF ResumeInv, Handlers
<1>4. CASE Remember /\ Finish
  <2>1. host = "executing" /\ ~Live /\ UNCHANGED <<call_stack, resume_ip>>
    BY <1>4 DEF Finish, errors
  <2>2. ~Called /\ ~TrapsWithoutFrame /\ ~Left
    BY <2>1 DEF Called, TrapsWithoutFrame, Left, At
  <2>3. Depth' = Depth /\ Depth \in Nat
    BY <2>1 DEF Depth, TypeOK, FramesOK
  <2>4. active' = active
    BY <1>4, <2>1, <2>2, <2>3, RememberStep DEF Entered
  <2> QED
    BY <2>1, <2>4 DEF ResumeInv, Handlers
<1> QED
  BY <1>1, <1>2, <1>3, <1>4
     DEF HNext, Next, Load, Execute, ContinueStopped, ContinueResume, Terminated

\* Nothing else happens at a RESUME.
LEMMA OnlyResume ==
  ASSUME Next, At({"RESUME"})
  PROVE  Resume
<1>1. Live /\ Fetch.op = "RESUME" /\ host = "executing"
  BY DEF At, Live
<1>2. ~(Load \/ Execute \/ Finish \/ ContinueStopped \/ ContinueResume \/ Terminated)
  BY <1>1 DEF Load, Execute, Finish, ContinueStopped, ContinueResume, Terminated
<1>3. ~(PushConst \/ PushString \/ PushVar \/ Pop \/ PopStore \/ Dup \/ Swap
        \/ ArrayLoad \/ ArrayStore)
  BY <1>1 DEF PushConst, PushString, PushVar, Pop, PopStore, Dup, Swap,
              ArrayLoad, ArrayStore, At
<1>4. ~(BinaryOp \/ Negate \/ Divide)
  BY <1>1 DEF BinaryOp, Negate, Divide, At, Arithmetic, Comparisons, Logic, Divisions
<1>5. ~(Jump \/ JumpIf \/ Call \/ Return \/ SaveLocal \/ BindRef \/ OnGoto
        \/ Marker \/ End \/ Stop \/ Quit \/ OnError \/ Raise)
  BY <1>1 DEF Jump, JumpIf, Call, Return, SaveLocal, BindRef, OnGoto, Marker,
              End, Stop, Quit, OnError, Raise, At
<1>6. ~Statement
  BY <1>1 DEF Statement, At, RowOps, PrintOps, TransferOps, ScreenOps,
              ChannelOps, MemoryOps, SystemOps, ArrayOps, GfxOps, WindowOps
<1>7. ~(Poly \/ InputVar \/ Dim \/ EraseVar \/ ClearAll \/ Mat \/ MatExpr
        \/ ReadData \/ Restore \/ Builtin \/ Chain)
  BY <1>1 DEF Poly, InputVar, Dim, EraseVar, ClearAll, Mat, MatExpr, ReadData,
              Restore, Builtin, Chain, At
<1> QED
  BY <1>2, <1>3, <1>4, <1>5, <1>6, <1>7 DEF Next, Instruction

LEMMA ResumingStep ==
  ASSUME ResumeInv, OneHandler, HNext, At({"RESUME"}), ~fatal_error, Handlers # {}
  PROVE  LET last == CHOOSE k \in Handlers : \A j \in Handlers : j <= k
         IN  ip' = active[last].site + Fetch.arg
<1> DEFINE last == CHOOSE k \in Handlers : \A j \in Handlers : j <= k
<1>1. PICK h \in Handlers : TRUE
  OBVIOUS
<1>2. h \in Nat /\ \A j \in Handlers : j <= h
  BY <1>1 DEF OneHandler, Handlers, ResumeInv
<1>3. last \in Handlers
  BY <1>1, <1>2
<1>4. ip' = resume_ip + Fetch.arg
  BY OnlyResume DEF HNext, Resume
<1> QED
  BY <1>3, <1>4 DEF ResumeInv

\* As long as no error is handled inside a handler, RESUME goes back to the
\* instruction whose error entered the handler, whatever calls and returns,
\* frames or lack of frames lie between the two.
THEOREM ResumesSafe == HSpec /\ []OneHandler => ResumesAtFault
<1> DEFINE Resuming == At({"RESUME"}) /\ ~fatal_error /\ Handlers # {}
           Goes     == LET last == CHOOSE k \in Handlers : \A j \in Handlers : j <= k
                       IN  ip' = active[last].site + Fetch.arg
<1>1. HInit => TypeOK /\ ResumeInv
  BY TypeInit DEF HInit, ResumeInv, Handlers
<1>2. TypeOK /\ [HNext]_hvars => TypeOK'
  BY HistoryStep, TypeStep
<1>3. TypeOK /\ TypeOK' /\ ResumeInv /\ OneHandler' /\ [HNext]_hvars => ResumeInv'
  BY ResumeInvStep
<1>4. ResumeInv /\ OneHandler /\ [HNext]_hvars => [Resuming => Goes]_hvars
  BY ResumingStep
<1> QED
  BY <1>1, <1>2, <1>3, <1>4, PTL DEF HSpec, ResumesAtFault

-----------------------------------------------------------------------------
(***************************************************************************)
(* The parameters of a subroutine.  Until SAVE_LOCAL has saved what a      *)
(* parameter had at the call, the variable still has it, for the program   *)
(* is at the instructions that receive the parameters.                     *)
(***************************************************************************)
SaveSites(a) == {j \in Receivers(a) : code[j + 1].op = "SAVE_LOCAL"}

\* The first value that saved has for variable v is x.
FirstSaved(saved, v, x) ==
  \E m \in 1 .. Len(saved) :
    /\ saved[m].var = v /\ saved[m].val = x
    /\ \A i \in 1 .. m - 1 : saved[i].var # v

Kept(k, j) ==
  FirstSaved(call_stack[k].saved, code[j + 1].sym, active[k].vars[code[j + 1].sym])

Awaited(k, j) ==
  /\ k = Depth
  /\ ip = active[k].to \/ ip \in Receivers(active[k].to)
  /\ ip <= j
  /\ vars[code[j + 1].sym] = active[k].vars[code[j + 1].sym]
  /\ \A m \in 1 .. Len(call_stack[k].saved) :
       call_stack[k].saved[m].var # code[j + 1].sym

ParametersKept ==
  \A k \in 1 .. Depth :
    /\ Fitting(active[k].vars)
    /\ ~active[k].handler =>
         \A j \in SaveSites(active[k].to) : Kept(k, j) \/ Awaited(k, j)

ParametersInv ==
  /\ CallsInv
  /\ VariablesFit
  /\ host = "executing" => ParametersKept

\* The sites at which parameters are received are instructions of the program,
\* and those before such a site are such sites too.
LEMMA ReceiversType ==
  ASSUME TypeOK, NEW a \in Nat, NEW j \in Receivers(a)
  PROVE  /\ a \in 0 .. Len(code) - 1 /\ j \in Body(a) .. Len(code) - 1 /\ j \in Nat
         /\ Body(a) \in {a, a + 1}
         /\ Body(a) # a => code[a + 1].op = "LABEL"
         /\ code[j + 1].op \in {"SAVE_LOCAL", "BIND_REF"}
         /\ \A i \in Body(a) .. j : i \in Receivers(a)
<1>1. Len(code) \in Nat
  BY VMAssumption, EmptySeq DEF TypeOK, CallerOK, WellFormed, NoProgram, code
<1>2. Body(a) \in {a, a + 1} /\ Body(a) # a => code[a + 1].op = "LABEL"
  BY DEF Body
<1>3. /\ j \in Body(a) .. Len(code) - 1
      /\ \A i \in Body(a) .. j : code[i + 1].op \in {"SAVE_LOCAL", "BIND_REF"}
  BY DEF Receivers
<1> QED
  BY <1>1, <1>2, <1>3 DEF Receivers, Body

\* A site that saves names a variable.
LEMMA SiteVariable ==
  ASSUME TypeOK, Live, NEW a \in Nat, NEW j \in SaveSites(a)
  PROVE  code[j + 1].sym \in Vars /\ j \in Receivers(a) /\ code[j + 1].op = "SAVE_LOCAL"
<1>1. j \in Receivers(a) /\ code[j + 1].op = "SAVE_LOCAL"
  BY DEF SaveSites
<1>2. j \in 0 .. Len(code) - 1
  BY <1>1, ReceiversType
<1>3. WellFormed(program) /\ Len(code) \in Nat
  BY FetchType
<1>4. j + 1 \in 1 .. Len(code)
  BY <1>2, <1>3
<1> QED
  BY <1>1, <1>3, <1>4 DEF WellFormed, code, VarOps

LEMMA SameSites ==
  ASSUME UNCHANGED program
  PROVE  /\ code' = code
         /\ \A a : Receivers(a)' = Receivers(a) /\ SaveSites(a)' = SaveSites(a)
BY DEF code, SaveSites, Receivers, Body

\* What is appended to the saved values.
LEMMA FirstSavedAppend ==
  ASSUME NEW S, NEW saved \in Seq(S), NEW e \in S, NEW v, NEW x, FirstSaved(saved, v, x)
  PROVE  FirstSaved(Append(saved, e), v, x)
<1> DEFINE t == Append(saved, e)
<1>1. Len(t) = Len(saved) + 1 /\ \A m \in 1 .. Len(saved) : t[m] = saved[m]
  OBVIOUS
<1>2. PICK m \in 1 .. Len(saved) :
        saved[m].var = v /\ saved[m].val = x /\ \A i \in 1 .. m - 1 : saved[i].var # v
  BY DEF FirstSaved
<1> HIDE DEF t
<1>3. m \in 1 .. Len(t) /\ t[m].var = v /\ t[m].val = x
  BY <1>1, <1>2
<1>4. \A i \in 1 .. m - 1 : t[i].var # v
  BY <1>1, <1>2
<1>5. FirstSaved(t, v, x)
  BY <1>3, <1>4 DEF FirstSaved
<1> QED
  BY <1>5 DEF t

LEMMA FirstSavedNow ==
  ASSUME NEW S, NEW saved \in Seq(S), NEW e \in S,
         \A m \in 1 .. Len(saved) : saved[m].var # e.var
  PROVE  FirstSaved(Append(saved, e), e.var, e.val)
<1> DEFINE t == Append(saved, e)
           n == Len(saved)
<1>1. /\ n \in Nat /\ Len(t) = n + 1 /\ t[n + 1] = e
      /\ \A m \in 1 .. n : t[m] = saved[m]
  OBVIOUS
<1>2. \A m \in 1 .. n : saved[m].var # e.var
  OBVIOUS
<1> HIDE DEF t, n
<1>3. n + 1 \in 1 .. Len(t) /\ \A i \in 1 .. (n + 1) - 1 : t[i].var # e.var
  BY <1>1, <1>2
<1>4. FirstSaved(t, e.var, e.val)
  BY <1>1, <1>3 DEF FirstSaved
<1> QED
  BY <1>4 DEF t

\* RET gives a variable the first value that was saved for it.
LEMMA RestoredFirst ==
  ASSUME NEW S, NEW saved \in Seq(S), NEW v \in Vars, NEW x, FirstSaved(saved, v, x)
  PROVE  Restored(saved)[v] = IF TypeOf[v] = "array" THEN vars[v] ELSE Coerce(TypeOf[v], x)
<1> DEFINE Saves == {k \in 1 .. Len(saved) : saved[k].var = v}
           first == CHOOSE k \in Saves : \A j \in Saves : k <= j
<1>1. PICK m \in 1 .. Len(saved) :
        saved[m].var = v /\ saved[m].val = x /\ \A i \in 1 .. m - 1 : saved[i].var # v
  BY DEF FirstSaved
<1>2. m \in Saves /\ Len(saved) \in Nat
  BY <1>1
<1>3. \A j \in Saves : m <= j
  BY <1>1, <1>2
<1>4. first \in Saves /\ \A j \in Saves : first <= j
  BY <1>2, <1>3
<1>5. first = m
  <2>1. first <= m /\ m <= first
    BY <1>2, <1>3, <1>4
  <2>2. first \in Nat /\ m \in Nat
    BY <1>2, <1>4
  <2> HIDE DEF first
  <2> QED
    BY <2>1, <2>2
<1>6. Restored(saved)[v] = IF TypeOf[v] = "array" THEN vars[v]
                           ELSE Coerce(TypeOf[v], saved[first].val)
  BY <1>2 DEF Restored
<1> QED
  BY <1>1, <1>5, <1>6

\* While a value is awaited, the program receives parameters.
LEMMA AwaitedOp ==
  ASSUME TypeOK, Live, NEW k, active[k].to \in Nat,
         NEW j \in SaveSites(active[k].to), Awaited(k, j)
  PROVE  /\ Fetch.op \in {"LABEL", "SAVE_LOCAL", "BIND_REF"}
         /\ ip < j => (ip + 1 <= j /\ ip + 1 \in Receivers(active[k].to))
         /\ ip \notin Receivers(active[k].to) => Fetch.op = "LABEL"
         /\ Fetch.op # "LABEL" => ip \in Receivers(active[k].to)
<1> DEFINE a == active[k].to
<1>1. /\ a \in Nat /\ j \in Receivers(a) /\ ip \in Nat /\ j \in Nat /\ ip <= j
      /\ ip = a \/ ip \in Receivers(a)
  BY SiteVariable, ReceiversType DEF Awaited, TypeOK
<1> HIDE DEF a
<1>2. /\ Body(a) \in {a, a + 1} /\ j \in Body(a) .. Len(code) - 1
      /\ Body(a) # a => code[a + 1].op = "LABEL"
      /\ \A i \in Body(a) .. j : i \in Receivers(a)
  BY <1>1, ReceiversType
<1>3. CASE ip \in Receivers(a)
  <2>1. ip \in Body(a) .. Len(code) - 1 /\ code[ip + 1].op \in {"SAVE_LOCAL", "BIND_REF"}
    BY <1>1, <1>3, ReceiversType
  <2>2. ip < j => ip + 1 \in Body(a) .. j
    BY <1>1, <1>2, <2>1
  <2> QED
    BY <1>1, <1>2, <1>3, <2>1, <2>2 DEF Fetch, a
<1>4. CASE ip \notin Receivers(a)
  <2>1. ip = a /\ Body(a) = a + 1
    BY <1>1, <1>2, <1>4
  <2>2. ip < j => ip + 1 \in Body(a) .. j
    BY <1>1, <1>2, <2>1
  <2> QED
    BY <1>1, <1>2, <1>4, <2>1, <2>2 DEF Fetch, a
<1> QED
  BY <1>3, <1>4

\* Nothing else happens at these instructions.
LEMMA OnlyReceiving ==
  ASSUME Instruction, Fetch.op \in {"LABEL", "SAVE_LOCAL", "BIND_REF"}
  PROVE  \/ Marker
         \/ SaveLocal /\ Fetch.op = "SAVE_LOCAL"
         \/ BindRef /\ Fetch.op = "BIND_REF"
<1>3. ~(PushConst \/ PushString \/ PushVar \/ Pop \/ PopStore \/ Dup \/ Swap
        \/ ArrayLoad \/ ArrayStore)
  BY DEF PushConst, PushString, PushVar, Pop, PopStore, Dup, Swap, ArrayLoad, ArrayStore, At
<1>4. ~(BinaryOp \/ Negate \/ Divide)
  BY DEF BinaryOp, Negate, Divide, At, Arithmetic, Comparisons, Logic, Divisions
<1>5. ~(Jump \/ JumpIf \/ Call \/ Return \/ OnGoto \/ End \/ Stop \/ Quit
        \/ OnError \/ Raise \/ Resume)
  BY DEF Jump, JumpIf, Call, Return, OnGoto, End, Stop, Quit, OnError, Raise, Resume, At
<1>6. ~Statement
  BY DEF Statement, At, RowOps, PrintOps, TransferOps, ScreenOps, ChannelOps, MemoryOps,
         SystemOps, ArrayOps, GfxOps, WindowOps
<1>7. ~(Poly \/ InputVar \/ Dim \/ EraseVar \/ ClearAll \/ Mat \/ MatExpr
        \/ ReadData \/ Restore \/ Builtin \/ Chain)
  BY DEF Poly, InputVar, Dim, EraseVar, ClearAll, Mat, MatExpr, ReadData, Restore,
         Builtin, Chain, At
<1> QED
  BY <1>3, <1>4, <1>5, <1>6, <1>7 DEF Instruction, SaveLocal, BindRef, At

\* The instruction at another site gives a value to another variable.
LEMMA OtherParameter ==
  ASSUME TypeOK, Live, ParametersApart, NEW a \in Nat, NEW j \in SaveSites(a),
         ip \in Receivers(a), ip # j
  PROVE  Fetch.sym # code[j + 1].sym
<1>1. j \in Receivers(a) /\ a \in 0 .. Len(code) - 1
  BY SiteVariable, ReceiversType
<1> QED
  BY <1>1 DEF ParametersApart, Fetch

\* What a step of the receiving instructions leaves awaited.
LEMMA StillAwaited ==
  ASSUME TypeOK, Live, ParametersApart, Instruction, active' = active,
         Marker \/ BindRef \/ SaveLocal,
         NEW k, active[k].to \in Nat, NEW j \in SaveSites(active[k].to),
         Awaited(k, j), ip # j, UNCHANGED program
  PROVE  /\ ip' \in Receivers(active[k].to)
         /\ ip' <= j
         /\ vars'[code[j + 1].sym] = vars[code[j + 1].sym]
<1> DEFINE a == active[k].to
           u == code[j + 1].sym
<1>1. j \in Nat /\ ip \in Nat /\ ip <= j /\ u \in Vars
  BY SiteVariable, ReceiversType DEF Awaited, TypeOK
<1>2. ip + 1 <= j /\ ip + 1 \in Receivers(a)
  BY <1>1, AwaitedOp
<1>3. ip' = ip + 1
  BY DEF Marker, BindRef, SaveLocal, Advance
<1>4. vars'[u] = vars[u]
  <2>1. CASE Marker
    BY <2>1 DEF Marker, Plain, memory
  <2>2. CASE (BindRef \/ SaveLocal) /\ ~Marker
    <3>1. Fetch.op # "LABEL" /\ At({"BIND_REF", "SAVE_LOCAL"})
      BY <2>2 DEF BindRef, SaveLocal, At
    <3>2. ip \in Receivers(a)
      BY <3>1, AwaitedOp
    <3>3. Fetch.sym # u
      BY <3>2, OtherParameter
    <3>4. vars' = vars \/ \E x : vars' = Assign(Fetch.sym, x)
      BY <2>2 DEF BindRef, SaveLocal
    <3>5. vars \in [Vars -> Int]
      BY DEF TypeOK, MemoryOK
    <3> HIDE DEF u
    <3> QED
      BY <1>1, <3>3, <3>4, <3>5 DEF Assign
  <2> QED
    BY <2>1, <2>2
<1> QED
  BY <1>2, <1>3, <1>4

\* Of an entry and its frame that are as they were.
LEMMA SameEntryKept ==
  ASSUME NEW k, NEW j, UNCHANGED program, active'[k] = active[k],
         call_stack'[k] = call_stack[k], Kept(k, j)
  PROVE  Kept(k, j)'
<1>1. code' = code
  BY SameSites
<1> QED
  BY <1>1 DEF Kept, FirstSaved

\* An active subroutine has an entry.
LEMMA EntryOf ==
  ASSUME CallsInv, OneFrameEach, NEW k \in 1 .. Depth
  PROVE  active[k] \in EntryType /\ active[k].to \in Nat /\ active[k].vars \in [Vars -> Int]
<1>1. active \in Seq(EntryType) /\ k \in 1 .. Len(active)
  BY DEF CallsInv, OneFrameEach
<1>2. active[k] \in EntryType
  BY <1>1, ElementOfSeq
<1> QED
  BY <1>2 DEF EntryType

\* Instructions that keep the frames keep what is kept and awaited in them.
LEMMA KeepingParameters ==
  ASSUME TypeOK, ParametersInv, ParametersApart, Instruction, Keeping, ~SaveLocal,
         active' = active
  PROVE  ParametersKept'
<1>1. Live /\ UNCHANGED program /\ UNCHANGED call_stack
  BY InstructionHost DEF Keeping
<1>2. ParametersKept /\ CallsInv /\ OneFrameEach
  BY <1>1 DEF ParametersInv, CallsInv, Live
<1>3. /\ code' = code /\ Depth' = Depth
      /\ \A a : Receivers(a)' = Receivers(a) /\ SaveSites(a)' = SaveSites(a)
  BY <1>1, SameSites DEF Depth
<1> SUFFICES ASSUME NEW k \in (1 .. Depth)'
             PROVE  /\ Fitting(active[k].vars)'
                    /\ ~active'[k].handler =>
                         \A j \in SaveSites(active[k].to)' : Kept(k, j)' \/ Awaited(k, j)'
  BY DEF ParametersKept
<1>4. k \in 1 .. Depth /\ active[k].to \in Nat
  BY <1>2, <1>3, EntryOf
<1>5. Fitting(active[k].vars)'
  BY <1>2, <1>4 DEF ParametersKept, Fitting
<1>6. ASSUME ~active'[k].handler, NEW j \in SaveSites(active[k].to)'
      PROVE  Kept(k, j)' \/ Awaited(k, j)'
  <2>1. j \in SaveSites(active[k].to)
    BY <1>3, <1>6 DEF SaveSites, Receivers, Body
  <2>2. Kept(k, j) \/ Awaited(k, j)
    BY <1>2, <1>4, <1>6, <2>1 DEF ParametersKept
  <2>3. CASE Kept(k, j)
    BY <1>1, <2>3, SameEntryKept
  <2>4. CASE Awaited(k, j)
    <3>1. Marker \/ BindRef
      BY <1>1, <1>4, <2>1, <2>4, AwaitedOp, OnlyReceiving
    <3>2. ip # j
      BY <1>1, <1>4, <2>1, <3>1, SiteVariable DEF Marker, BindRef, At, Fetch
    <3>3. /\ ip' \in Receivers(active[k].to) /\ ip' <= j
          /\ vars'[code[j + 1].sym] = vars[code[j + 1].sym]
      BY <1>1, <1>4, <2>1, <2>4, <3>1, <3>2, StillAwaited
    <3>4. ip' \in Receivers(active[k].to)'
      BY <1>3, <3>3 DEF Receivers, Body
    <3> QED
      BY <1>1, <1>3, <2>4, <3>3, <3>4 DEF Awaited
  <2> QED
    BY <2>2, <2>3, <2>4
<1> QED
  BY <1>5, <1>6

\* SAVE_LOCAL adds to what the innermost frame has saved: the value that was
\* awaited at its site, or one of another parameter.
LEMMA SavingParameters ==
  ASSUME TypeOK, ParametersInv, ParametersApart, RoomForParameter,
         Instruction, SaveLocal, active' = active
  PROVE  ParametersKept'
<1>1. Live /\ UNCHANGED program /\ Saving
  BY InstructionHost, SavingEffect
<1>2. ParametersKept /\ CallsInv /\ OneFrameEach
  BY <1>1 DEF ParametersInv, CallsInv, Live
<1>3. /\ code' = code /\ Depth' = Depth /\ Depth \in Nat
      /\ \A a : Receivers(a)' = Receivers(a) /\ SaveSites(a)' = SaveSites(a)
  BY <1>1, SameSites DEF Saving, Depth, TypeOK, FramesOK
<1>4. Fetch.op = "SAVE_LOCAL" /\ Fetch.sym \in Vars
  BY VarOfInstruction DEF SaveLocal, VarOps, At
<1> DEFINE S == [var : Vars, val : Int]
           e == [var |-> Fetch.sym, val |-> Read(Fetch.sym)]
           saved == call_stack[Depth].saved
<1>5. e \in S /\ e.var = Fetch.sym /\ e.val = Read(Fetch.sym)
  <2>1. 0 \in Int /\ Read(Fetch.sym) \in Int
    BY <1>4, AssignType
  <2> QED
    BY <1>4, <2>1
<1>6. call_stack # <<>> => saved \in Seq(S) /\ call_stack'[Depth].saved = Append(saved, e)
  <2> SUFFICES ASSUME call_stack # <<>>
               PROVE  saved \in Seq(S) /\ call_stack'[Depth].saved = Append(saved, e)
    OBVIOUS
  <2>1. saved \in Seq(S)
    BY FrameType1 DEF FrameType
  <2>2. call_stack'[Depth].saved = Append(saved, e)
    BY SavingEffect
  <2> QED
    BY <2>1, <2>2
<1> SUFFICES ASSUME NEW k \in (1 .. Depth)'
             PROVE  /\ Fitting(active[k].vars)'
                    /\ ~active'[k].handler =>
                         \A j \in SaveSites(active[k].to)' : Kept(k, j)' \/ Awaited(k, j)'
  BY DEF ParametersKept
<1>7. k \in 1 .. Depth /\ active[k].to \in Nat
  BY <1>2, <1>3, EntryOf
<1>8. Fitting(active[k].vars) /\ Fitting(active[k].vars)'
  BY <1>2, <1>7 DEF ParametersKept, Fitting
<1>9. ASSUME ~active'[k].handler, NEW j \in SaveSites(active[k].to)'
      PROVE  Kept(k, j)' \/ Awaited(k, j)'
  <2> DEFINE u == code[j + 1].sym
             x == active[k].vars[u]
  <2>1. j \in SaveSites(active[k].to)
    BY <1>3, <1>9 DEF SaveSites, Receivers, Body
  <2>2. Kept(k, j) \/ Awaited(k, j)
    BY <1>2, <1>7, <1>9, <2>1 DEF ParametersKept
  <2>3. u \in Vars
    BY <1>1, <1>7, <2>1, SiteVariable
  <2>4. CASE k # Depth
    <3>1. Kept(k, j) /\ k \in 1 .. Depth - 1
      BY <1>3, <1>7, <2>2, <2>4 DEF Awaited
    <3>2. call_stack'[k] = call_stack[k]
      BY <1>1, <3>1 DEF Saving
    <3> QED
      BY <1>1, <3>1, <3>2, SameEntryKept
  <2>5. CASE k = Depth
    <3>1. call_stack # <<>>
      BY <1>7, <2>5 DEF Depth
    <3>2. saved \in Seq(S) /\ call_stack'[k].saved = Append(saved, e)
      BY <1>6, <2>5, <3>1
    <3>3. FirstSaved(Append(saved, e), u, x) => Kept(k, j)'
      <4>1. u' = u /\ x' = x
        BY <1>3
      <4> HIDE DEF u, x, e, saved
      <4>2. ASSUME FirstSaved(call_stack'[k].saved, u', x') PROVE Kept(k, j)'
        BY <4>2 DEF Kept, FirstSaved, u, x
      <4> QED
        BY <3>2, <4>1, <4>2
    <3> HIDE DEF e, saved, S
    <3>4. CASE Kept(k, j)
      <4>1. FirstSaved(saved, u, x)
        BY <2>5, <3>4 DEF Kept, saved
      <4> QED
        BY <1>5, <3>2, <3>3, <4>1, FirstSavedAppend
    <3>5. CASE Awaited(k, j) /\ ip = j
      <4>1. Fetch.sym = u /\ vars[u] = x
        BY <3>5 DEF Awaited, Fetch
      <4>2. Read(u) = x
        BY <1>8, <2>3, <4>1 DEF Read, Fitting, Fits
      <4>3. e.var = u /\ e.val = x
        BY <1>5, <4>1, <4>2
      <4>4. \A m \in 1 .. Len(saved) : saved[m].var # e.var
        BY <2>5, <3>5, <4>3 DEF Awaited, saved
      <4>5. FirstSaved(Append(saved, e), e.var, e.val)
        BY <1>5, <3>2, <4>4, FirstSavedNow
      <4> QED
        BY <3>3, <4>3, <4>5
    <3>6. CASE Awaited(k, j) /\ ip # j
      <4>1. /\ ip' \in Receivers(active[k].to) /\ ip' <= j
            /\ vars'[u] = vars[u]
        BY <1>1, <1>7, <2>1, <3>6, StillAwaited
      <4>2. ip \in Receivers(active[k].to)
        BY <1>1, <1>4, <1>7, <2>1, <3>6, AwaitedOp
      <4>3. e.var # u
        BY <1>1, <1>5, <1>7, <2>1, <3>6, <4>2, OtherParameter
      <4>4. \A m \in 1 .. Len(saved) : saved[m].var # u
        BY <2>5, <3>6 DEF Awaited, saved
      <4>5. \A m \in 1 .. Len(Append(saved, e)) : Append(saved, e)[m].var # u
        BY <1>5, <3>2, <4>3, <4>4
      <4>6. \A m \in 1 .. Len(call_stack'[k].saved) : call_stack'[k].saved[m].var # u
        BY <3>2, <4>5
      <4>7. ip' \in Receivers(active[k].to)'
        BY <1>3, <4>1 DEF Receivers, Body
      <4> QED
        BY <1>3, <3>6, <4>1, <4>6, <4>7 DEF Awaited
    <3> QED
      BY <2>2, <3>4, <3>5, <3>6
  <2> QED
    BY <2>4, <2>5
<1> QED
  BY <1>8, <1>9

\* A subroutine that is entered awaits its parameters, a handler has none.
LEMMA PushingParameters ==
  ASSUME TypeOK, TypeOK', ParametersInv, Instruction, Pushing,
         active' = Append(active, Entry)
  PROVE  ParametersKept'
<1> DEFINE e == Entry
           n == Depth
<1>1. Live /\ UNCHANGED program
  BY InstructionHost
<1>2. ParametersKept /\ CallsInv /\ OneFrameEach
  BY <1>1 DEF ParametersInv, CallsInv, Live
<1>3. /\ code' = code
      /\ \A a : Receivers(a)' = Receivers(a) /\ SaveSites(a)' = SaveSites(a)
  BY <1>1, SameSites
<1>4. /\ e \in EntryType /\ e.to = ip' /\ e.vars = vars /\ active' = Append(active, e)
      /\ e.handler <=> ~Called
  BY <1>1, EntryTyped
<1>5. PICK s \in Stacks : call_stack' = Append(call_stack, Frame(ip + 1, s))
  BY DEF Pushing
<1> DEFINE f == Frame(ip + 1, s)
<1>6. f.saved = <<>> /\ call_stack' = Append(call_stack, f)
  BY <1>5 DEF Frame
<1>7. /\ active \in Seq(EntryType) /\ Len(active) = n /\ n \in Nat
      /\ call_stack \in Seq(FrameType) /\ Len(call_stack) = n
  BY <1>2 DEF CallsInv, OneFrameEach, Depth, TypeOK, FramesOK
<1>8. Fetch.op \notin {"LABEL", "SAVE_LOCAL", "BIND_REF"}
  BY DEF Pushing, Called, At, FaultOps
<1> HIDE DEF e, f, EntryType, FrameType
<1>9. /\ \A k \in 1 .. n : active'[k] = active[k]
      /\ active'[n + 1] = e
  BY <1>4, <1>7
<1>10. /\ Len(call_stack') = n + 1
       /\ \A k \in 1 .. n : call_stack'[k] = call_stack[k]
       /\ call_stack'[n + 1] = f
  BY <1>6, <1>7
<1> HIDE DEF n
<1> SUFFICES ASSUME NEW k \in (1 .. Depth)'
             PROVE  /\ Fitting(active[k].vars)'
                    /\ ~active'[k].handler =>
                         \A j \in SaveSites(active[k].to)' : Kept(k, j)' \/ Awaited(k, j)'
  BY DEF ParametersKept
<1>11. k \in 1 .. n \/ k = n + 1
  BY <1>7, <1>10 DEF Depth
<1>12. CASE k \in 1 .. n
  <2>1. k \in 1 .. Depth /\ active[k].to \in Nat /\ active'[k] = active[k]
        /\ call_stack'[k] = call_stack[k]
    BY <1>2, <1>9, <1>10, <1>12, EntryOf DEF n
  <2>2. Fitting(active[k].vars)'
    BY <1>2, <2>1 DEF ParametersKept, Fitting
  <2>3. ASSUME ~active'[k].handler, NEW j \in SaveSites(active[k].to)'
        PROVE  Kept(k, j)'
    <3>1. j \in SaveSites(active[k].to)
      BY <1>3, <2>1, <2>3 DEF SaveSites, Receivers, Body
    <3>2. Kept(k, j) \/ Awaited(k, j)
      BY <1>2, <2>1, <2>3, <3>1 DEF ParametersKept
    <3>3. Kept(k, j)
      BY <1>1, <1>8, <2>1, <3>1, <3>2, AwaitedOp
    <3> QED
      BY <1>1, <2>1, <3>3, SameEntryKept
  <2> QED
    BY <2>2, <2>3
<1>13. CASE k = n + 1
  <2>1. active'[k] = e /\ call_stack'[k] = f /\ k = Depth'
    BY <1>9, <1>10, <1>13 DEF Depth
  <2>2. Fitting(active[k].vars)'
    BY <1>2, <1>4, <2>1 DEF ParametersInv, VariablesFit, Fitting
  <2>3. ASSUME ~active'[k].handler, NEW j \in SaveSites(active[k].to)'
        PROVE  Awaited(k, j)'
    <3>1. Called
      BY <1>4, <2>1, <2>3
    <3>2. vars' = vars
      BY <3>1 DEF Pushing
    <3>3. ip' \in Nat /\ j \in SaveSites(ip')
      BY <1>3, <1>4, <2>1, <2>3 DEF SaveSites, Receivers, Body, TypeOK
    <3>4. j \in Receivers(ip') /\ j \in Body(ip') .. Len(code) - 1 /\ Body(ip') \in {ip', ip' + 1}
      BY <3>3, ReceiversType DEF SaveSites
    <3>5. ip' <= j
      BY <3>3, <3>4, FetchType, <1>1
    <3>6. /\ ip' = active'[k].to /\ vars' = active'[k].vars
          /\ call_stack'[k].saved = <<>>
      BY <1>4, <1>6, <2>1, <3>2
    <3>7. \A m \in 1 .. Len(call_stack'[k].saved) : FALSE
      BY <3>6, EmptySeq
    <3>8. vars'[code'[j + 1].sym] = active'[k].vars[code'[j + 1].sym]
      BY <3>6
    <3> QED
      BY <2>1, <3>5, <3>6, <3>7, <3>8 DEF Awaited
  <2> QED
    BY <2>2, <2>3
<1> QED
  BY <1>11, <1>12, <1>13

\* RETURN keeps what the other frames have saved.
LEMMA ReturnParameters ==
  ASSUME TypeOK, ParametersInv, Instruction, Return,
         active' = IF active # <<>> THEN SubSeq(active, 1, Len(active) - 1) ELSE active
  PROVE  ParametersKept'
<1>1. Live /\ UNCHANGED program
  BY InstructionHost
<1>2. ParametersKept /\ CallsInv /\ OneFrameEach
  BY <1>1 DEF ParametersInv, CallsInv, Live
<1>3. /\ code' = code
      /\ \A a : Receivers(a)' = Receivers(a) /\ SaveSites(a)' = SaveSites(a)
  BY <1>1, SameSites
<1>4. /\ active \in Seq(EntryType) /\ Len(active) = Depth /\ Depth \in Nat
      /\ call_stack \in Seq(FrameType) /\ Len(call_stack) = Depth
  BY <1>2 DEF CallsInv, OneFrameEach, Depth, TypeOK, FramesOK
<1>5. Fetch.op = "RET"
  BY DEF Return, At
<1>6. Depth' <= Depth /\ Depth' \in Nat
      /\ \A k \in 1 .. Depth' : call_stack'[k] = call_stack[k] /\ active'[k] = active[k]
  <2>1. CASE call_stack = <<>>
    <3>1. active = <<>>
      BY <1>4, <2>1, EmptySeq DEF Depth
    <3> QED
      BY <1>4, <2>1, <3>1 DEF Return, Depth
  <2>2. CASE call_stack # <<>>
    <3> DEFINE n == Depth - 1
    <3>1. n \in Nat /\ n <= Depth /\ active # <<>>
      BY <1>4, <2>2, EmptySeq DEF Depth
    <3>2. call_stack' = SubSeq(call_stack, 1, n) /\ active' = SubSeq(active, 1, n)
      BY <1>4, <2>2, <3>1 DEF Return
    <3> HIDE DEF n, EntryType, FrameType
    <3>3. \A k \in 1 .. n : active'[k] = active[k]
      BY <1>4, <3>1, <3>2
    <3>4. Len(call_stack') = n /\ \A k \in 1 .. n : call_stack'[k] = call_stack[k]
      BY <1>4, <3>1, <3>2
    <3> QED
      BY <3>1, <3>3, <3>4 DEF Depth
  <2> QED
    BY <2>1, <2>2
<1> SUFFICES ASSUME NEW k \in (1 .. Depth)'
             PROVE  /\ Fitting(active[k].vars)'
                    /\ ~active'[k].handler =>
                         \A j \in SaveSites(active[k].to)' : Kept(k, j)' \/ Awaited(k, j)'
  BY DEF ParametersKept
<1>7. /\ k \in 1 .. Depth /\ active[k].to \in Nat /\ active'[k] = active[k]
      /\ call_stack'[k] = call_stack[k]
  <2>1. active'[k] = active[k] /\ call_stack'[k] = call_stack[k]
    BY <1>6
  <2>2. k \in 1 .. Depth
    BY <1>4, <1>6
  <2> QED
    BY <1>2, <2>1, <2>2, EntryOf
<1>8. Fitting(active[k].vars)'
  BY <1>2, <1>7 DEF ParametersKept, Fitting
<1>9. ASSUME ~active'[k].handler, NEW j \in SaveSites(active[k].to)'
      PROVE  Kept(k, j)'
  <2>1. j \in SaveSites(active[k].to)
    BY <1>3, <1>7, <1>9 DEF SaveSites, Receivers, Body
  <2>2. Kept(k, j) \/ Awaited(k, j)
    BY <1>2, <1>7, <1>9, <2>1 DEF ParametersKept
  <2>3. Kept(k, j)
    BY <1>1, <1>5, <1>7, <2>1, <2>2, AwaitedOp
  <2> QED
    BY <1>1, <1>7, <2>3, SameEntryKept
<1> QED
  BY <1>8, <1>9

\* So every instruction keeps what the frames are to give back.
LEMMA InstructionParameters ==
  ASSUME TypeOK, TypeOK', ParametersInv, Instruction, Remember,
         RoomForFrame, RoomForParameter, NoResume, ParametersApart
  PROVE  ParametersKept'
<1>1. Live
  BY InstructionHost
<1>2. Pushing \/ Overflowing \/ Keeping \/ Return \/ SaveLocal
  BY FrameEffect
<1>3. CASE Pushing
  BY <1>1, <1>3, EffectOnHistory, PushingParameters
<1>4. CASE Overflowing
  BY <1>1, <1>4, EffectOnHistory
<1>5. CASE Keeping \/ Saving
  <2>1. active' = active
    BY <1>1, <1>5, EffectOnHistory DEF NoResume
  <2>2. CASE SaveLocal
    BY <2>1, <2>2, SavingParameters
  <2>3. CASE ~SaveLocal /\ Keeping
    BY <2>1, <2>3, KeepingParameters
  <2>4. CASE ~SaveLocal /\ Saving
    <3>1. Fetch.op = "SAVE_LOCAL"
      BY <2>4 DEF Saving
    <3>2. SaveLocal
      BY <2>4, <3>1, OnlyReceiving DEF Marker, At
    <3> QED
      BY <2>4, <3>2
  <2> QED
    BY <1>5, <2>2, <2>3, <2>4
<1>6. CASE SaveLocal
  BY <1>5, <1>6, SavingEffect
<1>7. CASE Return
  BY <1>1, <1>7, EffectOnHistory, ReturnParameters
<1> QED
  BY <1>2, <1>3, <1>4, <1>5, <1>6, <1>7

LEMMA ParametersStep ==
  ASSUME ~HostContinues, TypeOK, TypeOK', ParametersInv, RoomForFrame, RoomForParameter,
         NoResume, ParametersApart, [HNext]_hvars
  PROVE  ParametersInv'
<1>1. CallsInv' /\ VariablesFit'
  BY CallsStep, VariablesStep, HistoryStep DEF ParametersInv
<1>2. ASSUME host' = "executing" PROVE ParametersKept'
  <2>1. CASE UNCHANGED hvars
    <3>1. /\ host' = host /\ call_stack' = call_stack /\ active' = active
          /\ vars' = vars /\ ip' = ip /\ code' = code
      BY <2>1 DEF hvars, vmvars, caller, memory, code
    <3>2. ParametersKept
      BY <1>2, <3>1 DEF ParametersInv
    <3>3. Depth' = Depth
      BY <3>1 DEF Depth
    <3>4. ASSUME NEW k \in 1 .. Depth
          PROVE  /\ Fitting(active[k].vars)' = Fitting(active[k].vars)
                 /\ Receivers(active[k].to)' = Receivers(active[k].to)
                 /\ SaveSites(active[k].to)' = SaveSites(active[k].to)
      BY <3>1, Zenon DEF Fitting, SaveSites, Receivers, Body
    <3>5. ASSUME NEW k \in 1 .. Depth, NEW j
          PROVE  Kept(k, j)' = Kept(k, j) /\ Awaited(k, j)' = Awaited(k, j)
      <4>1. Receivers(active[k].to)' = Receivers(active[k].to)
        BY <3>4
      <4> QED
        BY <3>1, <3>3, <4>1, Zenon DEF Kept, FirstSaved, Awaited
    <3> QED
      BY <3>1, <3>2, <3>3, <3>4, <3>5, Zenon DEF ParametersKept
  <2>2. CASE Remember /\ Instruction
    BY <2>2, InstructionParameters
  <2>3. CASE Execute
    <3>1. call_stack' = <<>>
      BY <2>3 DEF Execute, Begin, ParametersInv, CallsInv
    <3> QED
      BY <3>1, EmptySeq DEF ParametersKept, Depth
  <2>4. ~(Load \/ Finish \/ ContinueStopped \/ ContinueResume) /\ (Terminated => UNCHANGED vmvars)
    BY <1>2 DEF Load, Finish, ContinueStopped, ContinueResume, Terminated
  <2>5. ~Terminated
    BY <1>2 DEF Terminated, vmvars, caller
  <2> QED
    BY <2>1, <2>2, <2>3, <2>4, <2>5 DEF HNext, Next
<1> QED
  BY <1>1, <1>2 DEF ParametersInv

\* RETURN gives each parameter what it had at the call.
LEMMA ReturningParameters ==
  ASSUME TypeOK, ParametersInv, HNext, Returning, ~Innermost.handler,
         NEW v \in Parameters(Innermost.to)
  PROVE  vars'[v] = Innermost.vars[v]
<1>1. Return /\ Live /\ Fetch.op = "RET" /\ active # <<>> /\ call_stack # <<>>
  BY OnlyReturn DEF HNext, Returning, At
<1>2. ParametersKept /\ CallsInv /\ OneFrameEach
  BY <1>1 DEF ParametersInv, CallsInv, Live
<1>3. Depth \in 1 .. Depth /\ Innermost = active[Depth]
  BY <1>1, <1>2, InnermostFrame DEF Innermost
<1>4. Innermost.to \in Nat
  BY <1>2, <1>3, EntryOf
<1>5. PICK j \in SaveSites(Innermost.to) : v = code[j + 1].sym
  BY DEF Parameters, SaveSites
<1>6. v \in Vars
  BY <1>1, <1>4, <1>5, SiteVariable
<1>7. Kept(Depth, j)
  <2>1. Kept(Depth, j) \/ Awaited(Depth, j)
    BY <1>2, <1>3, <1>5 DEF ParametersKept
  <2> QED
    BY <1>1, <1>3, <1>4, <1>5, <2>1, AwaitedOp
<1> DEFINE saved == call_stack[Depth].saved
           x     == Innermost.vars[v]
<1>8. FirstSaved(saved, v, x) /\ saved \in Seq([var : Vars, val : Int])
  BY <1>1, <1>3, <1>5, <1>7, FrameType1 DEF Kept, FrameType
<1>9. Fits(TypeOf[v], x) /\ Fits(TypeOf[v], vars[v])
  BY <1>2, <1>3, <1>6 DEF ParametersKept, ParametersInv, VariablesFit, Fitting
<1>10. vars' = Restored(saved)
  BY <1>1 DEF Return
<1> HIDE DEF saved, x
<1>11. vars'[v] = IF TypeOf[v] = "array" THEN vars[v] ELSE Coerce(TypeOf[v], x)
  BY <1>6, <1>8, <1>10, RestoredFirst
<1>12. vars'[v] = x
  BY <1>9, <1>11 DEF Fits
<1> QED
  BY <1>12 DEF x

\* If besides every parameter finds a slot and no two of a subroutine have the
\* same name, RETURN gives every parameter the value its variable had at the
\* call, however the calls are nested and whatever the subroutine assigned.
THEOREM ParametersSafe ==
  ~HostContinues =>
    (/\ HSpec
     /\ []RoomForFrame /\ []RoomForParameter /\ []NoResume /\ []ParametersApart
     => ParametersRestored)
<1> SUFFICES ASSUME ~HostContinues
             PROVE  /\ HSpec
                    /\ []RoomForFrame /\ []RoomForParameter /\ []NoResume
                    /\ []ParametersApart
                    => ParametersRestored
  OBVIOUS
<1> DEFINE Leaving   == Returning /\ ~Innermost.handler
           GivesBack == \A v \in Parameters(Innermost.to) : vars'[v] = Innermost.vars[v]
<1>1. HInit => TypeOK /\ ParametersInv
  BY TypeInit, CallsInit, CoerceZero
     DEF HInit, Init, ParametersInv, VariablesFit, Fitting, Fits
<1>2. TypeOK /\ [HNext]_hvars => TypeOK'
  BY HistoryStep, TypeStep
<1>3. /\ TypeOK /\ TypeOK' /\ ParametersInv /\ [HNext]_hvars
      /\ RoomForFrame /\ RoomForParameter /\ NoResume /\ ParametersApart
      => ParametersInv'
  BY ParametersStep
<1>4. TypeOK /\ ParametersInv /\ [HNext]_hvars => [Leaving => GivesBack]_hvars
  BY ReturningParameters
<1> QED
  BY <1>1, <1>2, <1>3, <1>4, PTL DEF HSpec, ParametersRestored

-----------------------------------------------------------------------------
(***************************************************************************)
(* What an instruction does to the stack: it pops at most the first number *)
(* of values and pushes the second one.                                    *)
(***************************************************************************)
Consuming(pops, leaves) ==
  /\ pops <= Len(stack)
  /\ Len(stack') = Len(stack) - pops + leaves
  /\ \A j \in 1 .. Len(stack) - pops : stack'[j] = stack[j]

\* A pop leaves what is below.
LEMMA DropConsumes ==
  ASSUME NEW s \in Stacks, NEW n \in Nat, n <= Len(s)
  PROVE  /\ Drop(s, n) \in Stacks
         /\ Len(Drop(s, n)) = Len(s) - n
         /\ \A j \in 1 .. Len(s) - n : Drop(s, n)[j] = s[j]
<1>1. Len(s) \in Nat
  BY StackIsSeq
<1> QED
  BY <1>1, DropStacks

\* A pop and a push, when there is room.
LEMMA PushDropConsumes ==
  ASSUME NEW s \in Stacks, NEW n \in Nat, n <= Len(s), Len(s) < StackSize, NEW x \in Int
  PROVE  LET t == Push(Drop(s, n), x)
         IN  /\ t \in Stacks
             /\ Len(t) = Len(s) - n + 1
             /\ \A j \in 1 .. Len(s) - n : t[j] = s[j]
             /\ t[Len(t)] = x
<1> DEFINE d == Drop(s, n)
<1>1. /\ d \in Stacks /\ Len(d) = Len(s) - n
      /\ \A j \in 1 .. Len(s) - n : d[j] = s[j]
  BY DropConsumes
<1>2. Len(s) \in Nat /\ StackSize \in Nat /\ Len(s) <= StackSize
  BY StackIsSeq
<1>3. Len(d) < StackSize /\ d \in Seq(Int)
  BY <1>1, <1>2 DEF Stacks
<1> HIDE DEF d
<1>4. Push(d, x) = Append(d, x)
  BY <1>3 DEF Push
<1>5. /\ Len(Append(d, x)) = Len(d) + 1
      /\ \A j \in 1 .. Len(d) : Append(d, x)[j] = d[j]
      /\ Append(d, x)[Len(d) + 1] = x
  BY <1>3
<1>6. Push(d, x) \in Stacks
  BY <1>1, PushStacks
<1> QED
  BY <1>1, <1>4, <1>5, <1>6 DEF d

\* A push, when there is room.
LEMMA PushConsumes ==
  ASSUME NEW s \in Stacks, Len(s) < StackSize, NEW x \in Int
  PROVE  /\ Push(s, x) \in Stacks
         /\ Len(Push(s, x)) = Len(s) + 1
         /\ \A j \in 1 .. Len(s) : Push(s, x)[j] = s[j]
         /\ Push(s, x)[Len(s) + 1] = x
<1>1. s \in Seq(Int) /\ Push(s, x) = Append(s, x)
  BY DEF Push, Stacks
<1>2. Push(s, x) \in Stacks
  BY PushStacks
<1> QED
  BY <1>1, <1>2

-----------------------------------------------------------------------------
(***************************************************************************)
(* The table of GfaBalance, read by groups of instructions.                *)
(***************************************************************************)
OddOps == {"DUP", "SWAP", "ARRAY_LOAD", "ARRAY_STORE", "DIM", "MAT", "CALL_BUILTIN",
           "NEG", "NOT"}

\* No instruction is in two groups.
LEMMA GroupsApart ==
  ASSUME NEW op
  PROVE  /\ op \in PushOps => op \notin PopOps \cup InertOps \cup BinaryOps \cup OddOps \cup RowOps
         /\ op \in PopOps => op \notin InertOps \cup BinaryOps \cup OddOps \cup RowOps
         /\ op \in InertOps => op \notin BinaryOps \cup OddOps \cup RowOps
         /\ op \in BinaryOps => op \notin OddOps \cup RowOps
         /\ op \in OddOps => op \notin RowOps
<1>1. (PushOps \cup PopOps \cup InertOps \cup OddOps) \cap RowOps = {}
  BY DEF PushOps, PopOps, InertOps, OddOps, RowOps, PrintOps, TransferOps, ScreenOps,
         ChannelOps, MemoryOps, SystemOps, ArrayOps, GfxOps, WindowOps
<1>2. BinaryOps \cap RowOps = {}
  BY DEF BinaryOps, Arithmetic, Comparisons, Logic, Divisions, RowOps, PrintOps, TransferOps,
         ScreenOps, ChannelOps, MemoryOps, SystemOps, ArrayOps, GfxOps, WindowOps
<1>3. BinaryOps \cap (PushOps \cup PopOps \cup InertOps \cup OddOps) = {}
  BY DEF BinaryOps, Arithmetic, Comparisons, Logic, Divisions, PushOps, PopOps, InertOps, OddOps
<1>4. /\ PushOps \cap (PopOps \cup InertOps \cup OddOps) = {}
      /\ PopOps \cap (InertOps \cup OddOps) = {}
      /\ InertOps \cap OddOps = {}
  BY DEF PushOps, PopOps, InertOps, OddOps
<1> QED
  BY <1>1, <1>2, <1>3, <1>4

\* So each group has its use.
LEMMA UsesOfGroups ==
  ASSUME NEW i, NEW h, NEW pops, NEW leaves, Uses(i, h, pops, leaves)
  PROVE  /\ i.op \in PushOps \cup PopOps \cup InertOps \cup BinaryOps \cup OddOps \cup RowOps
         /\ i.op \in PushOps => pops = 0 /\ leaves = 1
         /\ i.op \in PopOps => pops = 1 /\ leaves = 0
         /\ i.op \in InertOps => pops = 0 /\ leaves = 0
         /\ i.op \in BinaryOps => pops = 2 /\ leaves = 1
<1> DEFINE op == i.op
<1>1. \/ op \in PushOps /\ pops = 0 /\ leaves = 1
      \/ op \in PopOps /\ pops = 1 /\ leaves = 0
      \/ op \in InertOps /\ pops = 0 /\ leaves = 0
      \/ op \in BinaryOps /\ pops = 2 /\ leaves = 1
      \/ op \in OddOps
      \/ op \in RowOps
  BY DEF Uses, OddOps
<1> HIDE DEF op
<1>2. /\ op \in PushOps \cup PopOps \cup InertOps \cup BinaryOps \cup OddOps \cup RowOps
      /\ op \in PushOps => pops = 0 /\ leaves = 1
      /\ op \in PopOps => pops = 1 /\ leaves = 0
      /\ op \in InertOps => pops = 0 /\ leaves = 0
      /\ op \in BinaryOps => pops = 2 /\ leaves = 1
  BY <1>1, GroupsApart
<1> QED
  BY <1>2 DEF op

\* And those that are on their own.
LEMMA UsesOfOthers ==
  ASSUME NEW i, NEW h, NEW pops, NEW leaves, Uses(i, h, pops, leaves)
  PROVE  /\ i.op \in {"NEG", "NOT"} => pops = 1 /\ leaves = 1
         /\ i.op = "DUP" => h > 0 /\ pops = 0 /\ leaves = 1
         /\ i.op = "SWAP" => pops = 2 /\ leaves = 2
         /\ i.op = "ARRAY_LOAD" => i.n > 0 /\ pops = AtMost(i.n, MaxDims) /\ leaves = 1
         /\ i.op = "ARRAY_STORE" => i.n > 0 /\ pops = AtMost(i.n, MaxDims) + 1 /\ leaves = 0
         /\ i.op = "DIM" => i.n > 0 /\ pops = AtMost(i.n, MaxDims) /\ leaves = 0
         /\ i.op = "MAT" => pops = i.arg /\ leaves = 0
         /\ i.op = "CALL_BUILTIN" =>
              /\ i.sym # "CHAIN" /\ i.n >= 0
              /\ \A r \in BuiltinRows(i.sym, i.n) : r.pops <= i.n
              /\ pops = i.n /\ leaves = 1
         /\ i.op \in RowOps =>
              \A allocated \in BOOLEAN : \E r \in StatementRows(i, allocated) :
                /\ Fixed(StatementRows(i, allocated), h, r)
                /\ pops = r.pops /\ leaves = Leaves(r.out)
<1>1. i.op \in OddOps \cup RowOps => i.op \notin PushOps \cup PopOps \cup InertOps \cup BinaryOps
  BY GroupsApart
<1>2. i.op \in OddOps => i.op \notin RowOps
  BY GroupsApart
<1> QED
  BY <1>1, <1>2 DEF Uses, OddOps

-----------------------------------------------------------------------------
(***************************************************************************)
(* An instruction that goes on to the next one does what the table says,   *)
(* if its subroutine has the values it pops.                               *)
(***************************************************************************)
Ready(h, pops, leaves) ==
  /\ TypeOK /\ Live /\ RoomForOperands
  /\ h \in Nat /\ h <= Len(stack)
  /\ pops \in 0 .. h /\ leaves \in 0 .. 4
  /\ Uses(Fetch, h, pops, leaves)

LEMMA ReadyFacts ==
  ASSUME NEW h, NEW pops, NEW leaves, Ready(h, pops, leaves)
  PROVE  /\ stack \in Stacks /\ stack \in Seq(Int) /\ Len(stack) \in Nat
         /\ Len(stack) + 4 <= StackSize /\ StackSize \in Nat
         /\ pops \in Nat /\ leaves \in Nat /\ pops <= Len(stack)
         /\ stack = <<>> => Len(stack) = 0
         /\ TypeOK /\ Live /\ h \in Nat /\ h <= Len(stack)
BY StackIsSeq DEF Ready, RoomForOperands, TypeOK

\* Pops alone, and pops with a push.
LEMMA Dropping ==
  ASSUME stack \in Stacks, NEW n \in Nat, n <= Len(stack), stack' = Drop(stack, n)
  PROVE  Consuming(n, 0)
<1>1. Len(stack) \in Nat
  BY StackIsSeq
<1>2. /\ Len(stack') = Len(stack) - n
      /\ \A j \in 1 .. Len(stack) - n : stack'[j] = stack[j]
  BY DropConsumes
<1> QED
  BY <1>1, <1>2 DEF Consuming

LEMMA Replacing ==
  ASSUME stack \in Stacks, NEW n \in Nat, n <= Len(stack), Len(stack) < StackSize,
         NEW x \in Int, stack' = Push(Drop(stack, n), x)
  PROVE  Consuming(n, 1)
<1>1. Len(stack) \in Nat
  BY StackIsSeq
<1>2. /\ Len(stack') = Len(stack) - n + 1
      /\ \A j \in 1 .. Len(stack) - n : stack'[j] = stack[j]
  BY PushDropConsumes
<1> QED
  BY <1>1, <1>2 DEF Consuming

LEMMA PushersConsume ==
  ASSUME NEW h, NEW pops, NEW leaves, Ready(h, pops, leaves),
         PushConst \/ PushString \/ PushVar \/ ReadData
  PROVE  Consuming(pops, leaves)
<1>0. /\ stack \in Stacks /\ Len(stack) \in Nat /\ Len(stack) < StackSize
  BY ReadyFacts
<1>1. pops = 0 /\ leaves = 1
  <2>1. Fetch.op \in PushOps
    BY DEF PushConst, PushString, PushVar, ReadData, At, PushOps
  <2> QED
    BY <2>1, UsesOfGroups DEF Ready
<1>2. \E x \in Int : stack' = Push(stack, x)
  <2>0. TypeOK /\ Live /\ Fetch.arg \in Int
    BY FetchType DEF Ready
  <2>1. CASE PushConst \/ PushString
    BY <2>0, <2>1 DEF PushConst, PushString
  <2>2. CASE PushVar
    <3>1. Fetch.sym \in Vars
      BY <2>0, <2>2, VarOfInstruction DEF PushVar, VarOps
    <3>2. Read(Fetch.sym) \in Int
      BY <2>0, <3>1 DEF Read, TypeOK, MemoryOK
    <3> QED
      BY <2>2, <3>2 DEF PushVar
  <2>3. CASE ReadData
    <3>1. program.data \in Seq(Int) /\ data_ptr \in Nat
      BY <2>0, FetchType DEF WellFormed, TypeOK, MemoryOK
    <3>2. data_ptr < Len(program.data) => program.data[data_ptr + 1] \in Int
      BY <3>1
    <3> QED
      BY <2>3, <3>2 DEF ReadData
  <2> QED
    BY <2>1, <2>2, <2>3
<1> QED
  BY <1>0, <1>1, <1>2, PushConsumes DEF Consuming

LEMMA PoppersConsume ==
  ASSUME NEW h, NEW pops, NEW leaves, Ready(h, pops, leaves),
         Pop \/ PopStore \/ BindRef \/ (Raise /\ Fetch.op = "ERROR") \/ SaveLocal
  PROVE  Consuming(pops, leaves)
<1>0. /\ stack \in Stacks /\ Len(stack) \in Nat /\ Len(stack) < StackSize /\ pops <= Len(stack)
  BY ReadyFacts
<1>1. pops = 1 /\ leaves = 0
  <2>1. Fetch.op \in PopOps
    BY DEF Pop, PopStore, BindRef, SaveLocal, Raise, At, PopOps
  <2> QED
    BY <2>1, UsesOfGroups DEF Ready
<1>2. stack' = Drop(stack, 1)
  BY <1>0 DEF Pop, PopStore, BindRef, Raise, SaveLocal
<1> QED
  BY <1>0, <1>1, <1>2, Dropping

\* INPUT and LINE INPUT take the channel if they read from one.
LEMMA InputConsumes ==
  ASSUME NEW h, NEW pops, NEW leaves, Ready(h, pops, leaves), InputVar
  PROVE  Consuming(pops, leaves)
<1>0. /\ stack \in Stacks /\ Len(stack) \in Nat /\ pops <= Len(stack)
  BY ReadyFacts
<1>1. CASE Fetch.op \in {"INPUT_FILE", "LINE_INPUT_FILE"}
  <2>1. pops = 1 /\ leaves = 0
    BY <1>1, UsesOfGroups DEF PopOps, Ready
  <2>2. stack' = Drop(stack, 1)
    BY <1>1 DEF InputVar
  <2> QED
    BY <1>0, <2>1, <2>2, Dropping
<1>2. CASE Fetch.op \in {"INPUT", "LINE_INPUT"}
  <2>1. pops = 0 /\ leaves = 0
    BY <1>2, UsesOfGroups DEF InertOps, Ready
  <2>2. stack' = stack
    BY <1>2 DEF InputVar
  <2> QED
    BY <1>0, <2>1, <2>2 DEF Consuming
<1> QED
  BY <1>1, <1>2 DEF InputVar, At

LEMMA InertConsume ==
  ASSUME NEW h, NEW pops, NEW leaves, Ready(h, pops, leaves),
         Marker \/ OnError \/ EraseVar \/ ClearAll \/ Restore
  PROVE  Consuming(pops, leaves)
<1>0. Len(stack) \in Nat
  BY ReadyFacts
<1>1. pops = 0 /\ leaves = 0
  <2>1. Fetch.op \in InertOps
    BY DEF Marker, OnError, EraseVar, ClearAll, Restore, At, InertOps
  <2> QED
    BY <2>1, UsesOfGroups DEF Ready
<1>2. stack' = stack
  BY DEF Marker, OnError, EraseVar, ClearAll, Restore
<1> QED
  BY <1>0, <1>1, <1>2 DEF Consuming

\* An operator, when it does not fail.
LEMMA OperatorsConsume ==
  ASSUME NEW h, NEW pops, NEW leaves, Ready(h, pops, leaves),
         BinaryOp \/ (Divide /\ (Len(stack) < 2 \/ ~ZeroDivisor))
  PROVE  Consuming(pops, leaves)
<1>0. /\ stack \in Stacks /\ Len(stack) \in Nat /\ Len(stack) < StackSize
      /\ pops \in Nat /\ pops <= Len(stack) /\ TypeOK
  BY ReadyFacts DEF Ready
<1>1. pops = 2 /\ leaves = 1
  <2>1. Fetch.op \in BinaryOps
    BY DEF BinaryOp, Divide, At, BinaryOps
  <2> QED
    BY <2>1, UsesOfGroups DEF Ready
<1> DEFINE a == stack[Len(stack) - 1]
           b == Top(stack)
<1>2. a \in Int /\ b \in Int /\ Len(stack) >= 2
  BY <1>0, <1>1, OperandsInt
<1>3. \E x \in Int : stack' = Push(Drop(stack, 2), x)
  <2>1. CASE BinaryOp
    <3>1. Fetch.op \in Arithmetic \cup Comparisons \cup Logic
      BY <2>1 DEF BinaryOp, At
    <3>2. Results(Fetch.op, a, b) \subseteq Int
      BY <1>2, <3>1, ResultsInt DEF Arithmetic, Comparisons, Logic
    <3> QED
      BY <1>2, <2>1, <3>2 DEF BinaryOp
  <2>2. CASE Divide /\ ~ZeroDivisor
    <3>1. Fetch.op \in Divisions
      BY <2>2 DEF Divide, At
    <3>2. Results(Fetch.op, a, b) \subseteq Int
      BY <1>2, <2>2, <3>1, ResultsInt DEF ZeroDivisor, Divisions
    <3> QED
      BY <1>2, <2>2, <3>2 DEF Divide
  <2> QED
    BY <1>2, <2>1, <2>2
<1> QED
  BY <1>0, <1>1, <1>3, Replacing

LEMMA NegateConsumes ==
  ASSUME NEW h, NEW pops, NEW leaves, Ready(h, pops, leaves), Negate
  PROVE  Consuming(pops, leaves)
<1>0. /\ stack \in Stacks /\ Len(stack) \in Nat /\ Len(stack) < StackSize
      /\ pops \in Nat /\ pops <= Len(stack)
  BY ReadyFacts
<1>1. pops = 1 /\ leaves = 1
  BY UsesOfOthers DEF Ready, Negate, At
<1>2. stack # <<>> /\ Top(stack) \in Int
  <2>1. stack # <<>>
    BY <1>0, <1>1, ReadyFacts
  <2> QED
    BY <1>0, <2>1, TopInt
<1>3. \E x \in Int : stack' = Push(Drop(stack, 1), x)
  <2>1. -Top(stack) \in Int /\ Not(ToLong(Top(stack))) \in Int
    BY <1>2, ToLongInt DEF Not
  <2> QED
    BY <1>2, <2>1 DEF Negate
<1> QED
  BY <1>0, <1>1, <1>3, Replacing

LEMMA DupConsumes ==
  ASSUME NEW h, NEW pops, NEW leaves, Ready(h, pops, leaves), Dup
  PROVE  Consuming(pops, leaves)
<1>0. /\ stack \in Stacks /\ Len(stack) \in Nat /\ Len(stack) < StackSize
  BY ReadyFacts
<1>1. h > 0 /\ pops = 0 /\ leaves = 1
  BY UsesOfOthers DEF Ready, Dup, At
<1>2. stack # <<>>
  BY <1>0, <1>1, ReadyFacts
<1>3. Top(stack) \in Int /\ stack' = Push(stack, Top(stack))
  BY <1>0, <1>2, TopInt DEF Dup
<1> QED
  BY <1>0, <1>1, <1>3, PushConsumes DEF Consuming

LEMMA SwapConsumes ==
  ASSUME NEW h, NEW pops, NEW leaves, Ready(h, pops, leaves), Swap
  PROVE  Consuming(pops, leaves)
<1>0. /\ stack \in Stacks /\ Len(stack) \in Nat /\ pops \in Nat /\ pops <= Len(stack) /\ TypeOK
  BY ReadyFacts DEF Ready
<1>1. pops = 2 /\ leaves = 2
  BY UsesOfOthers DEF Ready, Swap, At
<1> DEFINE d == Drop(stack, 2)
           v == Top(stack)
           w == stack[Len(stack) - 1]
           t == d \o <<v, w>>
<1>2. stack' = t
  BY <1>0, <1>1 DEF Swap
<1>3. d \in Seq(Int) /\ Len(d) = Len(stack) - 2 /\ \A j \in 1 .. Len(stack) - 2 : d[j] = stack[j]
  BY <1>0, <1>1, DropConsumes DEF Stacks
<1>4. v \in Int /\ w \in Int
  BY <1>0, <1>1, OperandsInt
<1> HIDE DEF d, v, w
<1>5. Len(t) = Len(d) + 2 /\ \A j \in 1 .. Len(d) : t[j] = d[j]
  BY <1>3, <1>4
<1> HIDE DEF t
<1>6. Len(stack') = Len(stack) /\ \A j \in 1 .. Len(stack) - 2 : stack'[j] = stack[j]
  BY <1>0, <1>1, <1>2, <1>3, <1>5
<1> QED
  BY <1>0, <1>1, <1>6 DEF Consuming

LEMMA IndexedConsume ==
  ASSUME NEW h, NEW pops, NEW leaves, Ready(h, pops, leaves),
         ArrayLoad \/ ArrayStore \/ Dim
  PROVE  Consuming(pops, leaves)
<1>0. /\ stack \in Stacks /\ Len(stack) \in Nat /\ Len(stack) < StackSize
      /\ pops \in Nat /\ pops <= Len(stack) /\ TypeOK /\ Live /\ Fetch.n \in Int
  BY ReadyFacts, FetchType DEF Ready
<1>1. CASE ArrayLoad
  <2>1. Fetch.n > 0 /\ pops = AtMost(Fetch.n, MaxDims) /\ leaves = 1
    BY <1>1, UsesOfOthers DEF Ready, ArrayLoad, At
  <2>2. pops = Indices(Fetch)
    BY <2>1 DEF Indices, AtMost
  <2>3. \E x \in Int : stack' = Push(Drop(stack, pops), x)
    BY <1>1, <2>2, InputAssumption DEF ArrayLoad
  <2> QED
    BY <1>0, <2>1, <2>3, Replacing
<1>2. CASE ArrayStore
  <2>1. Fetch.n > 0 /\ pops = AtMost(Fetch.n, MaxDims) + 1 /\ leaves = 0
    BY <1>2, UsesOfOthers DEF Ready, ArrayStore, At
  <2>2. stack' = Drop(stack, pops)
    BY <1>2, <2>1 DEF ArrayStore, Indices, AtMost
  <2> QED
    BY <1>0, <2>1, <2>2, Dropping
<1>3. CASE Dim
  <2>1. Fetch.n > 0 /\ pops = AtMost(Fetch.n, MaxDims) /\ leaves = 0
    BY <1>3, UsesOfOthers DEF Ready, Dim, At
  <2>2. pops = IF Fetch.n < 1 THEN 1 ELSE IF Fetch.n > MaxDims THEN MaxDims ELSE Fetch.n
    BY <1>0, <2>1 DEF AtMost, MaxDims
  <2>3. stack' = Drop(stack, pops)
    BY <1>3, <2>2 DEF Dim
  <2> QED
    BY <1>0, <2>1, <2>3, Dropping
<1> QED
  BY <1>1, <1>2, <1>3

\* MAT, and MAT DET and its like when they do not fail.
LEMMA MatConsumes ==
  ASSUME NEW h, NEW pops, NEW leaves, Ready(h, pops, leaves),
         Mat \/ (MatExpr /\ ~RaiseError(17, stack, 1))
  PROVE  Consuming(pops, leaves)
<1>0. /\ stack \in Stacks /\ Len(stack) \in Nat /\ Len(stack) < StackSize
      /\ pops \in Nat /\ pops <= Len(stack)
  BY ReadyFacts
<1>1. CASE Mat
  <2>1. pops = Fetch.arg /\ leaves = 0
    BY <1>1, UsesOfOthers DEF Ready, Mat, At
  <2>2. stack' = Drop(stack, pops)
    BY <1>1, <2>1 DEF Mat
  <2> QED
    BY <1>0, <2>1, <2>2, Dropping
<1>2. CASE MatExpr /\ ~RaiseError(17, stack, 1)
  <2>1. Fetch.op \in PushOps
    BY <1>2 DEF MatExpr, At, PushOps
  <2>2. pops = 0 /\ leaves = 1
    BY <2>1, UsesOfGroups DEF Ready
  <2>3. \E x \in Int : stack' = Push(stack, x)
    BY <1>2, InputAssumption DEF MatExpr
  <2> QED
    BY <1>0, <2>2, <2>3, PushConsumes DEF Consuming
<1> QED
  BY <1>1, <1>2

\* A row that asks for most applies to every stack that has enough.
LEMMA FixedIsBest ==
  ASSUME NEW rows, rows \subseteq RowType, NEW h \in Nat, NEW sp \in Nat, h <= sp,
         NEW r, Fixed(rows, h, r)
  PROVE  Best(rows, sp) = {r}
<1>1. r \in rows /\ r.min \in Nat /\ r.min <= h
  BY DEF Fixed, RowType
<1>2. \A q \in rows : q.min \in Nat /\ q.min <= r.min /\ (q # r => q.min < r.min)
  BY <1>1 DEF Fixed, RowType
<1> QED
  BY <1>1, <1>2 DEF Best

\* With room for all of them, all values are pushed.
LEMMA PushAllWithRoom ==
  ASSUME NEW s \in Stacks, NEW vs \in Seq(Int), Len(s) + Len(vs) <= StackSize
  PROVE  /\ Len(PushAll(s, vs)) = Len(s) + Len(vs)
         /\ \A j \in 1 .. Len(s) : PushAll(s, vs)[j] = s[j]
<1>1. s \in Seq(Int) /\ Len(vs) \in Nat /\ Len(s) \in Nat
  BY DEF Stacks
<1>2. SubSeq(vs, 1, Len(vs)) \in Seq(Int) /\ Len(SubSeq(vs, 1, Len(vs))) = Len(vs)
  BY <1>1
<1> DEFINE w == SubSeq(vs, 1, Len(vs))
<1>3. PushAll(s, vs) = s \o w
  BY DEF PushAll
<1> HIDE DEF w
<1>4. w \in Seq(Int) /\ Len(w) = Len(vs)
  BY <1>2 DEF w
<1>5. Len(s \o w) = Len(s) + Len(w)
  BY <1>1, <1>4, ConcatProperties, Zenon
<1> QED
  BY <1>3, <1>4, <1>5, PushAllStacks

\* A row pushes as many values as it says.
LEMMA PushedLength ==
  ASSUME NEW r \in RowType, NEW vs \in Pushed(r.out)
  PROVE  vs \in Seq(Int) /\ Len(vs) = Leaves(r.out) /\ Leaves(r.out) \in {0, 1, 4}
<1>1. r.out \in {"none", "zero", "any", "four"}
  BY DEF RowType
<1>2. vs \in Seq(Int)
  BY PushedShort
<1>3. CASE r.out = "none"
  BY <1>2, <1>3 DEF Pushed, Leaves
<1>4. CASE r.out = "zero"
  <2>1. vs = <<0>> /\ Leaves(r.out) = 1
    BY <1>4 DEF Pushed, Leaves
  <2> QED
    BY <1>2, <2>1
<1>5. CASE r.out = "any"
  <2>1. PICK v \in Input : vs = <<v>>
    BY <1>5 DEF Pushed
  <2>2. Leaves(r.out) = 1
    BY <1>5 DEF Leaves
  <2> QED
    BY <1>2, <2>1, <2>2
<1>6. CASE r.out = "four"
  <2>1. vs = <<0, 0, 0, 0>> /\ Leaves(r.out) = 4
    BY <1>6 DEF Pushed, Leaves
  <2> QED
    BY <1>2, <2>1
<1> QED
  BY <1>1, <1>3, <1>4, <1>5, <1>6

LEMMA StatementConsumes ==
  ASSUME NEW h, NEW pops, NEW leaves, Ready(h, pops, leaves), Statement
  PROVE  Consuming(pops, leaves)
<1>0. /\ stack \in Stacks /\ Len(stack) \in Nat /\ Len(stack) + 4 <= StackSize
      /\ StackSize \in Nat /\ pops \in Nat /\ pops <= Len(stack) /\ h \in Nat /\ h <= Len(stack)
  BY ReadyFacts
<1> DEFINE rows == StatementRows(Fetch, IsArray(Fetch))
<1>1. Fetch.op \in RowOps /\ stack' \in After(rows, stack)
  BY DEF Statement, At
<1>2. rows \subseteq RowType
  BY <1>1, StatementRowsAreRows
<1>3. IsArray(Fetch) \in BOOLEAN
  BY DEF IsArray
<1>4. PICK r \in rows : Fixed(rows, h, r) /\ pops = r.pops /\ leaves = Leaves(r.out)
  BY <1>1, <1>3, UsesOfOthers DEF Ready
<1> HIDE DEF rows
<1>5. Best(rows, Len(stack)) = {r}
  BY <1>0, <1>2, <1>4, FixedIsBest
<1>6. PICK vs \in Pushed(r.out) : stack' = PushAll(Drop(stack, r.pops), vs)
  BY <1>1, <1>5 DEF After
<1>7. vs \in Seq(Int) /\ Len(vs) = leaves /\ leaves \in {0, 1, 4}
  BY <1>2, <1>4, PushedLength
<1> DEFINE d == Drop(stack, pops)
<1>8. /\ d \in Stacks /\ Len(d) = Len(stack) - pops
      /\ \A j \in 1 .. Len(stack) - pops : d[j] = stack[j]
  BY <1>0, DropConsumes
<1>9. stack' = PushAll(d, vs)
  BY <1>4, <1>6
<1> HIDE DEF d
<1>10. Len(d) + Len(vs) <= StackSize
  BY <1>0, <1>7, <1>8
<1>11. /\ Len(stack') = Len(d) + Len(vs)
       /\ \A j \in 1 .. Len(d) : stack'[j] = d[j]
  BY <1>7, <1>8, <1>9, <1>10, PushAllWithRoom
<1> QED
  BY <1>0, <1>7, <1>8, <1>11 DEF Consuming

\* A built-in function that is supplied with its arguments leaves one result:
\* this is BuiltinContract.
LEMMA BuiltinConsumes ==
  ASSUME NEW h, NEW pops, NEW leaves, Ready(h, pops, leaves), Builtin
  PROVE  Consuming(pops, leaves) /\ Advance
<1>0. /\ stack \in Stacks /\ Len(stack) \in Nat /\ Len(stack) + 4 <= StackSize
      /\ StackSize \in Nat /\ pops \in Nat /\ pops <= Len(stack) /\ TypeOK /\ Live
      /\ Fetch.n \in Int
  BY ReadyFacts, FetchType DEF Ready
<1>1. /\ Fetch.sym # "CHAIN" /\ Fetch.n >= 0
      /\ \A r \in BuiltinRows(Fetch.sym, Fetch.n) : r.pops <= Fetch.n
      /\ pops = Fetch.n /\ leaves = 1
  BY UsesOfOthers DEF Ready, Builtin, At
<1>2. Supplied /\ Calling
  BY <1>0, <1>1 DEF Supplied, Calling, Builtin, At
<1> DEFINE n == Fetch.n
<1>3. Instruction /\ Next
  BY DEF Instruction, Next
<1>4. Len(stack') = Len(stack) - n + 1 /\ Drop(stack', 1) = Drop(stack, n)
  BY <1>0, <1>2, <1>3, ContractStep DEF OneResultFor
<1>5. stack' \in Stacks
  BY <1>0, <1>3, InstructionOK DEF TypeOK, Stacks
<1>6. n \in Nat /\ n = pops /\ n <= Len(stack)
  BY <1>0, <1>1
<1>7. \A j \in 1 .. Len(stack) - n : Drop(stack, n)[j] = stack[j]
  BY <1>0, <1>6, DropConsumes
<1>8. \A j \in 1 .. Len(stack') - 1 : Drop(stack', 1)[j] = stack'[j]
  <2>1. 1 <= Len(stack') /\ 1 \in Nat
    BY <1>0, <1>4, <1>6
  <2> QED
    BY <1>5, <2>1, DropConsumes
<1> HIDE DEF n
<1>9. Consuming(n, 1)
  <2>1. Len(stack') - 1 = Len(stack) - n
    BY <1>0, <1>4, <1>6
  <2> QED
    BY <1>4, <1>6, <1>7, <1>8, <2>1 DEF Consuming
<1>10. ~Endless(Len(stack), n)
  BY <1>0, <1>6 DEF Endless, Expected
<1>11. Advance
  BY <1>0, <1>1, <1>10 DEF Builtin, n
<1> QED
  BY <1>1, <1>6, <1>9, <1>11

-----------------------------------------------------------------------------
(***************************************************************************)
(* The notes of the program that is executed.                              *)
(***************************************************************************)
TheNote == CHOOSE note : BalancedBy(program, note)

X == TheNote[ip]      \* the note of the instruction that is executed

LEMMA NoteBalanced ==
  ASSUME TypeOK, Live, BalancedProgram
  PROVE  BalancedBy(program, TheNote)
<1>1. program # NoProgram
  BY DEF Live, NoProgram, code, TypeOK
<1> QED
  BY <1>1 DEF BalancedProgram, Balanced, TheNote

\* What is noted of an address.
LEMMA NoteAt ==
  ASSUME TypeOK, Live, BalancedProgram, NEW a \in DOMAIN TheNote
  PROVE  /\ a \in 0 .. Len(code) - 1
         /\ TheNote[a] \in Note
         /\ TheNote[a].height \in Nat /\ TheNote[a].args \in Nat /\ TheNote[a].res \in {0, 1}
         /\ Sound(program, a, TheNote[a])
         /\ \A l \in Leads(program, a, TheNote[a]) : l[1] \in DOMAIN TheNote /\ TheNote[l[1]] = l[2]
         /\ a \in program.starts => TheNote[a].height = 0
<1>1. BalancedBy(program, TheNote)
  BY NoteBalanced
<1>2. TheNote[a] \in Note /\ a \in 0 .. Len(code) - 1
  BY <1>1 DEF BalancedBy, code
<1>3. /\ Sound(program, a, TheNote[a])
      /\ \A l \in Leads(program, a, TheNote[a]) : l[1] \in DOMAIN TheNote /\ TheNote[l[1]] = l[2]
      /\ a \in program.starts => TheNote[a].height = 0
  BY <1>1 DEF BalancedBy
<1> QED
  BY <1>2, <1>3 DEF Note

LEMMA NoteAtStart ==
  ASSUME TypeOK, Live, BalancedProgram
  PROVE  0 \in DOMAIN TheNote /\ TheNote[0] = Base
BY NoteBalanced DEF BalancedBy

\* A change leaves a note.
LEMMA ChangedNote ==
  ASSUME NEW x \in Note, NEW p \in 0 .. x.height, NEW l \in Nat
  PROVE  /\ Changed(x, p, l).height = x.height - p + l
         /\ Changed(x, p, l).args = x.args /\ Changed(x, p, l).res = x.res
         /\ Changed(x, 0, 0) = x
BY DEF Changed, Note

\* Instructions that go elsewhere than to the next one, or nowhere.
OtherWays == Ends \cup {"JMP", "JMP_IF_FALSE", "JMP_IF_TRUE", "FATAL", "CALL", "RET",
                        "ON_GOTO", "ON_GOSUB"}

Straight == Fetch.op \notin OtherWays /\ ~(Fetch.op = "CALL_BUILTIN" /\ Fetch.sym = "CHAIN")

\* The others are uses of the table, and the next address is noted.
LEMMA StraightNote ==
  ASSUME TypeOK, Live, BalancedProgram, ip \in DOMAIN TheNote, Straight
  PROVE  \E pops \in 0 .. X.height, leaves \in 0 .. 4 :
            /\ Uses(Fetch, X.height, pops, leaves)
            /\ ip + 1 \in DOMAIN TheNote
            /\ TheNote[ip + 1] = Changed(X, pops, leaves)
<1>0. X \in Note /\ X.height \in Nat
  BY NoteAt DEF X
<1>1. /\ Passed(Fetch, X) # {}
      /\ Leads(program, ip, X) =
           IF Fetch.op = "ON_ERROR"
           THEN {<<ip + 1, X>>} \cup {<<b, Base>> : b \in Handling(code, Fetch)}
           ELSE {<<ip + 1, y>> : y \in Passed(Fetch, X)}
  <2>1. Sound(program, ip, X)
    BY NoteAt DEF X
  <2> QED
    BY <2>1 DEF Sound, Leads, Straight, OtherWays, Ends, Fetch, code
<1>2. PICK pops \in 0 .. X.height, leaves \in 0 .. 4 : Uses(Fetch, X.height, pops, leaves)
  <2>1. PICK u \in (0 .. X.height) \X (0 .. 4) : Uses(Fetch, X.height, u[1], u[2])
    BY <1>1 DEF Passed
  <2> QED
    BY <2>1
<1>3. Changed(X, pops, leaves) \in Passed(Fetch, X)
  <2> DEFINE u == <<pops, leaves>>
  <2>1. u \in (0 .. X.height) \X (0 .. 4) /\ u[1] = pops /\ u[2] = leaves
    OBVIOUS
  <2> HIDE DEF u
  <2> QED
    BY <1>2, <2>1 DEF Passed
<1>4. <<ip + 1, Changed(X, pops, leaves)>> \in Leads(program, ip, X)
  <2>1. CASE Fetch.op = "ON_ERROR"
    <3>1. pops = 0 /\ leaves = 0
      BY <1>2, <2>1, UsesOfGroups DEF InertOps
    <3> QED
      BY <1>0, <1>1, <2>1, <3>1, ChangedNote
  <2>2. CASE Fetch.op # "ON_ERROR"
    BY <1>1, <1>3, <2>2
  <2> QED
    BY <2>1, <2>2
<1>5. ip + 1 \in DOMAIN TheNote /\ TheNote[ip + 1] = Changed(X, pops, leaves)
  <2> DEFINE l == <<ip + 1, Changed(X, pops, leaves)>>
  <2>1. l \in Leads(program, ip, TheNote[ip])
    BY <1>4 DEF X
  <2>2. l[1] \in DOMAIN TheNote /\ TheNote[l[1]] = l[2]
    BY <2>1, NoteAt
  <2> QED
    BY <2>2
<1> QED
  BY <1>2, <1>5

-----------------------------------------------------------------------------
(***************************************************************************)
(* What the instructions do, in these terms.                               *)
(***************************************************************************)
Raised ==
  /\ \E c \in Int, skip \in {0, 1} : RaiseError(c, stack', skip)
  /\ Fetch.op \in FaultOps \ CallOps

SameHeights ==
  /\ Depth' = Depth
  /\ \A k \in 1 .. Depth : call_stack'[k].return_sp = call_stack[k].return_sp

SameHandler == UNCHANGED <<error_label, on_error_active>>

Walking == Advance /\ SameHeights /\ (SameHandler \/ OnError)

\* Most instructions that go on are Plain, or Quiet and keep the frames.
LEMMA QuietWalks ==
  ASSUME Advance, Quiet, UNCHANGED call_stack
  PROVE  Walking
BY DEF Walking, SameHeights, SameHandler, Depth, Quiet, errors

LEMMA PlainWalks ==
  ASSUME Advance, Plain
  PROVE  Walking
BY QuietWalks DEF Plain

\* SAVE_LOCAL changes what a frame has saved, not its height.
LEMMA SavingWalks ==
  ASSUME TypeOK, SaveLocal
  PROVE  Walking
<1> DEFINE saves == call_stack # <<>> /\ Len(call_stack[Depth].saved) < MaxSaved
           old   == IF Len(stack) = StackSize THEN Top(stack) ELSE Read(Fetch.sym)
           entry == [var |-> Fetch.sym, val |-> old]
           g     == [call_stack[Depth] EXCEPT !.saved = Append(@, entry)]
<1>1. call_stack' = IF saves THEN [call_stack EXCEPT ![Depth] = g] ELSE call_stack
  BY DEF SaveLocal
<1>2. Advance /\ Quiet
  BY DEF SaveLocal
<1>3. CASE ~saves
  BY <1>1, <1>2, <1>3, QuietWalks
<1>4. CASE saves
  <2>1. /\ Depth \in 1 .. Len(call_stack) /\ call_stack[Depth] \in FrameType
        /\ call_stack \in Seq(FrameType)
    BY <1>4, FrameType1 DEF TypeOK, FramesOK, Depth
  <2>2. g.return_sp = call_stack[Depth].return_sp
    BY <2>1 DEF FrameType
  <2> HIDE DEF g
  <2>3. /\ Len(call_stack') = Len(call_stack)
        /\ \A k \in 1 .. Len(call_stack) :
             call_stack'[k] = IF k = Depth THEN g ELSE call_stack[k]
    BY <1>1, <1>4, <2>1
  <2>4. SameHeights
    BY <2>2, <2>3 DEF SameHeights, Depth
  <2> QED
    BY <1>2, <2>4 DEF Walking, SameHandler, Quiet, errors
<1> QED
  BY <1>3, <1>4

\* An error that is not handled ends the program.
LEMMA UnhandledEnds ==
  ASSUME NEW c, NEW s, NEW skip, RaiseError(c, s, skip), ~Handled
  PROVE  ~Live'
<1>1. result' = -1
  BY DEF RaiseError
<1> QED
  BY <1>1 DEF Live

\* An instruction of the table has the effect the table gives, and goes on or
\* raises an error, unless it ends the program.
LEMMA ReadyGoes ==
  ASSUME NEW h, NEW pops, NEW leaves, Ready(h, pops, leaves), Instruction, Straight,
         NoFaultInExpression
  PROVE  ~Live' \/ (Consuming(pops, leaves) /\ (Walking \/ Raised))
<1>0. TypeOK /\ Live /\ stack \in Stacks
  BY ReadyFacts
<1>1. CASE PushConst \/ PushString \/ PushVar \/ ReadData
  BY <1>1, PushersConsume, QuietWalks, PlainWalks DEF PushConst, PushString, PushVar, ReadData
<1>2. CASE Pop \/ PopStore \/ BindRef \/ SaveLocal
  BY <1>0, <1>2, PoppersConsume, QuietWalks, PlainWalks, SavingWalks DEF Pop, PopStore, BindRef
<1>3. CASE Raise
  <2>1. Fetch.op = "ERROR"
    BY <1>3 DEF Raise, At, Straight, OtherWays
  <2>2. Consuming(pops, leaves)
    BY <1>3, <2>1, PoppersConsume
  <2>3. CASE stack = <<>>
    BY <1>3, <2>2, <2>3, PlainWalks DEF Raise
  <2>4. CASE stack # <<>>
    <3>1. ToLong(Top(stack)) \in Int
      BY <1>0, <2>4, TopInt, ToLongInt
    <3>2. stack' = Drop(stack, 1) /\ RaiseError(ToLong(Top(stack)), Drop(stack, 1), 0)
      BY <1>3, <2>1, <2>4 DEF Raise
    <3> QED
      BY <2>1, <2>2, <3>1, <3>2 DEF Raised, FaultOps, CallOps
  <2> QED
    BY <2>3, <2>4
<1>4. CASE InputVar
  BY <1>4, InputConsumes, QuietWalks DEF InputVar
<1>5. CASE Marker \/ EraseVar \/ ClearAll \/ Restore
  BY <1>5, InertConsume, QuietWalks, PlainWalks DEF Marker, EraseVar, ClearAll, Restore
<1>6. CASE OnError
  BY <1>6, InertConsume DEF OnError, Walking, SameHeights, Depth
<1>7. CASE BinaryOp \/ Negate \/ Dup \/ Swap
  BY <1>7, OperatorsConsume, NegateConsumes, DupConsumes, SwapConsumes, PlainWalks
     DEF BinaryOp, Negate, Dup, Swap
<1>8. CASE ArrayLoad \/ ArrayStore \/ Dim
  BY <1>8, IndexedConsume, QuietWalks, PlainWalks DEF ArrayLoad, ArrayStore, Dim
<1>9. CASE Divide
  <2>1. CASE Len(stack) < 2 \/ ~ZeroDivisor
    BY <1>9, <2>1, OperatorsConsume, PlainWalks DEF Divide
  <2>2. CASE ~(Len(stack) < 2 \/ ~ZeroDivisor)
    <3>1. ~Handled
      BY <1>9, <2>2 DEF NoFaultInExpression, Divide
    <3>2. RaiseError(11, Drop(stack, 2), 0)
      BY <1>9, <2>2 DEF Divide
    <3> QED
      BY <3>1, <3>2, UnhandledEnds
  <2> QED
    BY <2>1, <2>2
<1>10. CASE Mat
  <2>1. Consuming(pops, leaves)
    BY <1>10, MatConsumes
  <2>2. \/ Advance /\ Quiet /\ UNCHANGED call_stack
        \/ \E c \in MatErrors : RaiseError(c, stack', 1)
    BY <1>10 DEF Mat
  <2>3. Fetch.op \in FaultOps \ CallOps
    BY <1>10 DEF Mat, At, FaultOps, CallOps
  <2> QED
    BY <2>1, <2>2, <2>3, QuietWalks DEF MatErrors, Raised
<1>11. CASE MatExpr
  <2>1. CASE RaiseError(17, stack, 1)
    BY <1>11, <2>1, UnhandledEnds DEF NoFaultInExpression, MatExpr
  <2>2. CASE ~RaiseError(17, stack, 1)
    BY <1>11, <2>2, MatConsumes, PlainWalks DEF MatExpr
  <2> QED
    BY <2>1, <2>2
<1>12. CASE Statement
  BY <1>12, StatementConsumes, PlainWalks DEF Statement
<1>13. CASE Builtin
  <2>1. Consuming(pops, leaves) /\ Advance
    BY <1>13, BuiltinConsumes
  <2>2. UNCHANGED <<call_stack, errors>>
    BY <1>13 DEF Builtin
  <2> QED
    BY <2>1, <2>2 DEF Walking, SameHeights, SameHandler, Depth, errors
<1>14. ~(Jump \/ JumpIf \/ Call \/ Return \/ OnGoto)
  BY DEF Jump, JumpIf, Call, Return, OnGoto, Straight, OtherWays, At
<1>15. ~(End \/ Stop \/ Quit \/ Resume \/ Chain)
  BY DEF End, Stop, Quit, Resume, Chain, Straight, OtherWays, Ends, At
<1>16. ~Poly
  <2>1. Fetch.op \in PushOps \cup PopOps \cup InertOps \cup BinaryOps \cup OddOps \cup RowOps
    BY UsesOfGroups DEF Ready
  <2>2. Fetch.op # "POLY_GFX"
    BY <2>1 DEF PushOps, PopOps, InertOps, BinaryOps, OddOps, Arithmetic, Comparisons, Logic,
       Divisions, RowOps, PrintOps, TransferOps, ScreenOps, ChannelOps, MemoryOps,
       SystemOps, ArrayOps, GfxOps, WindowOps
  <2> QED
    BY <2>2 DEF Poly, At
<1> QED
  BY <1>1, <1>2, <1>3, <1>4, <1>5, <1>6, <1>7, <1>8, <1>9, <1>10, <1>11, <1>12, <1>13,
     <1>14, <1>15, <1>16 DEF Instruction

-----------------------------------------------------------------------------
(***************************************************************************)
(* The inductive invariant.  Between what waits for the innermost          *)
(* subroutine and the top of the stack there are as many values as the     *)
(* note of ip says.  Below, each subroutine k that waits for one it called *)
(* has the values its note says it will have when that one is back, its    *)
(* result included.  Place(k) is where subroutine k goes on; 0 is the main *)
(* program.                                                                *)
(***************************************************************************)
Waiting(k) == IF k = 0 THEN <<>> ELSE active[k].operands

Place(k) == IF k = Len(active) THEN ip ELSE active[k + 1].site + 1

NoteOf(k) == TheNote[Place(k)]

Begins(s, t) == Len(s) <= Len(t) /\ \A j \in 1 .. Len(s) : t[j] = s[j]

Level(k) ==
  /\ Place(k) \in DOMAIN TheNote
  /\ k # 0 =>
       /\ call_stack[k].return_sp = Len(Waiting(k)) + NoteOf(k).args
       /\ Len(Waiting(k)) + NoteOf(k).res = Len(Waiting(k - 1)) + NoteOf(k - 1).height
       /\ Begins(Waiting(k - 1), Waiting(k))
       /\ active[k].to \in program.functions => NoteOf(k).res = 1

LevelsBalanced == \A k \in 0 .. Len(active) : Level(k)

TopBalanced ==
  /\ Begins(Waiting(Len(active)), stack)
  /\ Len(stack) = Len(Waiting(Len(active))) + X.height

\* The labels of an ON GOTO that are pushed are on the stack.
ConstantsPushed ==
  \A m \in Nat : Pushes(code, ip, m) =>
    /\ m <= Len(stack)
    /\ \A j \in 0 .. m - 1 : stack[Len(stack) - j] = code[ip - j].arg

\* The handler that is armed begins as the main program does.
HandlerNoted ==
  on_error_active /\ error_label >= 0 =>
    /\ code[error_label + 1].op = "LABEL"
    /\ \A b \in {error_label, error_label + 1} :
         b \in DOMAIN TheNote /\ TheNote[b] = Base /\ b \notin program.functions

Noted == LevelsBalanced /\ TopBalanced /\ ConstantsPushed /\ HandlerNoted

BalanceInv ==
  /\ host \in {"idle", "loaded"} => ~on_error_active
  /\ Live => Noted

-----------------------------------------------------------------------------
\* Nothing depends on anything of the program but the program.
LEMMA SameNotes ==
  ASSUME UNCHANGED program
  PROVE  code' = code /\ TheNote' = TheNote
BY DEF code, TheNote

\* What waits is a stack.
LEMMA WaitingTyped ==
  ASSUME active \in Seq(EntryType)
  PROVE  /\ Len(active) \in Nat
         /\ \A k \in 0 .. Len(active) : Waiting(k) \in Stacks /\ Len(Waiting(k)) \in Nat
         /\ \A k \in 1 .. Len(active) : active[k] \in EntryType /\ active[k].site \in Nat
<1>1. Len(active) \in Nat
  OBVIOUS
<1>2. \A k \in 1 .. Len(active) : active[k] \in EntryType
  BY ElementOfSeq
<1>3. \A k \in 1 .. Len(active) : active[k].operands \in Stacks /\ active[k].site \in Nat
  BY <1>2 DEF EntryType
<1>4. ASSUME NEW k \in 0 .. Len(active) PROVE Waiting(k) \in Stacks /\ Len(Waiting(k)) \in Nat
  <2>1. CASE k = 0
    BY <2>1, EmptyOK DEF Waiting
  <2>2. CASE k # 0
    <3>1. k \in 1 .. Len(active)
      BY <2>2
    <3> QED
      BY <1>3, <2>2, <3>1, StackIsSeq DEF Waiting
  <2> QED
    BY <2>1, <2>2
<1> QED
  BY <1>1, <1>2, <1>3, <1>4

\* An instruction that stays in its subroutine.
LEMMA GoingKeepsNotes ==
  ASSUME TypeOK, Live, BalancedProgram, UNCHANGED program, active \in Seq(EntryType),
         Len(active) = Depth, LevelsBalanced, TopBalanced, active' = active, SameHeights,
         NEW pops \in 0 .. X.height, NEW leaves \in Nat, Consuming(pops, leaves),
         ip' \in DOMAIN TheNote, TheNote[ip'] = Changed(X, pops, leaves)
  PROVE  LevelsBalanced' /\ TopBalanced'
<1> DEFINE n == Len(active)
<1>0. n \in Nat /\ Len(stack) \in Nat /\ Len(stack') = Len(stack) - pops + leaves
  BY WaitingTyped, StackIsSeq DEF Consuming, TypeOK
<1>1. TheNote' = TheNote /\ n' = n
  BY SameNotes
<1>2. /\ \A k : Waiting(k)' = Waiting(k)
      /\ \A k : Place(k)' = IF k = n THEN ip' ELSE Place(k)
  BY <1>1 DEF Waiting, Place
<1>3. Level(n) /\ Place(n) = ip /\ ip \in DOMAIN TheNote
  BY <1>0 DEF LevelsBalanced, Level, Place
<1>4. /\ TheNote[ip'].height = X.height - pops + leaves
      /\ TheNote[ip'].args = X.args /\ TheNote[ip'].res = X.res
      /\ X.height \in Nat
  <2>1. X \in Note /\ X.height \in Nat
    BY <1>3, NoteAt DEF X
  <2>2. /\ Changed(X, pops, leaves).height = X.height - pops + leaves
        /\ Changed(X, pops, leaves).args = X.args /\ Changed(X, pops, leaves).res = X.res
    BY <2>1, ChangedNote
  <2> QED
    BY <2>1, <2>2
<1>5. NoteOf(n) = X /\ NoteOf(n)' = TheNote[ip']
  BY <1>1, <1>2, <1>3 DEF NoteOf, X
<1>6. LevelsBalanced'
  <2> SUFFICES ASSUME NEW k \in 0 .. n PROVE Level(k)'
    BY <1>1 DEF LevelsBalanced
  <2>1. Level(k)
    BY DEF LevelsBalanced
  <2>2. Place(k)' \in DOMAIN TheNote'
    BY <1>1, <1>2, <2>1 DEF Level
  <2>3. /\ NoteOf(k)'.args = NoteOf(k).args /\ NoteOf(k)'.res = NoteOf(k).res
    <3>1. CASE k = n
      BY <1>4, <1>5, <3>1
    <3>2. CASE k # n
      BY <1>1, <1>2, <3>2 DEF NoteOf
    <3> QED
      BY <3>1, <3>2
  <2>4. ASSUME k # 0
        PROVE  /\ NoteOf(k - 1)' = NoteOf(k - 1)
               /\ call_stack'[k].return_sp = call_stack[k].return_sp
               /\ Waiting(k - 1)' = Waiting(k - 1)
    <3>1. k - 1 # n /\ k \in 1 .. Depth
      BY <1>0, <2>4
    <3>2. Place(k - 1)' = Place(k - 1) /\ Waiting(k - 1)' = Waiting(k - 1)
      BY <1>2, <3>1
    <3>3. NoteOf(k - 1)' = NoteOf(k - 1)
      BY <1>1, <3>2 DEF NoteOf
    <3>4. call_stack'[k].return_sp = call_stack[k].return_sp
      BY <3>1 DEF SameHeights
    <3> QED
      BY <3>2, <3>3, <3>4
  <2>5. Waiting(k)' = Waiting(k)
    BY <1>2
  <2> QED
    BY <2>1, <2>2, <2>3, <2>4, <2>5 DEF Level, Begins
<1>7. TopBalanced'
  <2> DEFINE w == Waiting(n)
  <2>1. /\ Len(w) \in Nat /\ Len(stack) = Len(w) + X.height
        /\ \A j \in 1 .. Len(w) : stack[j] = w[j]
    BY <1>0, WaitingTyped DEF TopBalanced, Begins
  <2>2. w' = w /\ X' = TheNote[ip']
    BY <1>1, <1>2 DEF X
  <2>3. \A j \in 1 .. Len(stack) - pops : stack'[j] = stack[j]
    BY DEF Consuming
  <2> HIDE DEF w
  <2>4. Begins(w, stack')
    <3> DEFINE l == Len(w)
               x == X.height
    <3>1. l \in Nat /\ x \in Nat /\ Len(stack) = l + x /\ pops \in Nat /\ pops <= x
      BY <1>0, <1>4, <2>1
    <3>2. Len(stack') = Len(stack) - pops + leaves /\ leaves \in Nat
      BY DEF Consuming
    <3> HIDE DEF l, x
    <3>3. l <= Len(stack) - pops /\ l <= Len(stack')
      BY <3>1, <3>2
    <3>4. \A j \in 1 .. l : j \in 1 .. Len(stack) - pops
      BY <3>1, <3>3
    <3>5. \A j \in 1 .. l : stack'[j] = w[j]
      BY <2>1, <2>3, <3>4 DEF l
    <3> QED
      BY <3>3, <3>5 DEF Begins, l
  <2>5. Len(stack') = Len(w) + TheNote[ip'].height
    BY <1>0, <1>4, <2>1
  <2> QED
    BY <1>1, <2>2, <2>4, <2>5 DEF TopBalanced, Begins, w
<1> QED
  BY <1>6, <1>7

\* Everything but the innermost subroutine is as it was.
LEMMA AppendedEntry ==
  ASSUME active \in Seq(EntryType), NEW n, n = Len(active),
         NEW e \in EntryType, active' = Append(active, e), UNCHANGED program
  PROVE  /\ n \in Nat /\ Len(active') = n + 1
         /\ active'[n + 1] = e /\ \A k \in 1 .. n : active'[k] = active[k]
         /\ Waiting(n + 1)' = e.operands
         /\ \A k \in 0 .. n : Waiting(k)' = Waiting(k)
         /\ Place(n + 1)' = ip' /\ Place(n)' = e.site + 1
         /\ \A k \in 0 .. n - 1 : Place(k)' = Place(k)
         /\ \A k \in 0 .. n - 1 : NoteOf(k)' = NoteOf(k)
<1>1. /\ n \in Nat /\ Len(active') = n + 1
      /\ active'[n + 1] = e /\ \A k \in 1 .. n : active'[k] = active[k]
  OBVIOUS
<1>2. n = Len(active) /\ n + 1 = Len(active')
  BY <1>1
<1>3. Waiting(n + 1)' = e.operands /\ \A k \in 0 .. n : Waiting(k)' = Waiting(k)
  <2>1. n + 1 # 0 /\ \A k \in 0 .. n : k # 0 => k \in 1 .. n
    BY <1>1
  <2> QED
    BY <1>1, <2>1 DEF Waiting
<1>4. /\ Place(n + 1)' = ip' /\ Place(n)' = e.site + 1
      /\ \A k \in 0 .. n - 1 : Place(k)' = Place(k)
  <2>1. n + 1 # n /\ \A k \in 0 .. n - 1 : k # n /\ k # n + 1 /\ k + 1 \in 1 .. n
    BY <1>1
  <2>2. Place(n + 1)' = ip'
    BY <1>2 DEF Place
  <2>3. Place(n)' = e.site + 1
    BY <1>1, <1>2, <2>1 DEF Place
  <2>4. \A k \in 0 .. n - 1 : Place(k)' = Place(k)
    BY <1>1, <1>2, <2>1 DEF Place
  <2> QED
    BY <2>2, <2>3, <2>4
<1>5. \A k \in 0 .. n - 1 : NoteOf(k)' = NoteOf(k)
  BY <1>4, SameNotes DEF NoteOf
<1> QED
  BY <1>1, <1>3, <1>4, <1>5

\* Places on a stack of n + 1, counted from the place below the first one.
LEMMA PlaceOfBefore ==
  ASSUME NEW n \in Nat, NEW k \in 0 .. n + 1, k # n + 1
  PROVE  k \in 0 .. n
OBVIOUS

LEMMA PlaceBelow ==
  ASSUME NEW n \in Nat, NEW k \in 0 .. n, k # 0
  PROVE  k \in 1 .. n /\ k - 1 \in 0 .. n - 1 /\ k - 1 \in 0 .. n
OBVIOUS

\* A frame is pushed on top of those there are.
LEMMA FramePushed ==
  ASSUME call_stack \in Seq(FrameType), NEW n, n = Len(call_stack),
         NEW f \in FrameType, call_stack' = Append(call_stack, f)
  PROVE  /\ Len(call_stack') = n + 1 /\ call_stack'[n + 1] = f
         /\ \A k \in 1 .. n : call_stack'[k] = call_stack[k]
OBVIOUS

\* An instruction that enters a subroutine, with its arguments, or a handler.
LEMMA EnteringKeepsNotes ==
  ASSUME TypeOK, stack' \in Stacks, UNCHANGED program, active \in Seq(EntryType),
         NEW n, n = Len(active), n = Depth, LevelsBalanced,
         NEW e \in EntryType, active' = Append(active, e), e.site = ip,
         NEW args \in Nat, NEW res \in {0, 1}, e.operands = Drop(stack', args),
         NEW f \in FrameType, call_stack' = Append(call_stack, f), f.return_sp = Len(stack'),
         Begins(Waiting(n), stack'),
         Len(Waiting(n)) + args <= Len(stack'),
         ip' \in DOMAIN TheNote,
         TheNote[ip'] = [height |-> args, args |-> args, res |-> res],
         ip + 1 \in DOMAIN TheNote, NEW h \in Nat, TheNote[ip + 1].height = h,
         TheNote[ip + 1].args = X.args, TheNote[ip + 1].res = X.res,
         Len(stack') - args + res = Len(Waiting(n)) + h,
         e.to \in program.functions => res = 1
  PROVE  LevelsBalanced' /\ TopBalanced'
<1> DEFINE w == Waiting(n)
           d == Drop(stack', args)
<1>0. /\ n \in Nat /\ Len(w) \in Nat /\ Len(stack') \in Nat /\ n = Depth
      /\ call_stack \in Seq(FrameType) /\ Len(call_stack) = n
  BY WaitingTyped, StackIsSeq DEF TypeOK, FramesOK, Depth
<1>1. TheNote' = TheNote /\ program' = program
  BY SameNotes
<1>2. /\ Len(active') = n + 1 /\ active'[n + 1] = e
      /\ \A k \in 1 .. n : active'[k] = active[k]
      /\ Waiting(n + 1)' = d
      /\ \A k \in 0 .. n : Waiting(k)' = Waiting(k)
      /\ Place(n + 1)' = ip' /\ Place(n)' = ip + 1
      /\ \A k \in 0 .. n - 1 : Place(k)' = Place(k)
      /\ \A k \in 0 .. n - 1 : NoteOf(k)' = NoteOf(k)
  BY AppendedEntry
<1>3. /\ d \in Stacks /\ Len(d) = Len(stack') - args
      /\ \A j \in 1 .. Len(stack') - args : d[j] = stack'[j]
  <2>1. args <= Len(stack')
    BY <1>0
  <2> QED
    BY <2>1, DropConsumes
<1>4. /\ NoteOf(n + 1)'.height = args /\ NoteOf(n + 1)'.args = args /\ NoteOf(n + 1)'.res = res
      /\ NoteOf(n)'.height = h /\ NoteOf(n)'.args = X.args /\ NoteOf(n)'.res = X.res
  <2>1. NoteOf(n + 1)' = [height |-> args, args |-> args, res |-> res]
    BY <1>1, <1>2 DEF NoteOf
  <2>2. NoteOf(n)' = TheNote[ip + 1]
    BY <1>1, <1>2 DEF NoteOf
  <2> QED
    BY <2>1, <2>2
<1>5. Begins(w, d) /\ Begins(d, stack')
  <2>1. Len(w) <= Len(d) /\ \A j \in 1 .. Len(w) : stack'[j] = w[j]
    BY <1>0, <1>3 DEF Begins
  <2> HIDE DEF w, d
  <2>2. \A j \in 1 .. Len(w) : j \in 1 .. Len(stack') - args
    BY <1>0, <1>3, <2>1
  <2>3. \A j \in 1 .. Len(w) : d[j] = w[j]
    BY <1>3, <2>1, <2>2
  <2>4. \A j \in 1 .. Len(d) : stack'[j] = d[j]
    BY <1>3
  <2>5. Len(d) <= Len(stack')
    BY <1>0, <1>3
  <2> QED
    BY <2>1, <2>3, <2>4, <2>5 DEF Begins
<1>6. /\ Len(call_stack') = n + 1 /\ call_stack'[n + 1] = f
      /\ \A k \in 1 .. n : call_stack'[k] = call_stack[k]
  BY <1>0, FramePushed
<1>7. LevelsBalanced'
  <2> SUFFICES ASSUME NEW k \in 0 .. n + 1 PROVE Level(k)'
    BY <1>2 DEF LevelsBalanced
  <2>1. CASE k = n + 1
    <3> DEFINE m == n + 1
    <3>1. m \in Nat /\ m # 0 /\ m - 1 = n
      BY <1>0
    <3>2. Place(m)' \in DOMAIN TheNote'
      BY <1>1, <1>2
    <3>3. call_stack'[m].return_sp = Len(d) + args
      BY <1>0, <1>3, <1>6
    <3>4. Len(d) + res = Len(w) + h
      BY <1>3
    <3>5. active'[m].to \in program.functions => res = 1
      BY <1>2
    <3>6. Waiting(m)' = d /\ Waiting(m - 1)' = w /\ NoteOf(m - 1)'.height = h
      BY <1>0, <1>2, <1>4, <3>1
    <3>7. NoteOf(m)'.args = args /\ NoteOf(m)'.res = res
      BY <1>4
    <3> HIDE DEF m, d, w
    <3>8. Level(m)'
      BY <1>1, <1>5, <3>1, <3>2, <3>3, <3>4, <3>5, <3>6, <3>7 DEF Level, Begins
    <3> QED
      BY <2>1, <3>8 DEF m
  <2>2. CASE k # n + 1
    <3>1. k \in 0 .. n /\ Level(k)
      <4>1. k \in 0 .. n
        BY <1>0, <2>2, PlaceOfBefore, Zenon
      <4> QED
        BY <4>1, <1>0 DEF LevelsBalanced
    <3>2. Place(k)' \in DOMAIN TheNote'
      BY <1>0, <1>1, <1>2, <3>1 DEF Level
    <3>3. NoteOf(k)'.args = NoteOf(k).args /\ NoteOf(k)'.res = NoteOf(k).res
      <4>1. CASE k = n
        <5>1. NoteOf(n) = X
          BY DEF NoteOf, Place, X
        <5> QED
          BY <1>4, <4>1, <5>1
      <4>2. CASE k # n
        <5>1. k \in 0 .. n - 1
          BY <1>0, <3>1, <4>2
        <5> QED
          BY <1>2, <5>1
      <4> QED
        BY <4>1, <4>2
    <3>4. ASSUME k # 0
          PROVE  /\ NoteOf(k - 1)' = NoteOf(k - 1)
                 /\ call_stack'[k] = call_stack[k]
                 /\ active'[k] = active[k]
                 /\ Waiting(k - 1)' = Waiting(k - 1)
      <4>1. k \in 1 .. n /\ k - 1 \in 0 .. n - 1 /\ k - 1 \in 0 .. n
        BY <1>0, <3>1, <3>4, PlaceBelow, Zenon
      <4>2. call_stack'[k] = call_stack[k] /\ active'[k] = active[k]
        BY <1>2, <1>6, <4>1
      <4> DEFINE i == k - 1
      <4> HIDE DEF i
      <4>3. NoteOf(i)' = NoteOf(i) /\ Waiting(i)' = Waiting(i)
        BY <1>2, <4>1 DEF i
      <4> QED
        BY <4>2, <4>3 DEF i
    <3>5. Waiting(k)' = Waiting(k)
      BY <1>2, <3>1
    <3> QED
      BY <1>1, <3>1, <3>2, <3>3, <3>4, <3>5 DEF Level, Begins
  <2> QED
    BY <2>1, <2>2
<1>8. TopBalanced'
  <2>1. X'.height = args
    BY <1>1 DEF X
  <2>2. Waiting(Len(active))' = d
    BY <1>2
  <2> HIDE DEF d
  <2>3. Len(stack') = Len(d) + args
    <3> DEFINE l == Len(stack')
    <3>1. l \in Nat /\ Len(d) = l - args
      BY <1>0, <1>3
    <3> HIDE DEF l
    <3>2. l = (l - args) + args
      BY <3>1
    <3> QED
      BY <3>1, <3>2 DEF l
  <2> QED
    BY <1>5, <2>1, <2>2, <2>3 DEF TopBalanced, Begins
<1> QED
  BY <1>7, <1>8

\* Instructions that go another way are not in the table.
LEMMA OtherWaysApart ==
  ASSUME NEW i, i.op \in OtherWays, NEW x
  PROVE  Passed(i, x) = {}
<1>1. i.op \notin PushOps \cup PopOps \cup InertOps \cup BinaryOps \cup OddOps \cup RowOps
  <2>1. OtherWays \cap (PushOps \cup PopOps \cup InertOps \cup OddOps) = {}
    BY DEF OtherWays, Ends, PushOps, PopOps, InertOps, OddOps
  <2>2. OtherWays \cap BinaryOps = {}
    BY DEF OtherWays, Ends, BinaryOps, Arithmetic, Comparisons, Logic, Divisions
  <2>3. OtherWays \cap RowOps = {}
    BY DEF OtherWays, Ends, RowOps, PrintOps, TransferOps, ScreenOps, ChannelOps, MemoryOps,
           SystemOps, ArrayOps, GfxOps, WindowOps
  <2> QED
    BY <2>1, <2>2, <2>3
<1> QED
  BY <1>1, UsesOfGroups DEF Passed

\* What is below what waits is below what is on top of it.
LEMMA BeginsAgain ==
  ASSUME NEW r \in Stacks, NEW s \in Stacks, NEW t \in Stacks, Begins(r, s), Begins(s, t)
  PROVE  Begins(r, t)
<1>1. Len(r) \in Nat /\ Len(s) \in Nat /\ Len(t) \in Nat
  BY StackIsSeq
<1> QED
  BY <1>1 DEF Begins

\* RET leaves what its caller waits with and the result on top.
LEMMA ReturnCuts ==
  ASSUME TypeOK, Live, BalancedProgram, active \in Seq(EntryType), NEW n \in Nat \ {0},
         n = Len(active), n = Depth, LevelsBalanced, TopBalanced, Return
  PROVE  /\ Begins(Waiting(n), stack')
         /\ Len(stack') = Len(Waiting(n)) + X.res
         /\ X.res \in {0, 1} /\ (active[n].to \in program.functions => X.res = 1)
         /\ stack' \in Stacks
<1> DEFINE w == Waiting(n)
           f == call_stack[n]
<1>1. Level(n) /\ Place(n) = ip /\ NoteOf(n) = X /\ n # 0
  BY DEF LevelsBalanced, Place, NoteOf, X
<1>2. /\ ip \in DOMAIN TheNote /\ f.return_sp = Len(w) + X.args
      /\ active[n].to \in program.functions => X.res = 1
  BY <1>1 DEF Level
<1>3. /\ X.height \in Nat /\ X.args \in Nat /\ X.res \in {0, 1}
      /\ Sound(program, ip, X)
  BY <1>2, NoteAt DEF X
<1>4. X.res = AtMost(X.height, X.args)
  <2>1. Fetch.op = "RET" /\ program.code[ip + 1] = Fetch
    BY DEF Return, At, Fetch, code
  <2>2. Passed(Fetch, X) = {}
    BY <2>1, OtherWaysApart DEF OtherWays
  <2> QED
    BY <1>3, <2>1, <2>2 DEF Sound, Ends
<1>5. /\ Len(w) \in Nat /\ w \in Stacks /\ Len(stack) = Len(w) + X.height
      /\ \A j \in 1 .. Len(w) : stack[j] = w[j]
      /\ stack \in Seq(Int) /\ Len(stack) \in Nat
  <2>1. n \in 0 .. Len(active)
    OBVIOUS
  <2>2. Len(w) \in Nat /\ w \in Stacks
    BY <2>1, WaitingTyped
  <2>3. Begins(w, stack) /\ Len(stack) = Len(w) + X.height
    BY DEF TopBalanced
  <2>4. stack \in Seq(Int) /\ Len(stack) \in Nat
    BY StackIsSeq DEF TypeOK
  <2> QED
    BY <2>2, <2>3, <2>4 DEF Begins
<1>6. stack' = IF Len(stack) > f.return_sp THEN SubSeq(stack, 1, f.return_sp) ELSE stack
  <2>1. call_stack # <<>>
    BY EmptySeq DEF Depth
  <2> QED
    BY <2>1 DEF Return
<1> HIDE DEF w, f
<1> DEFINE t == f.return_sp
<1>7. t \in Nat /\ t = Len(w) + X.args
  BY <1>2, <1>3, <1>5
<1> HIDE DEF t
<1>8. Len(stack') = Len(w) + X.res /\ \A j \in 1 .. Len(w) : stack'[j] = w[j]
  <2>1. CASE X.height > X.args
    <3>1. t <= Len(stack) /\ Len(stack) > t
      BY <1>3, <1>5, <1>7, <2>1
    <3>2. stack' = SubSeq(stack, 1, t)
      BY <1>6, <3>1 DEF t
    <3>3. Len(stack') = t /\ \A j \in 1 .. t : stack'[j] = stack[j]
      BY <1>5, <1>7, <3>1, <3>2
    <3>4. X.res = X.args
      BY <1>3, <1>4, <2>1 DEF AtMost
    <3>5. \A j \in 1 .. Len(w) : j \in 1 .. t
      BY <1>3, <1>5, <1>7
    <3> QED
      BY <1>5, <1>7, <3>3, <3>4, <3>5
  <2>2. CASE ~(X.height > X.args)
    <3>1. ~(Len(stack) > t)
      BY <1>3, <1>5, <1>7, <2>2
    <3>2. stack' = stack
      BY <1>6, <3>1 DEF t
    <3>3. X.res = X.height
      BY <1>3, <1>4, <2>2 DEF AtMost
    <3> QED
      BY <1>5, <3>2, <3>3
  <2> QED
    BY <2>1, <2>2
<1>9. Begins(w, stack')
  <2>1. Len(w) <= Len(stack')
    BY <1>3, <1>5, <1>8
  <2> QED
    BY <1>8, <2>1 DEF Begins
<1>10. stack' \in Stacks
  BY ReturnOK DEF TypeOK, Stacks
<1> QED
  BY <1>2, <1>3, <1>8, <1>9, <1>10 DEF w

LEMMA ReturnKeepsNotes ==
  ASSUME TypeOK, Live, BalancedProgram, UNCHANGED program, active \in Seq(EntryType),
         NEW n \in Nat \ {0}, n = Len(active), n = Depth, LevelsBalanced, TopBalanced, Return,
         active' = SubSeq(active, 1, n - 1), call_stack[n].return_ip = active[n].site + 1
  PROVE  LevelsBalanced' /\ TopBalanced'
<1> DEFINE m == n - 1
<1>0. /\ call_stack # <<>> /\ m \in Nat /\ m <= Len(active) /\ m <= Len(call_stack)
      /\ call_stack \in Seq(FrameType)
  BY EmptySeq DEF Depth, TypeOK, FramesOK
<1>1. TheNote' = TheNote /\ program' = program
  BY SameNotes
<1>2. ip' = active[n].site + 1 /\ call_stack' = SubSeq(call_stack, 1, m)
  BY <1>0 DEF Return
<1>3. /\ Len(active') = m /\ \A k \in 1 .. m : active'[k] = active[k]
      /\ \A k \in 1 .. m : call_stack'[k] = call_stack[k]
  BY <1>0, <1>2
<1>4. /\ \A k \in 0 .. m : Waiting(k)' = Waiting(k)
      /\ \A k \in 0 .. m : Place(k)' = Place(k)
      /\ Place(m) = ip'
  <2>1. /\ m + 1 = n /\ m # n
        /\ \A k \in 0 .. m : k # n /\ (k # 0 => k \in 1 .. m) /\ (k # m => k + 1 \in 1 .. m)
    BY <1>0
  <2>2. \A k \in 0 .. m : Waiting(k)' = Waiting(k)
    BY <1>3, <2>1 DEF Waiting
  <2>3. Place(m) = ip'
    BY <1>2, <2>1 DEF Place
  <2>4. \A k \in 0 .. m : Place(k)' = Place(k)
    BY <1>2, <1>3, <2>1 DEF Place
  <2> QED
    BY <2>2, <2>3, <2>4
<1>5. \A k \in 0 .. m : NoteOf(k)' = NoteOf(k)
  BY <1>1, <1>4 DEF NoteOf
<1>6. X' = NoteOf(m)
  BY <1>1, <1>4 DEF X, NoteOf
<1>7. LevelsBalanced'
  <2> SUFFICES ASSUME NEW k \in 0 .. m PROVE Level(k)'
    BY <1>3 DEF LevelsBalanced
  <2>1. Level(k)
    BY <1>0 DEF LevelsBalanced
  <2>2. k # 0 => k - 1 \in 0 .. m /\ k \in 1 .. m
    BY <1>0
  <2> QED
    BY <1>1, <1>3, <1>4, <1>5, <2>1, <2>2 DEF Level, Begins
<1>8. TopBalanced'
  <2>1. /\ Begins(Waiting(n), stack') /\ Len(stack') = Len(Waiting(n)) + X.res
        /\ stack' \in Stacks
    BY ReturnCuts
  <2>2. Level(n) /\ n # 0 /\ NoteOf(n) = X
    BY DEF LevelsBalanced, NoteOf, Place, X
  <2>3. /\ Begins(Waiting(m), Waiting(n))
        /\ Len(Waiting(n)) + X.res = Len(Waiting(m)) + NoteOf(m).height
    BY <2>2 DEF Level
  <2>4. Waiting(m) \in Stacks /\ Waiting(n) \in Stacks
    <3>1. m \in 0 .. Len(active) /\ n \in 0 .. Len(active)
      BY <1>0
    <3> QED
      BY <3>1, WaitingTyped
  <2>5. Begins(Waiting(m), stack')
    BY <2>1, <2>3, <2>4, BeginsAgain
  <2>6. Len(stack') = Len(Waiting(m)) + NoteOf(m).height
    BY <2>1, <2>3
  <2>7. Waiting(Len(active))' = Waiting(m)
    BY <1>0, <1>3, <1>4
  <2> QED
    BY <1>6, <2>5, <2>6, <2>7 DEF TopBalanced, Begins
<1> QED
  BY <1>7, <1>8

-----------------------------------------------------------------------------
(***************************************************************************)
(* Subroutines and handlers that are entered, or not.                      *)
(***************************************************************************)
\* As long as the frames are as many as before nothing is entered or left.
LEMMA StaysInside ==
  ASSUME TypeOK, Instruction, Remember, RoomForFrame, NoResume, Depth' = Depth,
         Fetch.op # "RET"
  PROVE  active' = active
<1>1. Live
  BY InstructionHost
<1>2. Depth \in Nat /\ call_stack \in Seq(FrameType)
  BY DEF TypeOK, FramesOK, Depth
<1>3. ASSUME Pushing PROVE FALSE
  <2>1. \E s \in Stacks : call_stack' = Append(call_stack, Frame(ip + 1, s))
    BY <1>3 DEF Pushing
  <2>2. Depth' = Depth + 1
    BY <1>2, <2>1 DEF Depth
  <2> QED
    BY <1>2, <2>2
<1>4. ~Return
  BY DEF Return, At
<1>5. ~Overflowing
  BY <1>1, EffectOnHistory
<1>6. Keeping \/ Saving
  <2>1. SaveLocal => Saving
    BY SavingEffect
  <2> QED
    BY <1>3, <1>4, <1>5, <2>1, FrameEffect
<1>7. active' = IF At({"RESUME"}) /\ ~fatal_error /\ active # <<>>
                THEN SubSeq(active, 1, Len(active) - 1) ELSE active
  BY <1>1, <1>6, EffectOnHistory
<1> QED
  BY <1>7 DEF NoResume

\* A handled error enters the handler, with a frame that returns to the next
\* instruction.
LEMMA HandlerEntered ==
  ASSUME TypeOK, TypeOK', Live, Remember, RoomForFrame, Handled, Fetch.op \in FaultOps, ~Called,
         NEW c \in Int, NEW skip \in {0, 1}, RaiseError(c, stack', skip),
         At({"CALL"}) => UNCHANGED stack
  PROVE  /\ Entry \in EntryType /\ active' = Append(active, Entry)
         /\ Entry.site = ip /\ Entry.to = ip' /\ Entry.operands = Drop(stack', 0)
         /\ call_stack' = Append(call_stack, Frame(ip + 1, stack'))
         /\ Frame(ip + 1, stack') \in FrameType /\ Frame(ip + 1, stack').return_sp = Len(stack')
         /\ ip' = error_label + skip /\ SameHandler
<1>1. Depth < MaxDepth
  BY DEF RoomForFrame, At
<1>2. /\ call_stack' = PushFrame(ip + 1, stack') /\ ip' = error_label + skip /\ SameHandler
  BY DEF RaiseError, Trap, SameHandler
<1>3. call_stack' = Append(call_stack, Frame(ip + 1, stack'))
  BY <1>1, <1>2 DEF PushFrame
<1>4. /\ Frame(ip + 1, stack') \in FrameType /\ Frame(ip + 1, stack').return_sp = Len(stack')
  <2>1. Len(stack') \in 0 .. StackSize /\ ip + 1 \in Nat
    BY StackIsSeq DEF TypeOK, Stacks
  <2> QED
    BY <2>1 DEF Frame, FrameType
<1>5. Entered
  <2> DEFINE f == Frame(ip + 1, stack')
  <2> HIDE DEF f
  <2>1. Depth' = Depth + 1 /\ Depth \in Nat
    BY <1>3 DEF Depth, TypeOK, FramesOK, f
  <2> QED
    BY <2>1 DEF Entered
<1>6. active' = Append(active, Entry)
  BY <1>5, RememberStep DEF Live
<1>7. Entry.operands = Drop(stack', 0)
  BY DEF Entry
<1> QED
  BY <1>2, <1>3, <1>4, <1>6, <1>7, EntryTyped

\* What the stack of the innermost subroutine becomes.
LEMMA TopConsumes ==
  ASSUME TypeOK, Live, BalancedProgram, active \in Seq(EntryType), NEW n, n = Len(active),
         LevelsBalanced, TopBalanced,
         NEW pops \in 0 .. X.height, NEW leaves \in Nat, Consuming(pops, leaves)
  PROVE  /\ n \in Nat /\ ip \in DOMAIN TheNote /\ X \in Note /\ X.height \in Nat
         /\ Waiting(n) \in Stacks /\ Len(Waiting(n)) \in Nat
         /\ Len(stack') = Len(Waiting(n)) + X.height - pops + leaves
         /\ Begins(Waiting(n), stack')
         /\ Len(stack) \in Nat /\ X.height <= Len(stack)
<1> DEFINE w == Waiting(n)
<1>1. n \in 0 .. Len(active) /\ n \in Nat
  OBVIOUS
<1>2. Level(n) /\ Place(n) = ip
  BY <1>1 DEF LevelsBalanced, Place
<1>3. ip \in DOMAIN TheNote
  BY <1>2 DEF Level
<1>4. X \in Note /\ X.height \in Nat
  BY <1>3, NoteAt DEF X
<1>5. /\ w \in Stacks /\ Len(w) \in Nat
  BY <1>1, WaitingTyped
<1>6. /\ Len(stack) = Len(w) + X.height /\ \A j \in 1 .. Len(w) : stack[j] = w[j]
  BY DEF TopBalanced, Begins
<1>7. /\ Len(stack') = Len(stack) - pops + leaves
      /\ \A j \in 1 .. Len(stack) - pops : stack'[j] = stack[j]
  BY DEF Consuming
<1> HIDE DEF w
<1>8. Len(stack') = Len(w) + X.height - pops + leaves
  BY <1>4, <1>5, <1>6, <1>7
<1>9. Begins(w, stack')
  <2>1. Len(w) <= Len(stack') /\ \A j \in 1 .. Len(w) : j \in 1 .. Len(stack) - pops
    <3> DEFINE l == Len(w)
               x == X.height
    <3>1. /\ l \in Nat /\ x \in Nat /\ Len(stack) = l + x
          /\ Len(stack') = l + x - pops + leaves
      BY <1>4, <1>5, <1>6, <1>8
    <3>2. pops \in Nat /\ pops <= x
      BY <1>4
    <3> HIDE DEF l, x
    <3>3. l <= Len(stack) - pops /\ l <= Len(stack')
      BY <3>1, <3>2
    <3> QED
      BY <3>1, <3>2, <3>3 DEF l
  <2>2. \A j \in 1 .. Len(w) : stack'[j] = w[j]
    BY <1>6, <1>7, <2>1
  <2> QED
    BY <2>1, <2>2 DEF Begins
<1>10. Len(stack) \in Nat /\ X.height <= Len(stack)
  BY <1>4, <1>5, <1>6
<1> QED
  BY <1>1, <1>3, <1>4, <1>5, <1>8, <1>9, <1>10 DEF w

\* So a handler finds the stack as the instruction it returns to will.
LEMMA HandlerKeepsNotes ==
  ASSUME TypeOK, TypeOK', Live, BalancedProgram, UNCHANGED program,
         active \in Seq(EntryType), Len(active) = Depth, Noted,
         Remember, RoomForFrame, Handled, Fetch.op \in FaultOps, ~Called,
         NEW c \in Int, NEW skip \in {0, 1}, RaiseError(c, stack', skip),
         At({"CALL"}) => UNCHANGED stack,
         NEW pops \in 0 .. X.height, NEW leaves \in Nat, Consuming(pops, leaves),
         ip + 1 \in DOMAIN TheNote, TheNote[ip + 1] = Changed(X, pops, leaves)
  PROVE  /\ LevelsBalanced' /\ TopBalanced'
         /\ SameHandler
         /\ ip' \in {error_label, error_label + 1} /\ code[error_label + 1].op = "LABEL"
<1> DEFINE e == Entry
           f == Frame(ip + 1, stack')
           h == X.height - pops + leaves
<1> SUFFICES ASSUME NEW n, n = Len(active)
             PROVE  /\ LevelsBalanced' /\ TopBalanced'
                    /\ SameHandler
                    /\ ip' \in {error_label, error_label + 1} /\ code[error_label + 1].op = "LABEL"
  OBVIOUS
<1>1. /\ e \in EntryType /\ active' = Append(active, e)
      /\ e.site = ip /\ e.to = ip' /\ e.operands = Drop(stack', 0)
      /\ call_stack' = Append(call_stack, f) /\ f \in FrameType /\ f.return_sp = Len(stack')
      /\ ip' = error_label + skip /\ SameHandler
  BY HandlerEntered
<1>2. /\ n \in Nat /\ ip \in DOMAIN TheNote /\ X \in Note /\ X.height \in Nat
      /\ Waiting(n) \in Stacks /\ Len(Waiting(n)) \in Nat
      /\ Len(stack') = Len(Waiting(n)) + X.height - pops + leaves
      /\ Begins(Waiting(n), stack')
  BY TopConsumes DEF Noted
<1>3. /\ code[error_label + 1].op = "LABEL"
      /\ \A b \in {error_label, error_label + 1} :
           b \in DOMAIN TheNote /\ TheNote[b] = Base /\ b \notin program.functions
  BY DEF Noted, HandlerNoted, Handled
<1>4. ip' \in {error_label, error_label + 1}
  <2>1. error_label \in Int
    BY DEF TypeOK, ErrorsOK
  <2> QED
    BY <1>1, <2>1
<1>5. /\ ip' \in DOMAIN TheNote /\ TheNote[ip'] = [height |-> 0, args |-> 0, res |-> 0]
      /\ e.to \notin program.functions
  BY <1>1, <1>3, <1>4 DEF Base
<1>6. /\ TheNote[ip + 1].height = h
      /\ TheNote[ip + 1].args = X.args /\ TheNote[ip + 1].res = X.res
  <2>1. /\ Changed(X, pops, leaves).height = X.height - pops + leaves
        /\ Changed(X, pops, leaves).args = X.args /\ Changed(X, pops, leaves).res = X.res
    BY <1>2, ChangedNote
  <2> QED
    BY <2>1
<1>7. h \in Nat
  BY <1>2
<1>8. /\ Len(Waiting(n)) + 0 <= Len(stack')
      /\ Len(stack') - 0 + 0 = Len(Waiting(n)) + h
  <2> DEFINE w == Len(Waiting(n))
             l == Len(stack')
             x == X.height
  <2>1. w \in Nat /\ l = w + x - pops + leaves /\ x \in Nat
    BY <1>2
  <2>2. pops \in Nat /\ leaves \in Nat /\ h = x - pops + leaves
    OBVIOUS
  <2> HIDE DEF w, l, x, h
  <2>3. l = w + h
    BY <2>1, <2>2
  <2>4. w + 0 <= l /\ l - 0 + 0 = w + h
    BY <1>7, <2>1, <2>3
  <2> QED
    BY <2>4 DEF w, l
<1>9. stack' \in Stacks /\ LevelsBalanced
  BY DEF TypeOK, Stacks, Noted
<1> HIDE DEF e, f, h
<1>10. LevelsBalanced' /\ TopBalanced'
  <2> DEFINE args == 0
             res  == 0
  <2>1. args \in Nat /\ res \in {0, 1} /\ (e.to \in program.functions => res = 1)
    BY <1>5
  <2>2. /\ e.operands = Drop(stack', args) /\ Len(Waiting(n)) + args <= Len(stack')
        /\ TheNote[ip'] = [height |-> args, args |-> args, res |-> res]
        /\ Len(stack') - args + res = Len(Waiting(n)) + h
    BY <1>1, <1>5, <1>8
  <2> HIDE DEF args, res
  <2>3. TypeOK /\ stack' \in Stacks /\ LevelsBalanced /\ n = Depth /\ program' = program
    BY <1>9
  <2>4. /\ e \in EntryType /\ active' = Append(active, e) /\ e.site = ip
        /\ call_stack' = Append(call_stack, f) /\ f \in FrameType /\ f.return_sp = Len(stack')
    BY <1>1
  <2>5. Begins(Waiting(n), stack')
    BY <1>2
  <2>6. /\ ip' \in DOMAIN TheNote /\ ip + 1 \in DOMAIN TheNote
        /\ TheNote[ip + 1].height = h /\ h \in Nat
        /\ TheNote[ip + 1].args = X.args /\ TheNote[ip + 1].res = X.res
    BY <1>5, <1>6, <1>7
  <2> QED
    BY <2>1, <2>2, <2>3, <2>4, <2>5, <2>6, EnteringKeepsNotes, Zenon
<1> QED
  BY <1>1, <1>3, <1>4, <1>10

-----------------------------------------------------------------------------
(***************************************************************************)
(* What every instruction is given, if it does not end the program.        *)
(***************************************************************************)
Stepping ==
  /\ TypeOK /\ TypeOK' /\ Instruction /\ Remember /\ Live'
  /\ BalancedProgram /\ RoomForFrame /\ NoResume /\ RoomForOperands /\ NoFaultInExpression
  /\ active \in Seq(EntryType) /\ OneFrameEach /\ FramesFollowCalls
  /\ Noted

LEMMA SteppingFacts ==
  ASSUME Stepping
  PROVE  /\ TypeOK /\ TypeOK' /\ Live /\ UNCHANGED program /\ BalancedProgram
         /\ code' = code /\ TheNote' = TheNote
         /\ active \in Seq(EntryType) /\ Len(active) = Depth /\ Depth \in Nat
         /\ LevelsBalanced /\ TopBalanced
         /\ ip \in DOMAIN TheNote /\ ip \in Nat /\ X \in Note /\ X.height \in Nat
         /\ Sound(program, ip, X) /\ code[ip + 1] = Fetch /\ program.code = code
         /\ \A l \in Leads(program, ip, X) : l[1] \in DOMAIN TheNote /\ TheNote[l[1]] = l[2]
         /\ X.height <= Len(stack) /\ Len(stack) \in Nat
<1>1. TypeOK /\ TypeOK' /\ Live /\ UNCHANGED program /\ BalancedProgram
  BY InstructionHost DEF Stepping
<1>2. code' = code /\ TheNote' = TheNote
  BY <1>1, SameNotes
<1>3. active \in Seq(EntryType) /\ Len(active) = Depth /\ Depth \in Nat
  BY <1>1 DEF Stepping, OneFrameEach, Live, Depth, TypeOK, FramesOK
<1>4. LevelsBalanced /\ TopBalanced
  BY DEF Stepping, Noted
<1>6. ip \in DOMAIN TheNote
  <2>1. Level(Len(active)) /\ Place(Len(active)) = ip
    BY <1>3, <1>4 DEF LevelsBalanced, Place
  <2> QED
    BY <2>1 DEF Level
<1>7. /\ X \in Note /\ X.height \in Nat /\ Sound(program, ip, X)
      /\ \A l \in Leads(program, ip, X) : l[1] \in DOMAIN TheNote /\ TheNote[l[1]] = l[2]
  BY <1>1, <1>6, NoteAt DEF X
<1>8. X.height <= Len(stack) /\ Len(stack) \in Nat
  <2>1. Len(stack) = Len(Waiting(Len(active))) + X.height
    BY <1>4 DEF TopBalanced
  <2>2. Len(Waiting(Len(active))) \in Nat
    BY <1>3, WaitingTyped
  <2> QED
    BY <1>7, <2>1, <2>2
<1> QED
  BY <1>1, <1>2, <1>3, <1>4, <1>6, <1>7, <1>8 DEF Fetch, code, TypeOK

\* Nothing but a PUSH_CONST makes the labels of an ON GOTO.
LEMMA OthersKeepConstants ==
  ASSUME code' = code, stack' \in Stacks, ip' \in Nat,
         ip' = 0 \/ ip' \in Landings(code) \/ code[ip'].op # "PUSH_CONST"
  PROVE  ConstantsPushed'
<1> SUFFICES ASSUME NEW m \in Nat, Pushes(code, ip', m)
             PROVE  /\ m <= Len(stack')
                    /\ \A j \in 0 .. m - 1 : stack'[Len(stack') - j] = code[ip' - j].arg
  BY DEF ConstantsPushed, Pushes
<1>1. /\ m <= ip'
      /\ \A j \in 0 .. m - 1 : code[ip' - j].op = "PUSH_CONST" /\ ip' - j \notin Landings(code)
  BY DEF Pushes
<1>2. m = 0
  <2> SUFFICES ASSUME m # 0 PROVE FALSE
    OBVIOUS
  <2>1. 0 \in 0 .. m - 1
    OBVIOUS
  <2> DEFINE a == ip'
  <2>2. a - 0 = a
    <3>1. a \in Nat
      OBVIOUS
    <3> HIDE DEF a
    <3> QED
      BY <3>1
  <2> QED
    BY <1>1, <2>1, <2>2
<1>3. Len(stack') \in Nat
  BY StackIsSeq
<1> QED
  BY <1>2, <1>3

\* PUSH_CONST makes the last of them.
LEMMA PushKeepsConstants ==
  ASSUME TypeOK, Live, code' = code, ConstantsPushed, PushConst, Len(stack) < StackSize
  PROVE  ConstantsPushed'
<1> SUFFICES ASSUME NEW m \in Nat, Pushes(code, ip', m)
             PROVE  /\ m <= Len(stack')
                    /\ \A j \in 0 .. m - 1 : stack'[Len(stack') - j] = code[ip' - j].arg
  BY DEF ConstantsPushed, Pushes, Landings
<1>1. /\ ip \in Nat /\ ip' = ip + 1 /\ stack \in Seq(Int) /\ Len(stack) \in Nat
      /\ stack' = Append(stack, Fetch.arg)
  BY StackIsSeq DEF PushConst, Push, TypeOK, Advance
<1>2. /\ m <= ip'
      /\ \A j \in 0 .. m - 1 : code[ip' - j].op = "PUSH_CONST" /\ ip' - j \notin Landings(code)
  BY DEF Pushes
<1>3. /\ Len(stack') = Len(stack) + 1 /\ stack'[Len(stack) + 1] = Fetch.arg
      /\ \A k \in 1 .. Len(stack) : stack'[k] = stack[k]
  <2> DEFINE v == Fetch.arg
  <2> HIDE DEF v
  <2>1. stack' = Append(stack, v)
    BY <1>1 DEF v
  <2>2. /\ Len(stack') = Len(stack) + 1 /\ stack'[Len(stack) + 1] = v
        /\ \A k \in 1 .. Len(stack) : stack'[k] = stack[k]
    BY <1>1, <2>1
  <2> QED
    BY <2>2 DEF v
<1>4. CASE m = 0
  BY <1>1, <1>3, <1>4
<1>5. CASE m # 0
  <2>1. m - 1 \in Nat /\ m - 1 <= ip
    BY <1>1, <1>2, <1>5
  <2>2. ASSUME NEW j \in 0 .. m - 2
        PROVE  code[ip - j].op = "PUSH_CONST" /\ ip - j \notin Landings(code)
    <3>1. j + 1 \in 0 .. m - 1 /\ ip' - (j + 1) = ip - j
      BY <1>1
    <3> QED
      BY <1>2, <3>1
  <2>3. Pushes(code, ip, m - 1)
    BY <2>1, <2>2 DEF Pushes
  <2>4. m - 1 <= Len(stack) /\ \A j \in 0 .. m - 2 : stack[Len(stack) - j] = code[ip - j].arg
    BY <2>1, <2>3 DEF ConstantsPushed
  <2>5. ASSUME NEW j \in 0 .. m - 1 PROVE stack'[Len(stack') - j] = code[ip' - j].arg
    <3>1. CASE j = 0
      BY <1>1, <1>3, <3>1 DEF Fetch
    <3>2. CASE j # 0
      <4>1. /\ j - 1 \in 0 .. m - 2 /\ Len(stack') - j = Len(stack) - (j - 1)
            /\ ip' - j = ip - (j - 1)
        BY <1>1, <1>3, <3>2
      <4>2. Len(stack) - (j - 1) \in 1 .. Len(stack)
        BY <1>1, <2>4, <4>1
      <4>3. stack[Len(stack) - (j - 1)] = code[ip - (j - 1)].arg
        BY <2>4, <4>1
      <4>4. stack'[Len(stack) - (j - 1)] = stack[Len(stack) - (j - 1)]
        BY <1>3, <4>2
      <4> QED
        BY <4>1, <4>3, <4>4
    <3> QED
      BY <3>1, <3>2
  <2>6. m <= Len(stack')
    <3> DEFINE l == Len(stack')
    <3>1. l = Len(stack) + 1 /\ m - 1 <= Len(stack)
      BY <1>3, <2>4
    <3> HIDE DEF l
    <3>2. m <= l
      BY <1>1, <3>1
    <3> QED
      BY <3>2 DEF l
  <2> QED
    BY <2>5, <2>6
<1> QED
  BY <1>4, <1>5

\* The handler is as good as it was.
LEMMA SameHandlerNoted ==
  ASSUME UNCHANGED program, SameHandler, HandlerNoted
  PROVE  HandlerNoted'
BY SameNotes DEF SameHandler, HandlerNoted

\* An instruction that stays in its subroutine.
LEMMA StayingKeepsNotes ==
  ASSUME Stepping, Fetch.op # "RET", SameHeights,
         NEW pops \in 0 .. X.height, NEW leaves \in Nat, Consuming(pops, leaves),
         ip' \in DOMAIN TheNote, TheNote[ip'] = Changed(X, pops, leaves)
  PROVE  LevelsBalanced' /\ TopBalanced'
<1>1. active' = active
  BY StaysInside DEF Stepping, SameHeights
<1> QED
  BY <1>1, SteppingFacts, GoingKeepsNotes

\* Behind a label that is noted as a beginning the note is the same.
LEMMA LabelNote ==
  ASSUME TypeOK, Live, BalancedProgram, NEW b \in DOMAIN TheNote, TheNote[b] = Base,
         code[b + 1].op = "LABEL"
  PROVE  b + 1 \in DOMAIN TheNote /\ TheNote[b + 1] = Base
<1> DEFINE i == code[b + 1]
<1>1. Base \in Note /\ Base.height = 0 /\ Changed(Base, 0, 0) = Base
  BY ChangedNote DEF Base, Note
<1>2. Sound(program, b, Base) /\ program.code = code
  BY NoteAt DEF code
<1>3. Passed(i, Base) # {}
  BY <1>2 DEF Sound, Ends
<1>4. PICK u \in (0 .. Base.height) \X (0 .. 4) : Uses(i, Base.height, u[1], u[2])
  BY <1>3 DEF Passed
<1>5. u[1] = 0 /\ u[2] = 0
  <2>1. i.op \in InertOps
    BY DEF InertOps
  <2> HIDE DEF i
  <2> QED
    BY <1>4, <2>1, UsesOfGroups
<1>6. Base \in Passed(i, Base)
  BY <1>1, <1>4, <1>5 DEF Passed
<1>7. <<b + 1, Base>> \in Leads(program, b, Base)
  BY <1>2, <1>6 DEF Leads, Ends
<1> DEFINE l == <<b + 1, Base>>
<1>8. l[1] \in DOMAIN TheNote /\ TheNote[l[1]] = l[2]
  <2>1. l \in Leads(program, b, TheNote[b])
    BY <1>7
  <2> HIDE DEF l
  <2> QED
    BY <2>1, NoteAt
<1> QED
  BY <1>8

\* ON ERROR arms a handler that begins as the main program does.
LEMMA OnErrorNotes ==
  ASSUME Stepping, OnError
  PROVE  HandlerNoted'
<1>1. /\ TypeOK /\ Live /\ BalancedProgram /\ program' = program
      /\ code' = code /\ TheNote' = TheNote /\ Sound(program, ip, X)
      /\ ip \in DOMAIN TheNote /\ code[ip + 1] = Fetch /\ program.code = code
      /\ \A l \in Leads(program, ip, X) : l[1] \in DOMAIN TheNote /\ TheNote[l[1]] = l[2]
  BY SteppingFacts
<1>2. Fetch.op = "ON_ERROR"
  BY DEF OnError, At
<1> SUFFICES ASSUME error_label' >= 0
             PROVE  /\ code[error_label' + 1].op = "LABEL"
                    /\ \A b \in {error_label', error_label' + 1} :
                         b \in DOMAIN TheNote /\ TheNote[b] = Base /\ b \notin program.functions
  BY <1>1 DEF HandlerNoted
<1> DEFINE b == error_label'
<1>3. b \in Handling(code, Fetch) /\ code[b + 1].op = "LABEL"
  <2> DEFINE found == IF Fetch.n < 0 THEN {} ELSE Labelled(Fetch.n)
  <2>0. b = IF Fetch.arg >= 0 THEN Fetch.arg ELSE IF found # {} THEN FirstOf(found) ELSE -1
    BY DEF OnError
  <2>1. CASE Fetch.arg >= 0
    <3>1. WellFormed(program) /\ ip + 1 \in 1 .. Len(code)
      BY <1>1, FetchType
    <3>2. \/ Fetch.arg = -1 
          \/ code[Fetch.arg + 1].op = "LABEL"
      BY <1>2, <3>1 DEF WellFormed, code, Fetch
    <3> QED
      BY <2>0, <2>1, <3>2 DEF Handling
  <2>2. CASE ~(Fetch.arg >= 0)
    <3>1. found # {} /\ b = FirstOf(found)
      BY <2>0, <2>2
    <3>2. /\ found = Labelled(Fetch.n) /\ ~(Fetch.n < 0)
          /\ Labelled(Fetch.n) = LabelsOfNo(code, Fetch.n)
      BY <3>1 DEF Labelled, LabelsOfNo
    <3>3. b \in found
      <4>1. found \subseteq Nat
        BY <3>2 DEF Labelled
      <4> HIDE DEF found, b
      <4> QED
        BY <3>1, <4>1, FirstOfIn
    <3>4. Fetch.n \in Int
      BY <1>1, FetchType DEF Instr
    <3>5. Fetch.n >= 0
      BY <3>2, <3>4
    <3> QED
      BY <2>2, <3>1, <3>2, <3>3, <3>5 DEF Handling, Labelled
  <2> QED
    BY <2>1, <2>2
<1> HIDE DEF b
<1>4. b \in DOMAIN TheNote /\ TheNote[b] = Base
  <2> DEFINE l == <<b, Base>>
  <2>1. l \in Leads(program, ip, X)
    BY <1>1, <1>2, <1>3 DEF Leads, Ends
  <2>2. l[1] \in DOMAIN TheNote /\ TheNote[l[1]] = l[2]
    BY <1>1, <2>1
  <2> QED
    BY <2>2
<1>5. b + 1 \in DOMAIN TheNote /\ TheNote[b + 1] = Base
  BY <1>1, <1>3, <1>4, LabelNote
<1>6. b \notin program.functions /\ b + 1 \notin program.functions
  BY <1>1, <1>2, <1>3 DEF Sound, Ends
<1> QED
  BY <1>3, <1>4, <1>5, <1>6 DEF b

\* An error of an instruction that is no call and in no expression.
LEMMA FaultNotes ==
  ASSUME Stepping, Fetch.op \in FaultOps, ~Called,
         NEW c \in Int, NEW skip \in {0, 1}, RaiseError(c, stack', skip),
         At({"CALL"}) => UNCHANGED stack,
         NEW pops \in 0 .. X.height, NEW leaves \in Nat, Consuming(pops, leaves),
         ip + 1 \in DOMAIN TheNote, TheNote[ip + 1] = Changed(X, pops, leaves)
  PROVE  Noted'
<1>1. Handled
  BY UnhandledEnds DEF Stepping
<1>2. /\ TypeOK /\ TypeOK' /\ Live /\ BalancedProgram /\ program' = program
      /\ code' = code /\ TheNote' = TheNote
      /\ active \in Seq(EntryType) /\ Len(active) = Depth
      /\ Noted /\ Remember /\ RoomForFrame
  BY SteppingFacts DEF Stepping
<1>3. /\ LevelsBalanced' /\ TopBalanced' /\ SameHandler
      /\ ip' \in {error_label, error_label + 1} /\ code[error_label + 1].op = "LABEL"
  BY <1>1, <1>2, HandlerKeepsNotes
<1>4. HandlerNoted'
  BY <1>2, <1>3, SameHandlerNoted DEF Noted
<1>5. ConstantsPushed'
  <2>1. stack' \in Stacks /\ ip' \in Nat
    BY <1>2 DEF TypeOK
  <2>2. error_label \in 0 .. Len(code) - 1 /\ Len(code) \in Nat
    <3>1. error_label \in DOMAIN TheNote
      BY <1>1, <1>2 DEF Noted, HandlerNoted, Handled
    <3> QED
      BY <1>2, <3>1, NoteAt, FetchType
  <2>3. CASE ip' = error_label + 1
    BY <1>2, <1>3, <2>1, <2>3, OthersKeepConstants
  <2>4. CASE ip' = error_label
    <3> DEFINE k == error_label + 1
    <3>1. k \in 1 .. Len(code) /\ code[k].op = "LABEL" /\ k - 1 = ip'
      BY <1>3, <2>2, <2>4
    <3>2. code \in Seq(Instr)
      BY <1>2, FetchType DEF WellFormed, code
    <3> HIDE DEF k
    <3>3. k \in DOMAIN code
      BY <3>1, <3>2
    <3>4. ip' \in Landings(code)
      BY <3>1, <3>3 DEF Landings
    <3> QED
      BY <1>2, <2>1, <3>4, OthersKeepConstants
  <2> QED
    BY <1>3, <2>3, <2>4
<1> QED
  BY <1>3, <1>4, <1>5 DEF Noted

\* What executes the instructions that go elsewhere.
LEMMA OtherWaysOnly ==
  ASSUME Instruction, Fetch.op \in OtherWays \cup {"PUSH_CONST"}
  PROVE  \/ PushConst \/ Jump \/ JumpIf \/ Call \/ Return \/ OnGoto
         \/ End \/ Stop \/ Quit \/ Raise \/ Resume
<1> DEFINE op == Fetch.op
<1>1. op \in {"END", "STOP", "QUIT", "RESUME", "JMP", "JMP_IF_FALSE", "JMP_IF_TRUE", "FATAL",
              "CALL", "RET", "ON_GOTO", "ON_GOSUB", "PUSH_CONST"}
  BY DEF OtherWays, Ends
<1>2. ~(PushString \/ PushVar \/ Pop \/ PopStore \/ Dup \/ Swap \/ ArrayLoad \/ ArrayStore)
  BY <1>1 DEF PushString, PushVar, Pop, PopStore, Dup, Swap, ArrayLoad, ArrayStore, At
<1>3. ~(BinaryOp \/ Negate \/ Divide)
  BY <1>1 DEF BinaryOp, Negate, Divide, At, Arithmetic, Comparisons, Logic, Divisions
<1>4. ~(SaveLocal \/ BindRef \/ Marker \/ OnError)
  BY <1>1 DEF SaveLocal, BindRef, Marker, OnError, At
<1>5. ~Statement
  BY <1>1 DEF Statement, At, RowOps, PrintOps, TransferOps, ScreenOps,
              ChannelOps, MemoryOps, SystemOps, ArrayOps, GfxOps, WindowOps
<1>6. ~(Poly \/ InputVar \/ Dim \/ EraseVar \/ ClearAll \/ Mat \/ MatExpr
        \/ ReadData \/ Restore \/ Builtin \/ Chain)
  BY <1>1 DEF Poly, InputVar, Dim, EraseVar, ClearAll, Mat, MatExpr, ReadData,
              Restore, Builtin, Chain, At
<1> QED
  BY <1>2, <1>3, <1>4, <1>5, <1>6 DEF Instruction

\* The instructions that go on to the next one.
LEMMA StraightNotes ==
  ASSUME Stepping, Straight
  PROVE  Noted'
<1>1. /\ TypeOK /\ TypeOK' /\ Live /\ BalancedProgram /\ program' = program
      /\ code' = code /\ TheNote' = TheNote
      /\ ip \in DOMAIN TheNote /\ ip \in Nat /\ X.height \in Nat /\ X.height <= Len(stack)
      /\ code[ip + 1] = Fetch
  BY SteppingFacts
<1>2. PICK pops \in 0 .. X.height, leaves \in 0 .. 4 :
        /\ Uses(Fetch, X.height, pops, leaves)
        /\ ip + 1 \in DOMAIN TheNote
        /\ TheNote[ip + 1] = Changed(X, pops, leaves)
  BY <1>1, StraightNote
<1>3. Ready(X.height, pops, leaves)
  BY <1>1, <1>2 DEF Ready, Stepping
<1>4. Consuming(pops, leaves) /\ (Walking \/ Raised)
  BY <1>3, ReadyGoes DEF Stepping
<1>5. leaves \in Nat
  OBVIOUS
<1>6. CASE Raised
  <2>1. PICK c \in Int, skip \in {0, 1} : RaiseError(c, stack', skip)
    BY <1>6 DEF Raised
  <2>2. Fetch.op \in FaultOps /\ ~Called /\ ~At({"CALL"})
    BY <1>6 DEF Raised, Called, At, CallOps
  <2> QED
    BY <1>2, <1>4, <1>5, <2>1, <2>2, FaultNotes
<1>7. CASE Walking
  <2>1. ip' = ip + 1 /\ SameHeights /\ Fetch.op # "RET"
    BY <1>7 DEF Walking, Advance, Straight, OtherWays
  <2>2. LevelsBalanced' /\ TopBalanced'
    BY <1>2, <1>4, <1>5, <2>1, StayingKeepsNotes
  <2>3. HandlerNoted'
    <3>1. CASE OnError
      BY <3>1, OnErrorNotes
    <3>2. CASE SameHandler
      BY <1>1, <3>2, SameHandlerNoted DEF Stepping, Noted
    <3> QED
      BY <1>7, <3>1, <3>2 DEF Walking
  <2>4. ConstantsPushed'
    <3>1. CASE Fetch.op = "PUSH_CONST"
      <4>1. PushConst
        <5>1. \/ PushConst \/ Jump \/ JumpIf \/ Call \/ Return \/ OnGoto
              \/ End \/ Stop \/ Quit \/ Raise \/ Resume
          BY <3>1, OtherWaysOnly DEF Stepping
        <5> QED
          BY <3>1, <5>1 DEF Jump, JumpIf, Call, Return, OnGoto, End, Stop, Quit, Raise, Resume, At
      <4>2. Len(stack) < StackSize
        BY <1>3, ReadyFacts
      <4> QED
        BY <1>1, <4>1, <4>2, PushKeepsConstants DEF Stepping, Noted
    <3>2. CASE Fetch.op # "PUSH_CONST"
      BY <1>1, <2>1, <3>2, OthersKeepConstants DEF TypeOK
    <3> QED
      BY <3>1, <3>2
  <2> QED
    BY <2>2, <2>3, <2>4 DEF Noted
<1> QED
  BY <1>4, <1>6, <1>7

\* A call makes an entry with what waits below its arguments.
LEMMA CalledEntered ==
  ASSUME TypeOK, TypeOK', Live, Remember, RoomForFrame, Called,
         call_stack' = PushFrame(ip + 1, stack'), At({"CALL"}) => stack' = stack
  PROVE  /\ Entry \in EntryType /\ active' = Append(active, Entry)
         /\ Entry.site = ip /\ Entry.to = ip'
         /\ Entry.operands = Drop(stack', Cardinality(Receivers(ip')))
         /\ call_stack' = Append(call_stack, Frame(ip + 1, stack'))
         /\ Frame(ip + 1, stack') \in FrameType /\ Frame(ip + 1, stack').return_sp = Len(stack')
<1>1. Depth < MaxDepth
  BY DEF RoomForFrame, Called, At, CallOps
<1>2. call_stack' = Append(call_stack, Frame(ip + 1, stack'))
  BY <1>1 DEF PushFrame
<1>3. /\ Frame(ip + 1, stack') \in FrameType /\ Frame(ip + 1, stack').return_sp = Len(stack')
  <2>1. Len(stack') \in 0 .. StackSize /\ ip + 1 \in Nat
    BY StackIsSeq DEF TypeOK, Stacks
  <2> QED
    BY <2>1 DEF Frame, FrameType
<1>4. active' = Append(active, Entry)
  BY RememberStep DEF Live, Entered
<1>5. Entry.operands = Drop(stack', Cardinality(Receivers(ip'))) /\ Entry.to = ip'
  BY DEF Entry
<1> QED
  BY <1>2, <1>3, <1>4, <1>5, EntryTyped

\* So the subroutine begins with its arguments on the stack, and the note of
\* the next instruction is that of the moment it will be back.
LEMMA CalledNotes ==
  ASSUME Stepping, Called, call_stack' = PushFrame(ip + 1, stack'),
         At({"CALL"}) => stack' = stack, SameHandler,
         NEW pops \in Nat, NEW args \in Nat, NEW res \in {0, 1},
         args = Cardinality(Receivers(ip')), pops + args <= X.height, Consuming(pops, 0),
         ip' \in DOMAIN TheNote, TheNote[ip'] = [height |-> args, args |-> args, res |-> res],
         ip + 1 \in DOMAIN TheNote, TheNote[ip + 1] = Changed(X, pops + args, res),
         ip' \in program.functions => res = 1,
         ip' \in Landings(code) \/ code[ip'].op # "PUSH_CONST"
  PROVE  Noted'
<1> DEFINE e == Entry
           f == Frame(ip + 1, stack')
           h == X.height - (pops + args) + res
<1> SUFFICES ASSUME NEW n, n = Len(active)
             PROVE  Noted'
  OBVIOUS
<1>1. /\ TypeOK /\ TypeOK' /\ Live /\ BalancedProgram /\ program' = program
      /\ code' = code /\ TheNote' = TheNote
      /\ active \in Seq(EntryType) /\ Len(active) = Depth
      /\ LevelsBalanced /\ TopBalanced /\ X \in Note /\ X.height \in Nat
      /\ HandlerNoted /\ Remember /\ RoomForFrame /\ stack' \in Stacks
  BY SteppingFacts DEF Stepping, Noted, TypeOK
<1>2. /\ e \in EntryType /\ active' = Append(active, e)
      /\ e.site = ip /\ e.to = ip' /\ e.operands = Drop(stack', args)
      /\ call_stack' = Append(call_stack, f) /\ f \in FrameType /\ f.return_sp = Len(stack')
  BY <1>1, CalledEntered
<1>3. pops \in 0 .. X.height /\ 0 \in Nat
  BY <1>1
<1>4. /\ Len(Waiting(n)) \in Nat
      /\ Len(stack') = Len(Waiting(n)) + X.height - pops + 0
      /\ Begins(Waiting(n), stack')
  BY <1>1, <1>3, TopConsumes
<1>5. /\ TheNote[ip + 1].height = h
      /\ TheNote[ip + 1].args = X.args /\ TheNote[ip + 1].res = X.res
  <2> DEFINE p == pops + args
  <2>1. p \in 0 .. X.height /\ res \in Nat
    BY <1>1
  <2> HIDE DEF p
  <2>2. /\ Changed(X, p, res).height = X.height - p + res
        /\ Changed(X, p, res).args = X.args /\ Changed(X, p, res).res = X.res
    BY <1>1, <2>1, ChangedNote
  <2> QED
    BY <2>2 DEF p
<1>6. h \in Nat
  BY <1>1
<1>7. /\ Len(Waiting(n)) + args <= Len(stack')
      /\ Len(stack') - args + res = Len(Waiting(n)) + h
  <2> DEFINE w == Len(Waiting(n))
             l == Len(stack')
             x == X.height
  <2>1. w \in Nat /\ x \in Nat /\ l = w + x - pops + 0 /\ pops + args <= x
    BY <1>1, <1>4
  <2>2. h = x - (pops + args) + res
    OBVIOUS
  <2>3. pops \in Nat /\ args \in Nat /\ res \in Nat
    BY <1>1
  <2> HIDE DEF w, l, x, h
  <2> DEFINE q == x - (pops + args)
  <2>4. l - args = w + q /\ w + args <= l /\ q \in Nat
    BY <2>1, <2>3
  <2> HIDE DEF q
  <2>5. l - args + res = w + h
    <3>1. h = q + res
      BY <2>2 DEF q
    <3> QED
      BY <2>1, <2>3, <2>4, <3>1
  <2> QED
    BY <2>4, <2>5 DEF w, l, x, h
<1> HIDE DEF e, f, h
<1>8. LevelsBalanced' /\ TopBalanced'
  <2>1. n = Depth /\ (e.to \in program.functions => res = 1)
    BY <1>1, <1>2
  <2> QED
    BY <1>1, <1>2, <1>4, <1>5, <1>6, <1>7, <2>1, EnteringKeepsNotes, Zenon
<1>9. HandlerNoted'
  BY <1>1, SameHandlerNoted
<1>10. ConstantsPushed'
  BY <1>1, OthersKeepConstants DEF TypeOK
<1> QED
  BY <1>8, <1>9, <1>10 DEF Noted

\* A constant of the notes.
LEMMA ArgumentsAre ==
  ASSUME TypeOK, Live, NEW a \in Nat
  PROVE  Arguments(code, a) = Cardinality(Receivers(a)) /\ Cardinality(Receivers(a)) \in Nat
<1>1. Arguments(code, a) = Cardinality(Receivers(a))
  BY DEF Arguments, Receivers, Body
<1>2. Body(a) \in Int /\ Len(code) - 1 \in Int
  BY FetchType DEF Body
<1>3. Receivers(a) \subseteq Body(a) .. Len(code) - 1
  BY DEF Receivers
<1>4. IsFiniteSet(Receivers(a))
  BY <1>2, <1>3, FS_Interval, FS_Subset
<1> QED
  BY <1>1, <1>4, FS_CardinalityType

\* Where an instruction leads is noted.
LEMMA Led ==
  ASSUME Stepping, NEW b, NEW y, <<b, y>> \in Leads(program, ip, X)
  PROVE  b \in DOMAIN TheNote /\ TheNote[b] = y
<1> DEFINE l == <<b, y>>
<1>1. l[1] \in DOMAIN TheNote /\ TheNote[l[1]] = l[2]
  BY SteppingFacts
<1> QED
  BY <1>1

\* The target of an instruction is a landing.
LEMMA TargetLands ==
  ASSUME TypeOK, Live, Fetch.op \in {"JMP", "JMP_IF_FALSE", "JMP_IF_TRUE", "CALL"}
  PROVE  Fetch.arg \in Landings(code)
<1>1. ip + 1 \in DOMAIN code
  BY FetchType DEF WellFormed, code
<1> QED
  BY <1>1 DEF Landings, Fetch

\* Nothing is popped.
LEMMA NothingConsumed ==
  ASSUME TypeOK, stack' = stack
  PROVE  Consuming(0, 0)
BY StackIsSeq DEF TypeOK, Consuming

LEMMA JumpNotes ==
  ASSUME Stepping, Jump
  PROVE  Noted'
<1>1. /\ TypeOK /\ TypeOK' /\ Live /\ program' = program /\ code' = code
      /\ X \in Note /\ X.height \in Nat /\ code[ip + 1] = Fetch /\ program.code = code
  BY SteppingFacts
<1>2. Fetch.op = "JMP" /\ stack' = stack
  BY DEF Jump, At
<1>3. Consuming(0, 0) /\ 0 \in 0 .. X.height /\ 0 \in Nat /\ Changed(X, 0, 0) = X
  BY <1>1, <1>2, NothingConsumed, ChangedNote
<1>4. Leads(program, ip, X) = {<<IF Fetch.arg >= 0 THEN Fetch.arg ELSE ip + 1, X>>}
  BY <1>1, <1>2 DEF Leads, Ends
<1>5. Fetch.arg \in Int
  BY <1>1, FetchType
<1>6. CASE Fetch.arg < 0
  <2>1. RaiseError(9, stack', 0)
    BY <1>2, <1>6 DEF Jump
  <2>2. ip + 1 \in DOMAIN TheNote /\ TheNote[ip + 1] = X
    BY <1>4, <1>5, <1>6, Led
  <2>3. Fetch.op \in FaultOps /\ ~Called
    BY <1>2 DEF FaultOps, Called, At
  <2>4. 9 \in Int /\ 0 \in {0, 1}
    OBVIOUS
  <2> QED
    BY <1>2, <1>3, <2>1, <2>2, <2>3, <2>4, FaultNotes
<1>7. CASE ~(Fetch.arg < 0)
  <2>1. ip' = Fetch.arg /\ Plain
    BY <1>7 DEF Jump
  <2>2. ip' \in DOMAIN TheNote /\ TheNote[ip'] = X
    BY <1>4, <1>5, <1>7, <2>1, Led
  <2>3. SameHeights /\ SameHandler
    BY <2>1 DEF Plain, Quiet, errors, SameHeights, SameHandler, Depth
  <2>4. LevelsBalanced' /\ TopBalanced'
    BY <1>2, <1>3, <2>2, <2>3, StayingKeepsNotes
  <2>5. ConstantsPushed'
    BY <1>1, <1>2, <2>1, TargetLands, OthersKeepConstants DEF TypeOK
  <2>6. HandlerNoted'
    BY <1>1, <2>3, SameHandlerNoted DEF Stepping, Noted
  <2> QED
    BY <2>4, <2>5, <2>6 DEF Noted
<1> QED
  BY <1>6, <1>7

LEMMA JumpIfNotes ==
  ASSUME Stepping, JumpIf
  PROVE  Noted'
<1>1. /\ TypeOK /\ TypeOK' /\ Live /\ program' = program /\ code' = code
      /\ X \in Note /\ X.height \in Nat /\ code[ip + 1] = Fetch /\ program.code = code
      /\ Sound(program, ip, X) /\ X.height <= Len(stack) /\ Len(stack) \in Nat
  BY SteppingFacts
<1>2. Fetch.op \in {"JMP_IF_FALSE", "JMP_IF_TRUE"} /\ stack' = Drop(stack, 1) /\ Plain
  BY DEF JumpIf, At
<1>3. X.height > 0
  <2>1. Passed(Fetch, X) = {}
    BY <1>2, OtherWaysApart DEF OtherWays
  <2> QED
    BY <1>1, <1>2, <2>1 DEF Sound, Ends
<1>4. 1 \in 0 .. X.height /\ 0 \in Nat /\ Consuming(1, 0)
  BY <1>1, <1>2, <1>3, Dropping DEF TypeOK
<1> DEFINE y == Changed(X, 1, 0)
<1>5. Leads(program, ip, X) = {<<ip + 1, y>>, <<Fetch.arg, y>>}
  BY <1>1, <1>2 DEF Leads, Ends
<1>6. ip' \in {ip + 1, Fetch.arg}
  BY DEF JumpIf, Advance
<1> HIDE DEF y
<1>7. ip' \in DOMAIN TheNote /\ TheNote[ip'] = y
  BY <1>5, <1>6, Led
<1>8. SameHeights /\ SameHandler /\ Fetch.op # "RET"
  BY <1>2 DEF Plain, Quiet, errors, SameHeights, SameHandler, Depth
<1>9. LevelsBalanced' /\ TopBalanced'
  BY <1>4, <1>7, <1>8, StayingKeepsNotes DEF y
<1>10. ConstantsPushed'
  <2>1. ip' \in Landings(code) \/ code[ip'].op # "PUSH_CONST"
    BY <1>1, <1>2, <1>6, TargetLands
  <2> QED
    BY <1>1, <2>1, OthersKeepConstants DEF TypeOK
<1>11. HandlerNoted'
  BY <1>1, <1>8, SameHandlerNoted DEF Stepping, Noted
<1> QED
  BY <1>9, <1>10, <1>11 DEF Noted

LEMMA CallNotes ==
  ASSUME Stepping, Call
  PROVE  Noted'
<1>1. /\ TypeOK /\ TypeOK' /\ Live /\ program' = program /\ code' = code
      /\ X \in Note /\ X.height \in Nat /\ code[ip + 1] = Fetch /\ program.code = code
      /\ Sound(program, ip, X)
  BY SteppingFacts
<1>2. Fetch.op = "CALL" /\ stack' = stack /\ At({"CALL"})
  BY DEF Call, At
<1>3. Consuming(0, 0) /\ 0 \in 0 .. X.height /\ 0 \in Nat /\ Changed(X, 0, 0) = X
  BY <1>1, <1>2, NothingConsumed, ChangedNote
<1>4. Fetch.arg \in Int
  BY <1>1, FetchType
<1>5. CASE Fetch.arg < 0
  <2>1. RaiseError(9, stack', 0)
    BY <1>2, <1>5 DEF Call
  <2>2. <<ip + 1, X>> \in Leads(program, ip, X)
    BY <1>1, <1>2, <1>5 DEF Leads, Ends
  <2>3. ip + 1 \in DOMAIN TheNote /\ TheNote[ip + 1] = X
    BY <2>2, Led
  <2>4. Fetch.op \in FaultOps /\ ~Called
    BY <1>2, <1>4, <1>5 DEF FaultOps, Called, At
  <2>5. 9 \in Int /\ 0 \in {0, 1}
    OBVIOUS
  <2> QED
    BY <1>2, <1>3, <2>1, <2>3, <2>4, <2>5, FaultNotes
<1>6. CASE ~(Fetch.arg < 0)
  <2> DEFINE args == Arguments(code, Fetch.arg)
             res  == Result(program, Fetch.arg)
  <2>1. Depth < MaxDepth
    BY <1>2 DEF Stepping, RoomForFrame, At, CallOps
  <2>2. /\ ip' = Fetch.arg /\ Quiet /\ call_stack' = PushFrame(ip + 1, stack')
    BY <1>2, <1>6, <2>1 DEF Call
  <2>3. Fetch.arg \in Nat /\ Called
    BY <1>2, <1>4, <1>6, <2>1 DEF Called
  <2>4. args \in Nat /\ args = Cardinality(Receivers(ip'))
    BY <1>1, <2>2, <2>3, ArgumentsAre
  <2>5. res \in {0, 1} /\ (ip' \in program.functions => res = 1)
    BY <2>2 DEF Result
  <2>6. args <= X.height
    <3>1. Passed(Fetch, X) = {}
      BY <1>2, OtherWaysApart DEF OtherWays
    <3> QED
      BY <1>1, <1>2, <2>3, <3>1 DEF Sound, Ends
  <2>7. /\ <<Fetch.arg, [height |-> args, args |-> args, res |-> res]>> \in Leads(program, ip, X)
        /\ <<ip + 1, Changed(X, args, res)>> \in Leads(program, ip, X)
    BY <1>1, <1>2, <1>6 DEF Leads, Ends
  <2> HIDE DEF args, res
  <2>8. /\ ip' \in DOMAIN TheNote /\ TheNote[ip'] = [height |-> args, args |-> args, res |-> res]
        /\ ip + 1 \in DOMAIN TheNote /\ TheNote[ip + 1] = Changed(X, args, res)
    BY <2>2, <2>7, Led
  <2>9. SameHandler
    BY <2>2 DEF Quiet, errors, SameHandler
  <2>10. ip' \in Landings(code)
    BY <1>1, <1>2, <2>2, TargetLands
  <2>11. 0 + args <= X.height /\ 0 + args = args
    BY <2>4, <2>6
  <2> QED
    BY <1>2, <1>3, <2>2, <2>3, <2>4, <2>5, <2>8, <2>9, <2>10, <2>11, CalledNotes
<1> QED
  BY <1>5, <1>6

\* ON GOTO and ON GOSUB find the labels that were pushed for them.
LEMMA OnGotoChooses ==
  ASSUME Stepping, OnGoto
  PROVE  LET n == LabelCount(code, ip)
         IN  /\ n \in Nat /\ n + 2 <= X.height /\ stack' = Drop(stack, n + 2)
             /\ \/ Advance /\ UNCHANGED call_stack
                \/ /\ ip' \in Chosen(code, ip) /\ code[ip'].op = "LABEL" /\ ip' # ip + 1
                   /\ call_stack' = IF Fetch.op = "ON_GOSUB" THEN PushFrame(ip + 1, stack')
                                    ELSE call_stack
<1> DEFINE n == LabelCount(code, ip)
           sp == Len(stack)
<1>1. /\ TypeOK /\ Live /\ X.height \in Nat /\ code[ip + 1] = Fetch /\ program.code = code
      /\ Sound(program, ip, X) /\ X.height <= sp /\ sp \in Nat /\ ip \in Nat
  BY SteppingFacts
<1>2. Fetch.op \in {"ON_GOTO", "ON_GOSUB"}
  BY DEF OnGoto, At
<1>3. /\ n \in 1 .. MaxTargets /\ Pushes(code, ip, n + 1) /\ ToLong(n) = n /\ n + 2 <= X.height
  <2>1. Passed(Fetch, X) = {}
    BY <1>2, OtherWaysApart DEF OtherWays
  <2> QED
    BY <1>1, <1>2, <2>1 DEF Sound, Ends
<1>4. n \in Nat /\ n >= 1 /\ sp >= 3 /\ sp > n + 1
  <2>1. n \in 1 .. 32 /\ n + 2 <= X.height
    BY <1>3 DEF MaxTargets
  <2> HIDE DEF n, sp
  <2> QED
    BY <1>1, <2>1
<1>5. \A j \in 0 .. n : stack[sp - j] = code[ip - j].arg
  <2> HIDE DEF n
  <2> DEFINE m == n + 1
  <2>1. m \in Nat /\ m - 1 = n
    BY <1>4
  <2>2. Pushes(code, ip, m)
    BY <1>3
  <2> HIDE DEF m
  <2>3. \A j \in 0 .. m - 1 : stack[Len(stack) - j] = code[ip - j].arg
    BY <2>1, <2>2 DEF Stepping, Noted, ConstantsPushed
  <2> QED
    BY <2>1, <2>3
<1>6. Top(stack) = n
  <2>1. stack # <<>> /\ sp - 0 = sp /\ ip - 0 = ip /\ 0 \in 0 .. n
    BY <1>1, <1>4
  <2> QED
    BY <1>5, <2>1 DEF Top, LabelCount
<1> DEFINE index   == ToLong(stack[sp - n - 1])
           targets == IF index \in 1 .. n THEN Labelled(stack[sp - 1 - (n - index)]) ELSE {}
<1>7. /\ stack' = Drop(stack, n + 2)
      /\ IF targets = {} THEN Advance /\ UNCHANGED call_stack
         ELSE /\ ip' = FirstOf(targets) + 1
              /\ call_stack' = IF Fetch.op = "ON_GOSUB" THEN PushFrame(ip + 1, Drop(stack, n + 2))
                               ELSE call_stack
  <2>1. ~(sp < 3)
    BY <1>1, <1>4
  <2> HIDE DEF n
  <2> QED
    BY <1>3, <1>4, <1>6, <2>1 DEF OnGoto
<1>8. ASSUME targets # {}
      PROVE  /\ ip' \in Chosen(code, ip) /\ code[ip'].op = "LABEL" /\ ip' # ip + 1
  <2>1. index \in 1 .. n /\ targets = Labelled(stack[sp - 1 - (n - index)])
    BY <1>8
  <2> DEFINE j == n + 1 - index
             s == code[ip - j].arg
  <2>2. j \in 1 .. n /\ sp - 1 - (n - index) = sp - j
    <3> HIDE DEF index, n, sp
    <3> QED
      BY <1>1, <1>4, <2>1
  <2>3. stack[sp - j] = s
    <3>1. j \in 0 .. n
      BY <1>4, <2>2
    <3> HIDE DEF j, n
    <3> QED
      BY <1>5, <3>1
  <2>4. targets = LabelsOfNo(code, s)
    BY <2>1, <2>2, <2>3 DEF Labelled, LabelsOfNo
  <2> DEFINE first == FirstOf(LabelsOfNo(code, s))
  <2>5. first \in LabelsOfNo(code, s)
    <3>1. LabelsOfNo(code, s) \subseteq Nat
      BY DEF LabelsOfNo
    <3> QED
      BY <1>8, <2>4, <3>1, FirstOfIn
  <2>6. ip' = first + 1
    BY <1>7, <1>8, <2>4
  <2>7. first \in Nat /\ code[first + 1].op = "LABEL"
    <3> HIDE DEF first, s
    <3> QED
      BY <2>5 DEF LabelsOfNo
  <2>8. first # ip
    <3>1. code[ip + 1].op # "LABEL"
      BY <1>1, <1>2
    <3> HIDE DEF first
    <3> QED
      BY <2>7, <3>1
  <2>9. first + 1 \in Chosen(code, ip)
    <3> HIDE DEF j
    <3>1. j \in {i \in 1 .. LabelCount(code, ip) : LabelsOfNo(code, code[ip - i].arg) # {}}
      BY <1>8, <2>2, <2>4
    <3> QED
      BY <3>1 DEF Chosen
  <2> HIDE DEF first
  <2>10. ip' # ip + 1
    BY <1>1, <2>6, <2>7, <2>8
  <2> QED
    BY <2>6, <2>7, <2>9, <2>10
<1> HIDE DEF n, targets
<1> QED
  BY <1>3, <1>4, <1>7, <1>8 DEF n

LEMMA OnGotoNotes ==
  ASSUME Stepping, OnGoto
  PROVE  Noted'
<1> DEFINE n    == LabelCount(code, ip)
           next == Changed(X, n + 2, 0)
<1>1. /\ TypeOK /\ TypeOK' /\ Live /\ program' = program /\ code' = code
      /\ X \in Note /\ X.height \in Nat /\ code[ip + 1] = Fetch /\ program.code = code
      /\ Sound(program, ip, X) /\ X.height <= Len(stack) /\ Len(stack) \in Nat
  BY SteppingFacts
<1>2. Fetch.op \in {"ON_GOTO", "ON_GOSUB"} /\ Quiet /\ SameHandler /\ ~At({"CALL"})
  BY DEF OnGoto, At, Quiet, errors, SameHandler
<1>3. /\ n \in Nat /\ n + 2 <= X.height /\ stack' = Drop(stack, n + 2)
      /\ \/ Advance /\ UNCHANGED call_stack
         \/ /\ ip' \in Chosen(code, ip) /\ code[ip'].op = "LABEL" /\ ip' # ip + 1
            /\ call_stack' = IF Fetch.op = "ON_GOSUB" THEN PushFrame(ip + 1, stack')
                             ELSE call_stack
  BY OnGotoChooses
<1>4. /\ n + 2 \in 0 .. X.height /\ n + 2 \in Nat /\ 0 \in Nat /\ n + 2 <= Len(stack)
  <2> HIDE DEF n
  <2> QED
    BY <1>1, <1>3
<1>5. Consuming(n + 2, 0)
  BY <1>1, <1>3, <1>4, Dropping DEF TypeOK
<1>6. /\ Fetch.op = "ON_GOTO" =>
           Leads(program, ip, X) = {<<b, next>> : b \in Chosen(code, ip) \cup {ip + 1}}
      /\ Fetch.op = "ON_GOSUB" =>
           /\ Leads(program, ip, X) = {<<b, Base>> : b \in Chosen(code, ip)} \cup {<<ip + 1, next>>}
           /\ \A b \in Chosen(code, ip) : Arguments(code, b) = 0 /\ b \notin program.functions
  <2>1. Passed(Fetch, X) = {}
    BY <1>2, OtherWaysApart DEF OtherWays
  <2>2. Fetch.op = "ON_GOTO" =>
           Leads(program, ip, X) = {<<b, next>> : b \in Chosen(code, ip) \cup {ip + 1}}
    BY <1>1 DEF Leads, Ends
  <2>3. Fetch.op = "ON_GOSUB" =>
           Leads(program, ip, X) = {<<b, Base>> : b \in Chosen(code, ip)} \cup {<<ip + 1, next>>}
    BY <1>1 DEF Leads, Ends
  <2>4. Fetch.op = "ON_GOSUB" =>
           \A b \in Chosen(code, ip) : Arguments(code, b) = 0 /\ b \notin program.functions
    BY <1>1, <2>1 DEF Sound, Ends
  <2> QED
    BY <2>2, <2>3, <2>4
<1> HIDE DEF n, next
<1>7. ip + 1 \in DOMAIN TheNote /\ TheNote[ip + 1] = next
  <2>1. <<ip + 1, next>> \in Leads(program, ip, X)
    BY <1>2, <1>6
  <2> QED
    BY <2>1, Led
<1>8. ip' = ip + 1 \/ code[ip'].op = "LABEL"
  BY <1>3 DEF Advance
<1>9. code[ip'].op # "PUSH_CONST"
  BY <1>1, <1>2, <1>8
<1>10. CASE UNCHANGED call_stack /\ (Fetch.op = "ON_GOTO" \/ ip' = ip + 1)
  <2>1. ip' \in DOMAIN TheNote /\ TheNote[ip'] = next
    <3>1. CASE ip' = ip + 1
      BY <1>7, <3>1
    <3>2. CASE ip' # ip + 1
      <4>1. <<ip', next>> \in Leads(program, ip, X)
        BY <1>3, <1>6, <1>10, <3>2 DEF Advance
      <4> QED
        BY <4>1, Led
    <3> QED
      BY <3>1, <3>2
  <2>2. SameHeights /\ Fetch.op # "RET"
    BY <1>2, <1>10 DEF SameHeights, Depth
  <2>3. LevelsBalanced' /\ TopBalanced'
    BY <1>4, <1>5, <2>1, <2>2, StayingKeepsNotes DEF next
  <2>4. ConstantsPushed'
    BY <1>1, <1>9, OthersKeepConstants DEF TypeOK
  <2>5. HandlerNoted'
    BY <1>1, <1>2, SameHandlerNoted DEF Stepping, Noted
  <2> QED
    BY <2>3, <2>4, <2>5 DEF Noted
<1>11. CASE /\ Fetch.op = "ON_GOSUB" /\ ip' \in Chosen(code, ip) /\ ip' # ip + 1
            /\ call_stack' = PushFrame(ip + 1, stack')
  <2>1. <<ip', Base>> \in Leads(program, ip, X)
    BY <1>6, <1>11
  <2>2. ip' \in DOMAIN TheNote /\ TheNote[ip'] = [height |-> 0, args |-> 0, res |-> 0]
    BY <2>1, Led DEF Base
  <2>3. Called
    BY <1>1, <1>11 DEF Called, At
  <2>4. ip' \in Nat
    BY <1>1 DEF TypeOK
  <2>5. Cardinality(Receivers(ip')) = 0
    <3> DEFINE b == ip'
    <3>1. b \in Nat /\ Arguments(code, b) = 0
      BY <1>6, <1>11, <2>4
    <3> HIDE DEF b
    <3>2. Cardinality(Receivers(b)) = 0
      BY <1>1, <3>1, ArgumentsAre
    <3> QED
      BY <3>2 DEF b
  <2>6. ip' \notin program.functions
    BY <1>6, <1>11
  <2> DEFINE args == 0
             res  == 0
             pops == n + 2
  <2>7. /\ args \in Nat /\ res \in {0, 1} /\ pops \in Nat /\ args = Cardinality(Receivers(ip'))
        /\ (ip' \in program.functions => res = 1) /\ Consuming(pops, 0)
        /\ TheNote[ip'] = [height |-> args, args |-> args, res |-> res]
    BY <1>4, <1>5, <2>2, <2>5, <2>6
  <2>8. pops + args <= X.height /\ TheNote[ip + 1] = Changed(X, pops + args, res)
    <3>1. pops + args = n + 2
      BY <1>4
    <3> QED
      BY <1>4, <1>7, <3>1 DEF next
  <2> HIDE DEF args, res, pops
  <2> QED
    BY <1>2, <1>7, <1>9, <1>11, <2>2, <2>3, <2>7, <2>8, CalledNotes
<1> QED
  BY <1>2, <1>3, <1>10, <1>11 DEF Advance

\* RET goes on where the subroutine was called.
LEMMA ReturnNotes ==
  ASSUME Stepping, Return
  PROVE  Noted'
<1>1. /\ TypeOK /\ TypeOK' /\ Live /\ program' = program /\ code' = code /\ BalancedProgram
      /\ active \in Seq(EntryType) /\ Len(active) = Depth /\ Depth \in Nat
      /\ LevelsBalanced /\ TopBalanced
  BY SteppingFacts
<1>2. call_stack # <<>> /\ Depth # 0
  <2>1. call_stack # <<>>
    BY DEF Return, Stepping, Live
  <2> QED
    BY <2>1, EmptySeq, <1>1 DEF Depth, TypeOK, FramesOK
<1>3. /\ call_stack[Depth].return_ip = active[Depth].site + 1
      /\ code[call_stack[Depth].return_ip].op \in CallOps \cup FaultOps
  <2>1. Depth \in 1 .. Depth
    BY <1>1, <1>2
  <2> QED
    BY <1>1, <2>1 DEF Stepping, OneFrameEach, FramesFollowCalls, Live
<1>4. active' = SubSeq(active, 1, Depth - 1)
  <2>1. active # <<>>
    BY <1>1, <1>2
  <2> QED
    BY <1>1, <2>1, EffectOnHistory DEF Stepping
<1>5. LevelsBalanced' /\ TopBalanced'
  <2>1. Depth \in Nat \ {0} /\ Depth = Len(active)
    BY <1>1, <1>2
  <2> QED
    BY <1>1, <1>3, <1>4, <2>1, ReturnKeepsNotes
<1>6. ConstantsPushed'
  <2>1. ip' = call_stack[Depth].return_ip
    BY <1>2 DEF Return
  <2>2. code[ip'].op # "PUSH_CONST"
    BY <1>3, <2>1 DEF CallOps, FaultOps
  <2> QED
    BY <1>1, <2>2, OthersKeepConstants DEF TypeOK
<1>7. HandlerNoted'
  <2>1. SameHandler
    BY DEF Return, errors, SameHandler
  <2> QED
    BY <1>1, <2>1, SameHandlerNoted DEF Stepping, Noted
<1> QED
  BY <1>5, <1>6, <1>7 DEF Noted

LEMMA OnlyChain ==
  ASSUME Instruction, Fetch.op = "CALL_BUILTIN", Fetch.sym = "CHAIN"
  PROVE  Chain
<1>1. ~(PushConst \/ PushString \/ PushVar \/ Pop \/ PopStore \/ Dup \/ Swap \/ ArrayLoad
        \/ ArrayStore)
  BY DEF PushConst, PushString, PushVar, Pop, PopStore, Dup, Swap, ArrayLoad, ArrayStore, At
<1>2. ~(BinaryOp \/ Negate \/ Divide)
  BY DEF BinaryOp, Negate, Divide, At, Arithmetic, Comparisons, Logic, Divisions
<1>3. ~(Jump \/ JumpIf \/ Call \/ Return \/ SaveLocal \/ BindRef \/ OnGoto \/ Marker \/ End
        \/ Stop \/ Quit \/ OnError \/ Raise \/ Resume)
  BY DEF Jump, JumpIf, Call, Return, SaveLocal, BindRef, OnGoto, Marker, End, Stop, Quit,
         OnError, Raise, Resume, At
<1>4. ~Statement
  BY DEF Statement, At, RowOps, PrintOps, TransferOps, ScreenOps, ChannelOps, MemoryOps,
         SystemOps, ArrayOps, GfxOps, WindowOps
<1>5. ~(Poly \/ InputVar \/ Dim \/ EraseVar \/ ClearAll \/ Mat \/ MatExpr \/ ReadData \/ Restore
        \/ Builtin)
  BY DEF Poly, InputVar, Dim, EraseVar, ClearAll, Mat, MatExpr, ReadData, Restore, Builtin, At
<1> QED
  BY <1>1, <1>2, <1>3, <1>4, <1>5 DEF Instruction

\* The others end the program.
LEMMA EndingNotes ==
  ASSUME Stepping
  PROVE  /\ ~End /\ ~Stop /\ ~Quit /\ ~Resume /\ ~Chain
         /\ Fetch.op = "FATAL" => ~Raise
<1>1. TypeOK /\ Live /\ Live' /\ NoResume
  BY SteppingFacts DEF Stepping
<1>2. ~End /\ ~Stop /\ ~Quit
  BY <1>1 DEF End, Stop, Quit, Live
<1>3. ~Resume
  <2> SUFFICES ASSUME Resume PROVE FALSE
    OBVIOUS
  <2>1. fatal_error
    BY <1>1 DEF Resume, NoResume
  <2>2. result' = -1
    BY <2>1 DEF Resume
  <2> QED
    BY <1>1, <2>2 DEF Live
<1>4. ~Chain
  BY <1>1 DEF Chain, Live
<1>5. ASSUME Fetch.op = "FATAL", Raise PROVE FALSE
  <2>1. stack # <<>>
    <3>1. Passed(Fetch, X) = {}
      BY <1>5, OtherWaysApart DEF OtherWays
    <3>2. /\ Sound(program, ip, X) /\ X.height <= Len(stack) /\ X.height \in Nat
          /\ code[ip + 1] = Fetch /\ program.code = code
      BY SteppingFacts
    <3>3. X.height > 0
      BY <1>5, <3>1, <3>2 DEF Sound, Ends
    <3>4. Len(stack) # 0
      BY <3>2, <3>3
    <3> QED
      BY <3>4
  <2>2. result' = -1
    BY <1>5, <2>1 DEF Raise
  <2> QED
    BY <1>1, <2>2 DEF Live
<1> QED
  BY <1>2, <1>3, <1>4, <1>5

\* So every instruction keeps the notes, unless it ends the program.
LEMMA InstructionNotes ==
  ASSUME Stepping
  PROVE  Noted'
<1>1. CASE Straight
  BY <1>1, StraightNotes
<1>2. CASE Fetch.op \in OtherWays
  <2>1. \/ PushConst \/ Jump \/ JumpIf \/ Call \/ Return \/ OnGoto
        \/ End \/ Stop \/ Quit \/ Raise \/ Resume
    BY <1>2, OtherWaysOnly DEF Stepping
  <2>2. ~PushConst
    BY <1>2 DEF PushConst, At, OtherWays, Ends
  <2>3. ~Raise
    <3>1. Raise => Fetch.op = "FATAL"
      BY <1>2 DEF Raise, At, OtherWays, Ends
    <3> QED
      BY <3>1, EndingNotes
  <2> QED
    BY <2>1, <2>2, <2>3, JumpNotes, JumpIfNotes, CallNotes, ReturnNotes, OnGotoNotes, EndingNotes
<1>3. CASE Fetch.op = "CALL_BUILTIN" /\ Fetch.sym = "CHAIN"
  BY <1>3, OnlyChain, EndingNotes DEF Stepping
<1> QED
  BY <1>1, <1>2, <1>3 DEF Straight

-----------------------------------------------------------------------------
(***************************************************************************)
(* The program begins with an empty stack; the other steps of the host do  *)
(* not execute it.                                                         *)
(***************************************************************************)
LEMMA ExecuteNotes ==
  ASSUME IInv, CallsInv, BalancedProgram, Execute, Remember, ~on_error_active
  PROVE  Noted'
<1>1. /\ ip' = 0 /\ stack' = <<>> /\ program' = program /\ active' = <<>>
      /\ on_error_active' = on_error_active
  BY RememberNothing DEF Execute, Begin, errors
<1>2. 0 \in DOMAIN TheNote /\ TheNote[0] = Base
  <2>1. program # NoProgram
    BY VMAssumption DEF IInv, HostInv, Execute, WellFormed, NoProgram
  <2>2. BalancedBy(program, TheNote)
    BY <2>1 DEF BalancedProgram, Balanced, TheNote
  <2> QED
    BY <2>2 DEF BalancedBy
<1>3. code' = code /\ TheNote' = TheNote
  BY <1>1, SameNotes
<1>4. <<>> \in Stacks /\ Len(<<>>) = 0 /\ Len(active') = 0 /\ Len(stack') = 0
  BY <1>1, EmptyOK
<1>5. LevelsBalanced'
  <2> SUFFICES ASSUME NEW k \in 0 .. 0 PROVE Level(k)'
    BY <1>4 DEF LevelsBalanced
  <2>1. k = 0
    OBVIOUS
  <2>2. Place(k)' = 0
    BY <1>1, <1>4, <2>1 DEF Place
  <2> QED
    BY <1>2, <1>3, <2>1, <2>2 DEF Level
<1>6. TopBalanced'
  <2>1. Waiting(Len(active))' = <<>>
    BY <1>4 DEF Waiting
  <2>2. X'.height = 0
    BY <1>1, <1>2, <1>3 DEF X, Base
  <2> QED
    BY <1>1, <1>4, <2>1, <2>2 DEF TopBalanced, Begins
<1>7. ConstantsPushed'
  BY <1>1, <1>3, <1>4, OthersKeepConstants
<1>8. HandlerNoted'
  BY <1>1 DEF HandlerNoted
<1> QED
  BY <1>5, <1>6, <1>7, <1>8 DEF Noted

LEMMA BalanceStep ==
  ASSUME ~HostContinues, IInv, TypeOK', CallsInv, BalanceInv, Undisturbed, [HNext]_hvars
  PROVE  BalanceInv'
<1>1. CASE UNCHANGED hvars
  <2>1. /\ program' = program /\ active' = active /\ ip' = ip /\ stack' = stack
        /\ call_stack' = call_stack /\ on_error_active' = on_error_active
        /\ error_label' = error_label /\ host' = host
        /\ Live' = Live
    BY <1>1 DEF hvars, vmvars, caller, memory, control, errors, Live, code
  <2>2. code' = code /\ TheNote' = TheNote
    BY <2>1, SameNotes
  <2>3. \A k : Waiting(k)' = Waiting(k) /\ Place(k)' = Place(k)
    BY <2>1 DEF Waiting, Place
  <2>4. \A k : NoteOf(k)' = NoteOf(k) /\ X' = X
    BY <2>1, <2>2, <2>3 DEF NoteOf, X
  <2>5. LevelsBalanced => LevelsBalanced'
    BY <2>1, <2>2, <2>3, <2>4 DEF LevelsBalanced, Level, Begins
  <2>6. TopBalanced => TopBalanced'
    BY <2>1, <2>3, <2>4 DEF TopBalanced, Begins
  <2>7. ConstantsPushed => ConstantsPushed'
    BY <2>1, <2>2 DEF ConstantsPushed, Pushes
  <2>8. HandlerNoted => HandlerNoted'
    BY <2>1, <2>2 DEF HandlerNoted
  <2> QED
    BY <2>1, <2>5, <2>6, <2>7, <2>8 DEF BalanceInv, Noted
<1>2. CASE HNext /\ Instruction
  <2>1. host' \in {"executing", "exited", "hung"} /\ Live
    BY <1>2, InstructionHost
  <2>2. ASSUME Live' PROVE Noted'
    <3>1. Stepping
      BY <1>2, <2>1, <2>2
         DEF Stepping, HNext, IInv, CodeInv, CallsInv, BalanceInv, Undisturbed, Live
    <3> QED
      BY <3>1, InstructionNotes
  <2> QED
    BY <2>1, <2>2 DEF BalanceInv
<1>3. CASE HNext /\ Execute
  <2>1. ~on_error_active /\ host' = "executing"
    BY <1>3 DEF BalanceInv, Execute, Begin
  <2> QED
    BY <1>3, <2>1, ExecuteNotes DEF HNext, Undisturbed, BalanceInv
<1>4. CASE HNext /\ (Load \/ Finish \/ Terminated)
  BY <1>4 DEF Load, Finish, Terminated, vmvars, caller, errors, BalanceInv, Live
<1> QED
  BY <1>1, <1>2, <1>3, <1>4 DEF HNext, Next, ContinueStopped, ContinueResume

LEMMA BalanceInit ==
  ASSUME HInit
  PROVE  IInv /\ CallsInv /\ BalanceInv
BY IInvInit, CallsInit DEF HInit, Init, BalanceInv, Live

\* The invariants together.
AllInv == IInv /\ CallsInv /\ BalanceInv

LEMMA AllStep ==
  ASSUME ~HostContinues, AllInv, Undisturbed, [HNext]_hvars
  PROVE  AllInv'
<1>1. IInv' /\ TypeOK /\ TypeOK'
  BY HistoryStep, IInvStep DEF AllInv, IInv
<1>2. CallsInv'
  BY <1>1, CallsStep DEF AllInv, Undisturbed
<1>3. BalanceInv'
  BY <1>1, BalanceStep DEF AllInv
<1> QED
  BY <1>1, <1>2, <1>3 DEF AllInv

-----------------------------------------------------------------------------
\* Equal stacks.
LEMMA SameStack ==
  ASSUME NEW s \in Stacks, NEW t \in Stacks, Begins(s, t), Len(s) = Len(t)
  PROVE  s = t
BY SeqEqual DEF Begins, Stacks

\* At the beginning of a statement nothing is above what waits.
LEMMA BalancedStatement ==
  ASSUME AllInv, BalancedProgram
  PROVE  StatementBalance
<1> SUFFICES ASSUME Live, ip \in program.starts
             PROVE  stack = IF active = <<>> THEN <<>> ELSE Innermost.operands
  BY DEF StatementBalance
<1> DEFINE n == Len(active)
<1>1. /\ TypeOK /\ stack \in Stacks /\ active \in Seq(EntryType) /\ n \in Nat
      /\ LevelsBalanced /\ TopBalanced
  BY DEF AllInv, IInv, TypeOK, CallsInv, BalanceInv, Noted
<1>2. ip \in DOMAIN TheNote
  <2>1. Level(n) /\ Place(n) = ip
    BY <1>1 DEF LevelsBalanced, Place
  <2> QED
    BY <2>1 DEF Level
<1>3. X.height = 0
  BY <1>1, <1>2, NoteAt DEF X
<1>4. Waiting(n) \in Stacks /\ Len(Waiting(n)) \in Nat
  BY <1>1, WaitingTyped
<1>5. stack = Waiting(n)
  <2>1. Len(stack) = Len(Waiting(n)) /\ Begins(Waiting(n), stack)
    BY <1>1, <1>3, <1>4 DEF TopBalanced
  <2> QED
    BY <1>1, <1>4, <2>1, SameStack
<1>6. active = <<>> <=> n = 0
  BY <1>1, EmptySeq
<1> QED
  BY <1>5, <1>6 DEF Waiting, Innermost

\* RET leaves what waits with the result on top.
LEMMA BalancedReturn ==
  ASSUME AllInv, BalancedProgram, HNext, Returning
  PROVE  /\ \E s \in {stack', Drop(stack', 1)} : s = Innermost.operands
         /\ Innermost.to \in program.functions => Len(stack') = Len(Innermost.operands) + 1
<1> DEFINE n == Len(active)
           w == Innermost.operands
<1>1. Return /\ Live /\ active # <<>> /\ call_stack # <<>>
  BY OnlyReturn DEF HNext, Returning, At
<1>2. /\ TypeOK /\ active \in Seq(EntryType) /\ n \in Nat
      /\ LevelsBalanced /\ TopBalanced /\ n = Depth /\ n \in Nat \ {0}
  <2>1. TypeOK /\ CallsInv /\ LevelsBalanced /\ TopBalanced
    BY <1>1 DEF AllInv, IInv, BalanceInv, Noted
  <2> QED
    BY <1>1, <2>1, InnermostFrame DEF CallsInv
<1>3. w = Waiting(n) /\ w \in Stacks /\ Len(w) \in Nat
  BY <1>2, WaitingTyped DEF Waiting, Innermost
<1>4. /\ Begins(w, stack') /\ Len(stack') = Len(w) + X.res
      /\ X.res \in {0, 1} /\ (Innermost.to \in program.functions => X.res = 1)
      /\ stack' \in Stacks
  BY <1>1, <1>2, <1>3, ReturnCuts DEF Innermost
<1> HIDE DEF w
<1>5. CASE X.res = 0
  <2>1. stack' = w
    BY <1>3, <1>4, <1>5, SameStack
  <2> QED
    BY <1>4, <1>5, <2>1 DEF w
<1>6. CASE X.res = 1
  <2> DEFINE t == stack'
             d == Drop(t, 1)
  <2>1. t \in Stacks /\ Len(t) = Len(w) + 1 /\ Begins(w, t)
    BY <1>4, <1>6
  <2> HIDE DEF t
  <2>2. 1 <= Len(t) /\ 1 \in Nat
    BY <1>3, <2>1
  <2>3. /\ d \in Stacks /\ Len(d) = Len(t) - 1
        /\ \A j \in 1 .. Len(t) - 1 : d[j] = t[j]
    BY <2>1, <2>2, DropConsumes
  <2> HIDE DEF d
  <2>4. Len(d) = Len(w) /\ Begins(w, d)
    BY <1>3, <2>1, <2>3 DEF Begins
  <2>5. d = w
    BY <1>3, <2>3, <2>4, SameStack
  <2> QED
    BY <1>4, <1>6, <2>5 DEF w, d, t
<1> QED
  BY <1>4, <1>5, <1>6

\* Every statement of a balanced bytecode begins with the stack as its
\* subroutine found it: SUB, LOCAL, ON GOSUB, expressions and calls leave
\* nothing, as long as frames and operands have room and no handler returns
\* into an expression.
THEOREM BalanceSafe ==
  ~HostContinues => (HSpec /\ []Undisturbed => []StatementBalance)
<1> SUFFICES ASSUME ~HostContinues
             PROVE  HSpec /\ []Undisturbed => []StatementBalance
  OBVIOUS
<1>1. HInit => AllInv
  BY BalanceInit DEF AllInv
<1>2. AllInv /\ Undisturbed /\ [HNext]_hvars => AllInv'
  BY AllStep
<1>3. AllInv /\ Undisturbed => StatementBalance
  BY BalancedStatement DEF Undisturbed
<1> QED
  BY <1>1, <1>2, <1>3, PTL DEF HSpec

\* RETURN gives the caller back the operands that were waiting, with at most
\* one result.
THEOREM OperandsSafe ==
  ~HostContinues => (HSpec /\ []Undisturbed => OperandsKept)
<1> SUFFICES ASSUME ~HostContinues
             PROVE  HSpec /\ []Undisturbed => OperandsKept
  OBVIOUS
<1> DEFINE Waited == \E s \in {stack', Drop(stack', 1)} : s = Innermost.operands
<1>1. HInit => AllInv
  BY BalanceInit DEF AllInv
<1>2. AllInv /\ Undisturbed /\ [HNext]_hvars => AllInv'
  BY AllStep
<1>3. AllInv /\ Undisturbed /\ [HNext]_hvars => [Returning => Waited]_hvars
  BY BalancedReturn DEF Undisturbed
<1> QED
  BY <1>1, <1>2, <1>3, PTL DEF HSpec, OperandsKept

\* A FUNCTION or DEF FN leaves its result where its caller expects it.
THEOREM ResultsSafe ==
  ~HostContinues => (HSpec /\ []Undisturbed => FunctionGivesResult)
<1> SUFFICES ASSUME ~HostContinues
             PROVE  HSpec /\ []Undisturbed => FunctionGivesResult
  OBVIOUS
<1> DEFINE HasResult    == Len(stack') = Len(Innermost.operands) + 1
           FromFunction == Returning /\ Innermost.to \in program.functions
<1>1. HInit => AllInv
  BY BalanceInit DEF AllInv
<1>2. AllInv /\ Undisturbed /\ [HNext]_hvars => AllInv'
  BY AllStep
<1>3. AllInv /\ Undisturbed /\ [HNext]_hvars => [FromFunction => HasResult]_hvars
  BY BalancedReturn DEF Undisturbed
<1> QED
  BY <1>1, <1>2, <1>3, PTL DEF HSpec, FunctionGivesResult

=============================================================================
