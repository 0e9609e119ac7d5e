----------------------------- MODULE GfaVMHistory -----------------------------
(***************************************************************************)
(* GfaVM with a history variable: the subroutines and error handlers the   *)
(* program is in, as its text means them, with what was true when each of  *)
(* them was entered.  A subroutine is left by RETURN; a handler is left by *)
(* RETURN or RESUME.                                                       *)
(*                                                                         *)
(* A program has two more fields here: starts, the addresses at which a    *)
(* statement begins, and functions, the labels of FUNCTION and DEF FN.     *)
(***************************************************************************)
EXTENDS GfaVM

VARIABLE active

hvars == <<vmvars, active>>

\* The parameters a subroutine entered at address a receives.
Body(a) == IF code[a + 1].op = "LABEL" THEN a + 1 ELSE a

Receivers(a) ==
  {k \in Body(a) .. Len(code) - 1 :
     \A j \in Body(a) .. k : code[j + 1].op \in {"SAVE_LOCAL", "BIND_REF"}}

Parameters(a) ==
  {code[k + 1].sym : k \in {j \in Receivers(a) : code[j + 1].op = "SAVE_LOCAL"}}

Called == \/ At({"CALL"}) /\ Fetch.arg >= 0 /\ Depth < MaxDepth
          \/ At({"ON_GOSUB"}) /\ ip' # ip + 1

\* An error the handler takes when there is no frame left.
TrapsWithoutFrame ==
  /\ Live /\ Handled /\ Depth = MaxDepth
  /\ resume_ip' = ip /\ (ip' # ip + 1 \/ resume_ip # ip)
  /\ Fetch.op \in FaultOps
  /\ Fetch.op = "JMP" => Fetch.arg < 0

Entered == Depth' > Depth \/ Called \/ TrapsWithoutFrame

\* What is remembered of the moment an entry is made: where it was made, where
\* it led to, the variables, the operands of the caller that are waiting below
\* the arguments, and whether it is a handler.
Entry ==
  LET args == IF Called THEN Cardinality(Receivers(ip')) ELSE 0
      s    == IF At({"CALL"}) THEN stack ELSE stack'
  IN  [site |-> ip, to |-> ip', vars |-> vars, handler |-> ~Called,
       operands |-> Drop(s, args)]

Left == At({"RET"}) \/ (At({"RESUME"}) /\ ~fatal_error)

HInit == Init /\ active = <<>>

Remember ==
  active' = CASE host # "executing" -> <<>>
              [] host = "executing" /\ Entered -> Append(active, Entry)
              [] ~Entered /\ Left /\ active # <<>> ->
                   SubSeq(active, 1, Len(active) - 1)
              [] OTHER -> active

HNext == Next /\ Remember

HSpec == HInit /\ [][HNext]_hvars /\ WF_hvars((Instruction \/ Finish) /\ Remember)

-----------------------------------------------------------------------------
Innermost == active[Len(active)]

Returning == At({"RET"}) /\ call_stack # <<>> /\ active # <<>>

\* RETURN goes on behind the GOSUB, call or fault that entered the innermost
\* subroutine or handler.
ReturnsToCaller == [][Returning => ip' = Innermost.site + 1]_hvars

\* RESUME goes back to what failed in the innermost handler, and RESUME NEXT
\* to what follows it, although there is one resume_ip for all of them.
Handlers == {k \in DOMAIN active : active[k].handler}

ResumesAtFault ==
  [][At({"RESUME"}) /\ ~fatal_error /\ Handlers # {} =>
       LET last == CHOOSE k \in Handlers : \A j \in Handlers : j <= k
       IN  ip' = active[last].site + Fetch.arg]_hvars

\* A subroutine gives back to its caller the operands that were waiting on the
\* value stack, with at most one result on top.
OperandsKept ==
  [][Returning =>
       \E s \in {stack', Drop(stack', 1)} : s = Innermost.operands]_hvars

\* A parameter that is not VAR has on return the value it had at the call,
\* although all variables are global.
ParametersRestored ==
  [][Returning /\ ~Innermost.handler =>
       \A v \in Parameters(Innermost.to) : vars'[v] = Innermost.vars[v]]_hvars

\* A FUNCTION or DEF FN leaves one result where its caller expects it.
FunctionGivesResult ==
  [][Returning /\ Innermost.to \in program.functions =>
       Len(stack') = Len(Innermost.operands) + 1]_hvars

\* There is one frame for each subroutine and handler that is active.
FramesMatchCalls == host = "executing" /\ running => Depth = Len(active)

\* A statement begins with the stack as its subroutine found it: nothing the
\* statements before it left is there for it to take.
StatementBalance ==
  Live /\ ip \in program.starts =>
    stack = IF active = <<>> THEN <<>> ELSE Innermost.operands

-----------------------------------------------------------------------------
(***************************************************************************)
(* What the frames are not made for.  As long as none of it happens, the   *)
(* properties of calls hold of every bytecode, not only of what the code   *)
(* generator makes.                                                        *)
(***************************************************************************)
\* A call, or an error that is handled, finds room for its frame.
RoomForFrame ==
  At(CallOps) \/ (At(FaultOps) /\ Handled) => Depth < MaxDepth

\* A parameter finds room for its value in the frame and on the stack.
RoomForParameter ==
  At({"SAVE_LOCAL"}) =>
    /\ Len(stack) < StackSize
    /\ call_stack # <<>> => Len(call_stack[Depth].saved) < MaxSaved

\* RESUME leaves its handler, but not the frame of it.
NoResume == At({"RESUME"}) => fatal_error

\* An error in a handler is not handled, as there is one resume_ip.
OneHandler == \A j, k \in Handlers : j = k

\* No parameter has the name of another one of the same subroutine.
ParametersApart ==
  \A a \in 0 .. Len(code) - 1 : \A j, k \in Receivers(a) :
    j # k => code[j + 1].sym # code[k + 1].sym

-----------------------------------------------------------------------------
\* A program ends by itself.
Terminates == host = "executing" ~> host \in {"done", "exited"}
=============================================================================
