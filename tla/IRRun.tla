------------------------------- MODULE IRRun -------------------------------
(***************************************************************************)
(* The generated blocks run side by side with the source they came from.   *)
(*                                                                         *)
(* After the unit is generated one of its functions is run twice: on the   *)
(* machine of SourceC and on the blocks, with the meaning ir.hpp's opcodes *)
(* have.  Both run silently to their next event; if the events are equal   *)
(* they perform it together, a test going the same, arbitrary way in both. *)
(* Faithful says that the events always are equal.                         *)
(***************************************************************************)
EXTENDS IRGen, SourceC

CONSTANT Runnable   \* the programs of Programs that are run

VARIABLES
  at,      \* block and index of the next instruction; block NoBlock: not running
  env      \* the values of the temporaries

runVars == <<at, env>>
allVars == <<program, funcs, work, vals, blocks, cur, temps, crashed, cont, stack, at, env>>
genVars == <<program, funcs, work, vals, blocks, cur, temps, crashed>>

Unset == 3
NowhereAt == [bb |-> NoBlock, i |-> 1]

RunInit == Init /\ cont = << >> /\ stack = << >> /\ at = NowhereAt /\ env = << >>

GenerateStep == Generate /\ UNCHANGED <<cont, stack, at, env>>

Running == at.bb # NoBlock

\* Any function of a generated unit may be called.
Call ==
  /\ Generated /\ ~Running
  /\ program \in Runnable
  /\ \E f \in DOMAIN funcs :
       /\ at' = [bb |-> funcs[f].entry, i |-> 1]
       /\ cont' = Exec(program[f])
  /\ stack' = << >>
  /\ env' = [t \in 1..temps |-> Unset]
  /\ UNCHANGED genVars

-----------------------------------------------------------------------------
Insts == blocks[at.bb].insts
AtEnd == at.i > Len(Insts)
Cur == Insts[at.i]

ValueOf(sym) == CASE sym.kind = "const" -> sym.id
                  [] sym.kind = "temp" -> env[sym.id]
                  [] OTHER -> Any

IREvent ==
  IF AtEnd THEN Event(IF blocks[at.bb].next = NoBlock THEN "falls off" ELSE "none", Absent, 0)
  ELSE CASE Cur.op = "RET" -> Event("return", Absent, ValueOf(Cur.src1))
         [] Cur.op = "CALL" -> Event("call", Cur.of, Any)
         [] Cur.op = "JCC" -> Event("test", Cur.of, Any)
         [] Cur.op = "JNZ" /\ ValueOf(Cur.src1) = Any -> Event("test", Cur.of, Any)
         [] Cur.op = "MOV" /\ Cur.dst.kind = "var" ->
              Event("store", Identifier(Cur.dst.id), ValueOf(Cur.src1))
         [] OTHER -> Event("none", Absent, 0)

Advance == at' = [at EXCEPT !.i = @ + 1]
Goto(bb) == at' = [bb |-> bb, i |-> 1]

\* A step of the blocks nobody sees.
IRSilent ==
  /\ Running /\ IREvent.ev = "none"
  /\ IF AtEnd THEN Goto(blocks[at.bb].next) /\ UNCHANGED env
     ELSE CASE Cur.op = "JMP" -> Goto(Cur.to) /\ UNCHANGED env
            [] Cur.op = "JNZ" -> /\ IF ValueOf(Cur.src1) = 1 THEN Goto(Cur.to) ELSE Advance
                                 /\ UNCHANGED env
            [] Cur.op = "MOV" -> Advance /\ env' = [env EXCEPT ![Cur.dst.id] = ValueOf(Cur.src1)]
            [] OTHER -> Advance /\ env' = [env EXCEPT ![Cur.dst.id] = Any]
  /\ UNCHANGED <<cont, stack>> /\ UNCHANGED genVars

SrcStep == Running /\ SrcSilent /\ UNCHANGED runVars /\ UNCHANGED genVars
IRStep == SrcEvent.ev # "none" /\ IRSilent

Returned == Running /\ SrcEvent.ev = "return" /\ IREvent.ev = "return"

Agree(outcome) ==
  /\ Running /\ ~Returned
  /\ SrcEvent.ev # "none" /\ SrcEvent = IREvent
  /\ outcome => SrcEvent.ev = "test"
  /\ IF outcome THEN Goto(Cur.to) ELSE Advance
  /\ SrcPerform(outcome)
  /\ UNCHANGED env /\ UNCHANGED genVars

Finish == (crashed \/ Returned \/ (Generated /\ program \notin Runnable)) /\ UNCHANGED allVars

RunNext == GenerateStep \/ Call \/ SrcStep \/ IRStep \/ (\E o \in BOOLEAN : Agree(o)) \/ Finish

RunSpec == RunInit /\ [][RunNext]_allVars /\ WF_allVars(RunNext)

-----------------------------------------------------------------------------
(* Properties.                                                             *)

\* The blocks do what the source does: whenever both are at an event it is
\* the same event, with the same value, on the same node of the tree.
Faithful ==
  Running /\ SrcEvent.ev # "none" /\ IREvent.ev # "none" => SrcEvent = IREvent

\* The blocks never lose themselves in jumps: when the source is waiting at an
\* event, the blocks come to one.
BlocksProgress == (Running /\ SrcEvent.ev # "none") ~> (Running /\ IREvent.ev # "none")
=============================================================================
