------------------------------- MODULE X86Run -------------------------------
(***************************************************************************)
(* The emitted assembly run side by side with the source, as IRRun does    *)
(* for the blocks: the same events, seen at the level of the instructions. *)
(***************************************************************************)
EXTENDS X86Emit, SourceC

CONSTANT Runnable   \* the programs of Programs the backend emits in full

VARIABLES
  pc,    \* the next line of asm; 0: not running
  eax,   \* the value in %eax
  mem    \* the values in the temporaries' slots

machine == <<pc, eax, mem>>
x86Vars == <<program, funcs, work, vals, blocks, cur, temps, crashed,
             emitting, labels, nlabels, asm, slots, failed, cont, stack, pc, eax, mem>>

Unset == 3

X86Init ==
  /\ EmitInit
  /\ cont = << >> /\ stack = << >>
  /\ pc = 0 /\ eax = Unset /\ mem = << >>

CompileStep == (LowerStep \/ Emission) /\ UNCHANGED <<cont, stack, pc, eax, mem>>

Running == pc # 0

Call ==
  /\ Emitted /\ ~Running
  /\ program \in Runnable
  /\ \E i \in DOMAIN asm :
       /\ asm[i].op = "function"
       /\ pc' = i + 1
       /\ cont' = Exec(program[asm[i].a.id])
  /\ stack' = << >>
  /\ eax' = Unset
  /\ mem' = [t \in 1..temps |-> Unset]
  /\ keepUnit /\ UNCHANGED emitVars

-----------------------------------------------------------------------------
Line == asm[pc]

Contents(s) == CASE s.kind = "const" -> s.id
                 [] s.kind = "temp" -> mem[s.id]
                 [] s = Eax -> eax
                 [] OTHER -> Any

\* A conditional jump after cmpl $0 on a known value is decided.
Decided == Line.b # Nothing /\ Contents(Line.b) # Any

X86Event ==
  CASE Line.op = "ret" -> Event("return", Absent, eax)
    [] Line.op = "call" -> Event("call", Line.of, Any)
    [] Line.op = "jcc" /\ ~Decided -> Event("test", Line.of, Any)
    [] Line.op = "movl" /\ Line.b.kind = "var" -> Event("store", Identifier(Line.b.id), Contents(Line.a))
    [] OTHER -> Event("none", Absent, 0)

Goto(l) == pc' = CHOOSE i \in LabelLines(l.id) : TRUE

Write(value) ==
  CASE Line.b.kind = "temp" -> mem' = [mem EXCEPT ![Line.b.id] = value] /\ UNCHANGED eax
    [] Line.b = Eax -> eax' = value /\ UNCHANGED mem
    [] OTHER -> UNCHANGED <<eax, mem>>

X86Silent ==
  /\ Running /\ X86Event.ev = "none"
  /\ CASE Line.op = "jmp" -> Goto(Line.a) /\ UNCHANGED <<eax, mem>>
       [] Line.op = "jcc" -> /\ IF Contents(Line.b) = 1 THEN Goto(Line.a) ELSE pc' = pc + 1
                             /\ UNCHANGED <<eax, mem>>
       [] Line.op = "movl" -> pc' = pc + 1 /\ Write(Contents(Line.a))
       [] Line.op = "cmpl" -> pc' = pc + 1 /\ UNCHANGED <<eax, mem>>
       [] OTHER -> pc' = pc + 1 /\ Write(Any)
  /\ UNCHANGED <<cont, stack>> /\ keepUnit /\ UNCHANGED emitVars

SrcStep == Running /\ SrcSilent /\ UNCHANGED machine /\ keepUnit /\ UNCHANGED emitVars
X86Step == SrcEvent.ev # "none" /\ X86Silent

Returned == Running /\ SrcEvent.ev = "return" /\ X86Event.ev = "return"

Agree(outcome) ==
  /\ Running /\ ~Returned
  /\ SrcEvent.ev # "none" /\ SrcEvent = X86Event
  /\ outcome => SrcEvent.ev = "test"
  /\ IF outcome THEN Goto(Line.a) ELSE pc' = pc + 1
  /\ eax' = IF SrcEvent.ev = "call" THEN Any ELSE eax
  /\ SrcPerform(outcome)
  /\ UNCHANGED mem /\ keepUnit /\ UNCHANGED emitVars

Finish == (crashed \/ failed \/ Returned \/ (Emitted /\ program \notin Runnable)) /\ UNCHANGED x86Vars

X86Next == CompileStep \/ Call \/ SrcStep \/ X86Step \/ (\E o \in BOOLEAN : Agree(o)) \/ Finish

X86Spec == X86Init /\ [][X86Next]_x86Vars /\ WF_x86Vars(X86Next)

-----------------------------------------------------------------------------
(* Properties.                                                             *)

\* The assembly does what the source does: the same calls, the same tests and
\* stores, and the same value returned at the same point.
AsmFaithful ==
  Running /\ SrcEvent.ev # "none" /\ X86Event.ev # "none" => SrcEvent = X86Event

\* No slot is read before the code has written it.
SlotsWritten ==
  Running => ~\E s \in {Line.a, Line.b} :
    /\ s.kind = "temp" /\ mem[s.id] = Unset
    /\ ~(s = Line.b /\ Line.op \in {"movl", "leal"})
=============================================================================
