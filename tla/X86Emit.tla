------------------------------ MODULE X86Emit ------------------------------
(***************************************************************************)
(* Assembly from basic blocks: src/src/codegen/x86_backend.cpp, driven by  *)
(* the loop over the generated functions in src/src/driver/driver.cpp.     *)
(*                                                                         *)
(* Text is abstracted to a sequence of instructions whose operands are the *)
(* symbols getAccessName would print, %eax, or a label number.  A local or *)
(* a temporary gets its stack slot the first time it is printed; a block   *)
(* gets its label when it is reached or first jumped to, whichever is      *)
(* earlier.                                                                *)
(***************************************************************************)
EXTENDS IRGen

VARIABLES
  emitting,  \* the function and block being emitted, and the next instruction
  labels,    \* BBlock::sym of the blocks, as label numbers; 0 is none
  nlabels,   \* SymbolTable::labelNum_
  asm,       \* the text emitted so far
  slots,     \* stackSlots_ of the current function, in order of assignment
  failed     \* a null operand reached getAccessName

emitVars == <<emitting, labels, nlabels, asm, slots, failed>>
unitVars == <<program, funcs, work, vals, blocks, cur, temps, crashed,
              emitting, labels, nlabels, asm, slots, failed>>

NoLabel == 0
Eax == Sym("eax", 0)
Edx == Sym("edx", 0)
Nothing == Sym("nothing", 0)
Label(n) == Sym("label", n)

Asm(op, a, b) == [op |-> op, a |-> a, b |-> b, of |-> None]
AsmOf(op, a, b, e) == [op |-> op, a |-> a, b |-> b, of |-> e]

EmitInit ==
  /\ Init
  /\ emitting = [fn |-> 0, bb |-> NoBlock, i |-> 1]
  /\ labels = << >>
  /\ nlabels = 0
  /\ asm = << >>
  /\ slots = << >>
  /\ failed = FALSE

keepUnit == UNCHANGED <<program, funcs, work, vals, blocks, cur, temps, crashed>>
LowerStep == Generate /\ UNCHANGED emitVars

-----------------------------------------------------------------------------
Local(sym) == sym.kind \in {"var", "temp"}
InSlots(sym) == \E i \in DOMAIN slots : slots[i] = sym

\* getAccessName on the operands of ops, in order: locals get a slot.
SlotsAfter(ops) ==
  LET add[i \in 0..Len(ops)] ==
        IF i = 0 THEN slots
        ELSE LET sofar == add[i - 1]
             IN IF Local(ops[i]) /\ ~\E j \in DOMAIN sofar : sofar[j] = ops[i]
                THEN Append(sofar, ops[i]) ELSE sofar
  IN add[Len(ops)]

\* The block's label, made on the spot if it has none yet.
LabelOf(bb) == IF labels[bb] = NoLabel THEN nlabels + 1 ELSE labels[bb]
TakeLabel(bb) ==
  /\ labels' = [labels EXCEPT ![bb] = LabelOf(bb)]
  /\ nlabels' = IF labels[bb] = NoLabel THEN nlabels + 1 ELSE nlabels

EmitFunction ==
  /\ Generated /\ emitting.bb = NoBlock /\ ~failed
  /\ emitting.fn < Len(funcs)
  /\ LET fn == emitting.fn + 1 IN
       /\ emitting' = [fn |-> fn, bb |-> funcs[fn].entry, i |-> 0]
       /\ asm' = asm \o <<Asm("function", Sym("function", fn), Nothing)>>
  /\ labels' = IF labels = << >> THEN [b \in BlockIds |-> NoLabel] ELSE labels
  /\ slots' = << >>
  /\ UNCHANGED <<nlabels, failed>> /\ keepUnit

InBlock == Generated /\ emitting.bb # NoBlock /\ ~failed
Code1 == blocks[emitting.bb].insts

\* Mutant of EmitLabel: a block labelled by an earlier jump is not printed.
EmitLabelFresh ==
  /\ InBlock /\ emitting.i = 0
  /\ emitting' = [emitting EXCEPT !.i = 1]
  /\ IF labels[emitting.bb] = NoLabel
     THEN /\ TakeLabel(emitting.bb)
          /\ asm' = asm \o <<Asm("label", Label(LabelOf(emitting.bb)), Nothing)>>
     ELSE UNCHANGED <<labels, nlabels, asm>>
  /\ UNCHANGED <<slots, failed>> /\ keepUnit

\* Any block that can be jumped to, and every block but the entry, is labelled.
EmitLabel ==
  /\ InBlock /\ emitting.i = 0
  /\ emitting' = [emitting EXCEPT !.i = 1]
  /\ IF \/ blocks[emitting.bb].preds # << >>
        \/ emitting.bb # funcs[emitting.fn].entry
        \/ labels[emitting.bb] # NoLabel
     THEN /\ TakeLabel(emitting.bb)
          /\ asm' = asm \o <<Asm("label", Label(LabelOf(emitting.bb)), Nothing)>>
     ELSE UNCHANGED <<labels, nlabels, asm>>
  /\ UNCHANGED <<slots, failed>> /\ keepUnit

-----------------------------------------------------------------------------
(* emitIR.  ops are the symbols it prints, lines what it prints.           *)

Alu == [ADD |-> "addl", SUB |-> "subl", MUL |-> "imull",
        BOR |-> "orl", BAND |-> "andl", BXOR |-> "xorl"]
Load(s) == Asm("movl", s, Eax)
Store(d) == Asm("movl", Eax, d)

PrintLines(ops, lines) ==
  IF \E i \in DOMAIN ops : ops[i] = Null
  THEN failed' = TRUE /\ UNCHANGED <<emitting, slots, asm>>
  ELSE /\ emitting' = [emitting EXCEPT !.i = @ + 1]
       /\ slots' = SlotsAfter(ops)
       /\ asm' = asm \o lines
       /\ UNCHANGED failed

Now(ops) == InBlock /\ emitting.i \in 1..Len(Code1) /\ Code1[emitting.i].op \in ops
Ir == Code1[emitting.i]
noLabels == UNCHANGED <<labels, nlabels>>

EmitAddr ==
  /\ Now({"ADDR"})
  /\ PrintLines(<<Ir.src1, Ir.dst>>,
            IF Ir.src1.kind = "string" THEN <<Asm("leal", Ir.src1, Eax), Store(Ir.dst)>>
            ELSE <<Asm("leal", Ir.src1, Ir.dst)>>)
  /\ noLabels /\ keepUnit

\* Mutant of EmitMov: memory is copied to memory in one instruction.
EmitMovDirect ==
  /\ Now({"MOV"})
  /\ PrintLines(<<Ir.src1, Ir.dst>>, <<Asm("movl", Ir.src1, Ir.dst)>>)
  /\ noLabels /\ keepUnit

EmitMov ==
  /\ Now({"MOV"})
  /\ PrintLines(<<Ir.src1, Ir.dst>>,
            IF Ir.src1.kind = "const" THEN <<Asm("movl", Ir.src1, Ir.dst)>>
            ELSE <<Load(Ir.src1), Store(Ir.dst)>>)
  /\ noLabels /\ keepUnit

\* Mutant of EmitAlu: the result stays in the register.
EmitAluNoStore ==
  /\ Now(DOMAIN Alu)
  /\ PrintLines(<<Ir.src1, Ir.src2, Ir.dst>>,
            <<Load(Ir.src1), Asm(Alu[Ir.op], Ir.src2, Eax)>>)
  /\ noLabels /\ keepUnit

EmitAlu ==
  /\ Now(DOMAIN Alu)
  /\ PrintLines(<<Ir.src1, Ir.src2, Ir.dst>>,
            <<Load(Ir.src1), Asm(Alu[Ir.op], Ir.src2, Eax), Store(Ir.dst)>>)
  /\ noLabels /\ keepUnit

\* The quotient is stored from %eax, the remainder from %edx.
EmitDiv ==
  /\ Now({"DIV", "MOD"})
  /\ PrintLines(<<Ir.src1, Ir.src2, Ir.dst>>,
            <<Asm("movl", Const(0), Edx), Load(Ir.src1), Asm("divl", Ir.src2, Eax),
              Asm("movl", IF Ir.op = "DIV" THEN Eax ELSE Edx, Ir.dst)>>)
  /\ noLabels /\ keepUnit

\* The method returns before the store is printed.
EmitNeg ==
  /\ Now({"NEG"})
  /\ PrintLines(<<Ir.src1, Ir.dst>>, <<Load(Ir.src1), Asm("negl", Eax, Eax)>>)
  /\ noLabels /\ keepUnit

\* Arguments are pushed last to first; the callee is printed by its name.
EmitCall ==
  /\ Now({"CALL"})
  /\ LET args == Ir.src2
         n == Len(args)
         last2first == [i \in 1..n |-> args[n + 1 - i]]
     IN PrintLines(last2first,
               [i \in 1..n |-> Asm("pushl", last2first[i], Nothing)]
               \o <<AsmOf("call", Sym("const", n), Nothing, Ir.of)>>
               \o (IF n = 0 THEN << >> ELSE <<Asm("addl esp", Sym("const", n), Nothing)>>))
  /\ noLabels /\ keepUnit

\* Mutant of EmitRet: the value is not loaded.
EmitRetNothing ==
  /\ Now({"RET"})
  /\ PrintLines(<<Ir.src1>>, << >>)
  /\ noLabels /\ keepUnit

\* The value is loaded; the jump to the epilogue is not there.
EmitRet ==
  /\ Now({"RET"})
  /\ PrintLines(<<Ir.src1>>, <<Load(Ir.src1)>>)
  /\ noLabels /\ keepUnit

EmitJmp ==
  /\ Now({"JMP"})
  /\ TakeLabel(Ir.to)
  /\ PrintLines(<< >>, <<Asm("jmp", Label(LabelOf(Ir.to)), Nothing)>>)
  /\ keepUnit

EmitJcc ==
  /\ Now({"JCC", "JNZ"})
  /\ LET two == Ir.src2 # Null
         jcc == AsmOf("jcc", Label(LabelOf(Ir.to)), IF two THEN Nothing ELSE Ir.src1, Ir.of)
     IN PrintLines(IF two THEN <<Ir.src2, Ir.src1>> ELSE <<Ir.src1>>,
               IF two THEN <<Load(Ir.src2), Asm("cmpl", Eax, Ir.src1), jcc>>
               ELSE <<Asm("cmpl", Const(0), Ir.src1), jcc>>)
  /\ TakeLabel(Ir.to)
  /\ keepUnit

\* Every other opcode is printed as a comment.
EmitOther ==
  /\ Now({"INC", "BCOM", "DEREF", "LSH", "RSH"})
  /\ PrintLines(<< >>, << >>)
  /\ noLabels /\ keepUnit

\* The block is done: the next one, or the epilogue.
EmitNext ==
  /\ InBlock /\ emitting.i > Len(Code1)
  /\ LET next == blocks[emitting.bb].next IN
       /\ emitting' = [emitting EXCEPT !.bb = next, !.i = 0]
       /\ asm' = IF next = NoBlock THEN asm \o <<Asm("ret", Eax, Nothing)>> ELSE asm
  /\ UNCHANGED <<labels, nlabels, slots, failed>> /\ keepUnit

EmitIR ==
  \/ EmitAddr \/ EmitMov \/ EmitAlu \/ EmitDiv \/ EmitNeg \/ EmitCall \/ EmitRet
  \/ EmitJmp \/ EmitJcc \/ EmitOther
Emission == EmitFunction \/ EmitLabel \/ EmitIR \/ EmitNext

Emitted == Generated /\ emitting.fn = Len(funcs) /\ emitting.bb = NoBlock

EmitStop == (crashed \/ failed \/ Emitted) /\ UNCHANGED unitVars
EmitNextStep == LowerStep \/ Emission \/ EmitStop
EmitSpec == EmitInit /\ [][EmitNextStep]_unitVars

-----------------------------------------------------------------------------
(* Properties.                                                             *)

LabelLines(n) == {i \in DOMAIN asm : asm[i].op = "label" /\ asm[i].a = Label(n)}
JumpLines == {i \in DOMAIN asm : asm[i].op \in {"jmp", "jcc"}}

\* No label is defined twice, and in a finished unit every label used is
\* defined: the assembler and the linker accept the jumps.
LabelsDefined ==
  /\ \A n \in 1..nlabels : Cardinality(LabelLines(n)) <= 1
  /\ Emitted => \A i \in JumpLines : LabelLines(asm[i].a.id) # {}

Immediate(s) == s.kind = "const"
Memory(s) == s.kind \in {"var", "temp", "string"}

\* The lines x86 has no encoding for: two operands in memory, leal to memory,
\* an immediate that is written, divided by or compared with.
Refused(line) ==
  \/ line.op \in {"movl", "cmpl"} /\ Memory(line.a) /\ Memory(line.b)
  \/ line.op \in {"movl", "cmpl"} /\ Immediate(line.b)
  \/ line.op = "leal" /\ line.b # Eax
  \/ line.op = "divl" /\ Immediate(line.a)

\* The expressions whose symbol is a constant: what hands its operand's symbol
\* on, as unary +, sizeof, the comma and the increments do, is one with it.
IsImmediate[e \in Trees] ==
  \/ e.kind = "Constant"
  \/ /\ \/ e.kind = "Unary" /\ e.op \notin DOMAIN UnaryOps \cup {"OP_NOT"}
        \/ e.kind = "Binary" /\ e.op \notin DOMAIN ArithOps \cup RelOps \cup LogicOps
        \/ e.kind = "Member" /\ e.op # "OP_PTR_MEMBER"
     /\ IsImmediate[e.a]

\* The expressions that are printed with a refused line: &e, e1 / e2 and e1 % e2
\* with an immediate e2, e1 < e2 and !e1 with an immediate e1, ++ of an immediate.
Misfit(e, op) ==
  CASE op = "leal" -> e.kind = "Unary" /\ e.op = "OP_ADDRESS"
    [] op = "divl" -> e.kind = "Binary" /\ e.op \in {"OP_DIV", "OP_MOD"} /\ IsImmediate[e.b]
    [] op = "cmpl" -> /\ \/ e.kind = "Binary" /\ e.op \in RelOps
                         \/ e.kind = "Unary" /\ e.op = "OP_NOT"
                      /\ IsImmediate[e.a]
    [] op = "movl" -> e.kind = "Unary" /\ e.op \in Incs /\ IsImmediate[e.a]

Children(n) ==
  LET fields(names) == {n[f] : f \in DOMAIN n \cap names}
  IN (fields({"a", "b", "func", "cond", "then", "else", "body", "init", "incr"}) \ {None})
     \cup UNION {{s[i] : i \in DOMAIN s} : s \in fields({"args", "decls", "stmts"})}
Below[n \in Trees] == {n} \cup UNION {Below[m] : m \in Children(n)}

\* Which units the assembler refuses can be told from the source: a line it has
\* no encoding for is printed for the misfits of the unit and for nothing else.
\* In particular no two slots ever meet in one movl or cmpl.
OperandsEncodable ==
  LET nodes == UNION {Below[program[f]] : f \in DOMAIN program}
  IN \A op \in {"movl", "leal", "cmpl", "divl"} :
       LET refused == \E i \in DOMAIN asm : asm[i].op = op /\ Refused(asm[i])
           misfit == \E e \in nodes : Misfit(e, op)
       IN (refused => misfit) /\ (Emitted /\ misfit => refused)
=============================================================================
