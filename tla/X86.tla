--------------------------------- MODULE X86 ---------------------------------
(***************************************************************************)
(* Thread simulator of BSYS: 28_Locks/x86.py ("locks") and its older       *)
(* version 26_Threads/x86.py ("threads").  A program is loaded, then its   *)
(* threads take turns on one CPU: a timer interrupt, yield or halt saves   *)
(* the registers of a thread and restores those of the next.  One step is  *)
(* one instruction with the switch that follows it.                        *)
(***************************************************************************)
EXTENDS Integers, Sequences, FiniteSets, SequencesExt, FiniteSetsExt, Functions, Loops, TLC

CONSTANTS
    X86Options,    \* records [version, prog, intfreq, intrand, procsched, argv]
    LoadAddr,      \* -L
    StackTop, StackSize

ASSUME X86Assumption ==
    /\ LoadAddr \in Nat /\ StackTop \in Nat /\ StackSize \in Nat
    /\ \A o \in X86Options : o.version \in {"threads", "locks"} /\ o.intfreq > 0

VARIABLES
    x86Opt,
    code,          \* the loaded program: pc -> instruction
    machine,       \* the CPU: [pc, regs, conditions, memory]
    procs,         \* thread -> [pc, regs, conditions, done]
    currThread,    \* curr: index into the schedule
    interrupt,     \* instructions to the next interrupt
    x86Status      \* "running", "finished" or "ABORT"

x86Vars == <<x86Opt, code, machine, procs, currThread, interrupt, x86Status>>

Prog == x86Opt.prog
IsLocks == x86Opt.version = "locks"
Threads == DOMAIN x86Opt.argv
Manual == x86Opt.procsched # <<>>
\* procsched: all threads in order, or what the user gave
Schedule1 == IF Manual THEN x86Opt.procsched ELSE [i \in 1 .. Cardinality(Threads) |-> i - 1]

Regs == {"zero", "ax", "bx", "cx", "dx", "sp", "bp"} \union
          (IF IsLocks THEN {"ex", "fx"} ELSE {})

-----------------------------------------------------------------------------
(* Programs.  A line is an instruction or a label; operands have a type.   *)
Imm(n) == [type |-> "imm", n |-> n]
Reg(r) == [type |-> "reg", r |-> r]
Mem(n, r1, r2, scale) == [type |-> "mem", n |-> n, r1 |-> r1, r2 |-> r2, scale |-> scale]
Var(v) == [type |-> "var", v |-> v]
Lab(l) == [type |-> "label", l |-> l]
Ins(op, args) == [op |-> op, args |-> args]
Label(l) == Ins("label", <<Lab(l)>>)

IsLabel(line) == line.op = "label"

\* first pass: the address behind some variables, from 100
DataAfter(vars) == 100 + 4 * FoldLeft(LAMBDA sum, x : sum + x.size, 0, vars)
VarAddr(v) ==
    LET k == CHOOSE i \in DOMAIN Prog.vars : Prog.vars[i].name = v
    IN  DataAfter(SubSeq(Prog.vars, 1, k - 1))

\* the data fits below the program; only the newer version has arrays
VarsOk ==
    /\ Prog.vars = <<>> \/ DataAfter(Prog.vars) < LoadAddr
    /\ IsLocks \/ \A i \in DOMAIN Prog.vars : Prog.vars[i].size = 1

\* first pass: a label is the address of the next instruction
LabelPc(l) ==
    LET k == CHOOSE i \in DOMAIN Prog.lines : Prog.lines[i] = Label(l)
    IN  LoadAddr + Len(SelectSeq(SubSeq(Prog.lines, 1, k), LAMBDA x : ~IsLabel(x)))

Instructions == SelectSeq(Prog.lines, LAMBDA x : ~IsLabel(x))

Indexed(arg) == arg.type = "mem" /\ arg.r2 # "zero"

\* getarg: a variable is the memory at its address, a label an address
Getarg(arg) ==
    CASE arg.type = "var"   -> Mem(VarAddr(arg.v), "zero", "zero", 1)
      [] arg.type = "label" -> [type |-> "label", l |-> LabelPc(arg.l)]
      [] OTHER -> arg

\* the line is split at its first comma, except for mov in the newer
\* version: the second register of a second operand is lost
SplitArgs(ins) ==
    LET args == [i \in DOMAIN ins.args |-> Getarg(ins.args[i])]
    IN  IF ins.op = "mov" /\ IsLocks THEN args
        ELSE [i \in DOMAIN args |-> IF Indexed(args[i])
                                    THEN [args[i] EXCEPT !.r2 = "zero", !.scale = 1]
                                    ELSE args[i]]

\* a comma within the first of two operands splits the line there
SplitOk(ins) ==
    (ins.op = "mov" /\ IsLocks) \/ Len(ins.args) < 2 \/ ~Indexed(ins.args[1])

\* the one digit of an immediate operand, and the registers of the version
OperandOk(arg) ==
    CASE arg.type = "imm" -> IsLocks \/ arg.n \in 0 .. 9
      [] arg.type = "reg" -> arg.r \in Regs
      [] arg.type = "mem" -> {arg.r1, arg.r2} \subseteq Regs
      [] OTHER -> TRUE

MovForms == {<<"imm", "reg">>, <<"mem", "reg">>, <<"reg", "mem">>, <<"reg", "reg">>,
             <<"imm", "mem">>}
ArithForms == {<<"imm", "reg">>, <<"reg", "reg">>}
TestForms == ArithForms \union {<<"reg", "imm">>}
AtomicForms == {<<"reg", "mem">>}
StackForms(op) ==
    CASE op = "push" -> {<<"reg">>, <<"mem">>}
      [] op = "pop"  -> {<<>>, <<"reg">>}
      [] op = "call" -> {<<"label">>}
      [] op = "ret"  -> {<<>>}
Jumps == {"j", "jne", "je", "jlt", "jlte", "jgt", "jgte"}

\* the types of operands an opcode accepts; none if the opcode is illegal
Forms(op) ==
    CASE op = "mov" -> MovForms
      [] op \in {"add", "sub"} \/ (op = "mul" /\ IsLocks) -> ArithForms
      [] op = "test" -> TestForms
      [] op \in {"xchg", "fetchadd"} -> AtomicForms
      [] op = "lea" /\ IsLocks -> {<<"mem", "reg">>}
      [] op = "neg" /\ IsLocks -> {<<"reg">>}
      [] op \in {"push", "pop", "call", "ret"} -> StackForms(op)
      [] op \in Jumps -> {<<"label">>}
      [] op \in {"nop", "halt", "yield", "rdump"} -> {<<>>}
      [] OTHER -> {}

\* second pass: abort, or the instructions from LoadAddr on
LoadOk ==
    /\ VarsOk
    /\ \A i \in DOMAIN Instructions :
          LET ins == Instructions[i] IN
          /\ SplitOk(ins)
          /\ \A k \in DOMAIN ins.args : OperandOk(ins.args[k])
          /\ [k \in DOMAIN ins.args |-> SplitArgs(ins)[k].type] \in Forms(ins.op)

Loaded ==
    [pc \in LoadAddr .. LoadAddr + Len(Instructions) - 1 |->
        LET ins == Instructions[pc - LoadAddr + 1] IN Ins(ins.op, SplitArgs(ins))]

-----------------------------------------------------------------------------
(* Instructions, as functions of the CPU.                                  *)
MemAt(m, a) == IF a \in DOMAIN m.memory THEN m.memory[a] ELSE 0
SetMem(m, a, v) == [m EXCEPT !.memory = (a :> v) @@ @]
SetReg(m, r, v) == [m EXCEPT !.regs[r] = v]

Addr(m, arg) == arg.n + m.regs[arg.r1] + arg.scale * m.regs[arg.r2]

ValueOf(m, arg) ==
    CASE arg.type = "imm" -> arg.n
      [] arg.type = "reg" -> m.regs[arg.r]
      [] arg.type = "mem" -> MemAt(m, Addr(m, arg))

Move(m, src, dst) ==
    IF dst.type = "reg" THEN SetReg(m, dst.r, ValueOf(m, src))
                        ELSE SetMem(m, Addr(m, dst), ValueOf(m, src))

Arith(op, a, b) ==
    CASE op = "add" -> a + b [] op = "sub" -> a - b [] op = "mul" -> a * b

\* mutant: the exchange does not store
AtomicExchangeLoads(m, src, dst) == SetReg(m, src.r, ValueOf(m, dst))

AtomicExchange(m, src, dst) ==
    SetReg(SetMem(m, Addr(m, dst), m.regs[src.r]), src.r, ValueOf(m, dst))

FetchAdd(m, src, dst) ==
    SetReg(SetMem(m, Addr(m, dst), ValueOf(m, dst) + m.regs[src.r]), src.r, ValueOf(m, dst))

\* the conditions that hold of "dst ? src"
TestAll(src, dst) ==
    {c \in {"gt", "gte", "lt", "lte", "eq", "neq"} :
        CASE c = "gt" -> dst > src  [] c = "gte" -> dst >= src
          [] c = "lt" -> dst < src  [] c = "lte" -> dst <= src
          [] c = "eq" -> dst = src  [] c = "neq" -> dst # src}

JumpTaken(op, conditions) ==
    CASE op = "j" -> TRUE
      [] op = "jne" -> "neq" \in conditions  [] op = "je" -> "eq" \in conditions
      [] op = "jlt" -> "lt" \in conditions   [] op = "jlte" -> "lte" \in conditions
      [] op = "jgt" -> "gt" \in conditions   [] op = "jgte" -> "gte" \in conditions

Push(m, v) == SetMem(SetReg(m, "sp", m.regs["sp"] - 4), m.regs["sp"] - 4, v)

\* what push puts on the stack; an address, not what is there
Pushed(m, arg) == IF arg.type = "reg" THEN m.regs[arg.r] ELSE Addr(m, arg)

\* pop_r of the newer version
PopR(m, r) == SetReg(SetReg(m, r, MemAt(m, m.regs["sp"])), "sp", m.regs["sp"] + 4)

PopRThreads(m, r) == SetReg(SetReg(m, r, m.regs["sp"]), "sp", m.regs["sp"] + 4)

Pop(m, args) ==
    IF args = <<>> THEN SetReg(m, "sp", m.regs["sp"] + 4)
    ELSE IF IsLocks THEN PopR(m, args[1].r) ELSE PopRThreads(m, args[1].r)

Call(m, targ) == [Push(m, m.pc) EXCEPT !.pc = targ]
Ret(m) == [SetReg(m, "sp", m.regs["sp"] + 4) EXCEPT !.pc = MemAt(m, m.regs["sp"])]

\* eval(instruction), after the PC was incremented
Eval(m, ins) ==
    LET a == ins.args
    IN  CASE ins.op = "mov" -> Move(m, a[1], a[2])
          [] ins.op = "lea" -> SetReg(m, a[2].r, Addr(m, a[1]))
          [] ins.op \in {"add", "sub", "mul"} ->
                SetReg(m, a[2].r, Arith(ins.op, m.regs[a[2].r], ValueOf(m, a[1])))
          [] ins.op = "neg" -> SetReg(m, a[1].r, -m.regs[a[1].r])
          [] ins.op = "xchg" -> AtomicExchange(m, a[1], a[2])
          [] ins.op = "fetchadd" -> FetchAdd(m, a[1], a[2])
          [] ins.op = "test" ->
                [m EXCEPT !.conditions = TestAll(ValueOf(m, a[1]), ValueOf(m, a[2]))]
          [] ins.op \in Jumps ->
                IF JumpTaken(ins.op, m.conditions) THEN [m EXCEPT !.pc = a[1].l] ELSE m
          [] ins.op = "push" -> Push(m, Pushed(m, a[1]))
          [] ins.op = "pop" -> Pop(m, a)
          [] ins.op = "call" -> Call(m, a[1].l)
          [] ins.op = "ret" -> Ret(m)
          [] ins.op \in {"nop", "halt", "yield", "rdump"} -> m

-----------------------------------------------------------------------------
(* The process list.  S is [machine, procs, curr].                         *)
Tid(S) == Schedule1[S.curr]

Save(S) ==
    [S EXCEPT !.procs[Tid(S)] = [pc |-> S.machine.pc, regs |-> S.machine.regs,
                                 conditions |-> S.machine.conditions, done |-> @.done]]

\* mutant: the condition codes are those of the thread before
RestoreNoConditions(S) ==
    LET p == S.procs[Tid(S)]
    IN  [S EXCEPT !.machine.pc = p.pc, !.machine.regs = p.regs]

Restore(S) ==
    LET p == S.procs[Tid(S)]
    IN  [S EXCEPT !.machine.pc = p.pc, !.machine.regs = p.regs,
                  !.machine.conditions = p.conditions]

Done(S) == [S EXCEPT !.procs[Tid(S)].done = TRUE]

\* next() of the newer version: the next entry of the schedule whose thread
\* is not done
NextLocks(S) ==
    LET n == Len(Schedule1)
        after(d) == ((S.curr - 1 + d) % n) + 1
        steps == {d \in 1 .. n : ~S.procs[Schedule1[after(d)]].done}
    IN  [S EXCEPT !.curr = after(Min(steps))]

\* next() of the older version: first the threads behind, then from the start
NextThreads(S) ==
    LET ready  == {i \in DOMAIN Schedule1 : ~S.procs[Schedule1[i]].done}
        behind == {i \in ready : i > S.curr}
    IN  [S EXCEPT !.curr = Min(IF behind # {} THEN behind ELSE ready)]

Next1(S) == IF IsLocks THEN NextLocks(S) ELSE NextThreads(S)

\* a manual schedule interrupts after each instruction
SetInt ==
    IF Manual THEN {1} ELSE IF x86Opt.intrand THEN 1 .. x86Opt.intfreq ELSE {x86Opt.intfreq}

InitialRegs(t) ==
    [r \in Regs |-> IF r = "sp" THEN StackTop - StackSize * t
                    ELSE IF r \in DOMAIN x86Opt.argv[t] THEN x86Opt.argv[t][r] ELSE 0]

Process(t) == [pc |-> LoadAddr, regs |-> InitialRegs(t), conditions |-> {}, done |-> FALSE]

X86Init ==
    /\ x86Opt \in X86Options
    /\ procs = [t \in Threads |-> Process(t)]
    /\ currThread = 1
    /\ interrupt \in SetInt
    /\ machine = [pc |-> LoadAddr, regs |-> procs[Schedule1[1]].regs, conditions |-> {},
                  memory |-> <<>>]
    /\ code = IF LoadOk THEN Loaded ELSE <<>>
    /\ x86Status = IF LoadOk THEN "running" ELSE "ABORT"

\* halt: done(), and the next thread unless it was the last
Halted(S) ==
    Let(LAMBDA D : IF \A t \in Threads : D.procs[t].done THEN D ELSE Let(Restore, Next1(D)),
        Done(S))

Switched(S) == Let(Restore, Let(Next1, Save(S)))

\* one iteration of run()
Run ==
    /\ x86Status = "running"
    /\ \E ins \in {code[machine.pc]} :
       \E S1 \in {[machine |-> Eval([machine EXCEPT !.pc = @ + 1], ins),
                   procs |-> procs, curr |-> currThread]} :
       \E S2 \in {IF ins.op = "halt" THEN Halted(S1) ELSE S1} :
       \E finished \in {\A t \in Threads : S2.procs[t].done} :
       \E S3 \in {IF ~finished /\ (interrupt = 1 \/ ins.op = "yield")
                  THEN Switched(S2) ELSE S2} :
          /\ machine' = S3.machine /\ procs' = S3.procs /\ currThread' = S3.curr
          /\ x86Status' = IF finished THEN "finished" ELSE "running"
          /\ IF finished THEN UNCHANGED interrupt
             ELSE IF interrupt = 1 \/ ins.op = "yield" THEN interrupt' \in SetInt
             ELSE interrupt' = interrupt - 1
    /\ UNCHANGED <<x86Opt, code>>

-----------------------------------------------------------------------------
Current == Schedule1[currThread]

\* the registers, conditions and PC of a thread, wherever they are
Context(t) ==
    IF t = Current
    THEN [pc |-> machine.pc, regs |-> machine.regs, conditions |-> machine.conditions]
    ELSE [pc |-> procs[t].pc, regs |-> procs[t].regs, conditions |-> procs[t].conditions]

(* A switch keeps the context: while other threads run, interrupted at any *)
(* instruction, by yield or by halt, nothing of a thread's PC, registers   *)
(* and condition codes changes.                                            *)
ContextKept ==
    [][\A t \in Threads : t # Current => Context(t)' = Context(t)]_x86Vars

\* the addresses of the critical section: load, add and store of count
CriticalPcs ==
    LET first == {pc \in DOMAIN code : Instructions[pc - LoadAddr + 1].op = "mov"
                                       /\ Instructions[pc - LoadAddr + 1].args[1] = Var("count")}
    IN  UNION {pc .. pc + 2 : pc \in first}
InCritical(t) == ~procs[t].done /\ Context(t).pc \in CriticalPcs

(* The locks exclude: with test-and-set, test-and-test-and-set, ticket,    *)
(* yield and Peterson's algorithm two threads are never in the critical    *)
(* section, wherever the interrupts fall.                                  *)
MutualExclusion ==
    Prog.locked => \A t, u \in Threads : t # u => ~(InCritical(t) /\ InCritical(u))

(* No update is lost: at the end count is the number of iterations of all  *)
(* threads.                                                                *)
CountRight ==
    x86Status = "finished" /\ Prog.locked =>
        MemAt(machine, VarAddr("count"))
            = MapThenSumSet(LAMBDA t : Max({1} \union {x86Opt.argv[t][r] :
                                 r \in DOMAIN x86Opt.argv[t] \intersect Prog.loops}), Threads)

(* The stacks of the threads are separate and balanced: a thread that      *)
(* halts has popped what it pushed before a call, and its stack is empty.  *)
StackBalanced ==
    x86Status = "running" /\ Prog.stack /\ code[machine.pc].op = "halt" =>
        /\ machine.regs["sp"] = StackTop - StackSize * Current
        /\ machine.regs["bx"] = x86Opt.argv[Current]["ax"]
=============================================================================
