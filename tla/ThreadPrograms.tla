---------------------------- MODULE ThreadPrograms ----------------------------
(***************************************************************************)
(* The assembler programs of 28_Locks and 26_Threads, as X86 loads them.   *)
(* A program is [vars, lines, locked, stack, loops]: locked says that its  *)
(* updates of count are guarded by a lock, stack that it uses the stack,   *)
(* and loops names the register that counts its iterations.                *)
(***************************************************************************)
EXTENDS X86

Scalars(names) == [i \in DOMAIN names |-> [name |-> names[i], size |-> 1]]
Program(vars, lines) ==
    [vars |-> vars, lines |-> lines, locked |-> FALSE, stack |-> FALSE, loops |-> {}]
Locked(prog) == [prog EXCEPT !.locked = TRUE, !.loops = {"bx"}]

Mov(src, dst) == Ins("mov", <<src, dst>>)
Test(src, dst) == Ins("test", <<src, dst>>)
Jump(op, l) == Ins(op, <<Lab(l)>>)
Halt == Ins("halt", <<>>)
ax == Reg("ax")
bx == Reg("bx")
cx == Reg("cx")

\* the critical section of the lock programs
Increment ==
    <<Mov(Var("count"), ax), Ins("add", <<Imm(1), ax>>), Mov(ax, Var("count"))>>
StillLooping ==
    <<Ins("sub", <<Imm(1), bx>>), Test(Imm(0), bx), Jump("jgt", "top"), Halt>>

Flag ==
    Program(Scalars(<<"flag", "count">>),
        <<Label("main"), Label("top"), Label("acquire"),
          Mov(Var("flag"), ax), Test(Imm(0), ax), Jump("jne", "acquire"),
          Mov(Imm(1), Var("flag"))>>
        \o Increment \o <<Mov(Imm(0), Var("flag"))>> \o StillLooping)

TestAndSet ==
    Locked(Program(Scalars(<<"mutex", "count">>),
        <<Label("main"), Label("top"), Label("acquire"),
          Mov(Imm(1), ax), Ins("xchg", <<ax, Var("mutex")>>),
          Test(Imm(0), ax), Jump("jne", "acquire")>>
        \o Increment \o <<Mov(Imm(0), Var("mutex"))>> \o StillLooping))

TestAndTestAndSet ==
    Locked(Program(Scalars(<<"mutex", "count">>),
        <<Label("main"), Label("top"), Label("acquire"),
          Mov(Var("mutex"), ax), Test(Imm(0), ax), Jump("jne", "acquire"),
          Mov(Imm(1), ax), Ins("xchg", <<ax, Var("mutex")>>),
          Test(Imm(0), ax), Jump("jne", "acquire")>>
        \o Increment \o <<Mov(Imm(0), Var("mutex"))>> \o StillLooping))

Ticket ==
    Locked(Program(Scalars(<<"ticket", "turn", "count">>),
        <<Label("main"), Label("top"), Label("acquire"),
          Mov(Imm(1), ax), Ins("fetchadd", <<ax, Var("ticket")>>), Label("tryagain"),
          Mov(Var("turn"), cx), Test(cx, ax), Jump("jne", "tryagain")>>
        \o Increment
        \o <<Mov(Imm(1), ax), Ins("fetchadd", <<ax, Var("turn")>>)>> \o StillLooping))

Yield ==
    Locked(Program(Scalars(<<"mutex", "count">>),
        <<Label("main"), Label("top"), Label("acquire"),
          Mov(Imm(1), ax), Ins("xchg", <<ax, Var("mutex")>>), Test(Imm(0), ax),
          Jump("je", "acquire_done"), Ins("yield", <<>>), Jump("j", "acquire"),
          Label("acquire_done")>>
        \o Increment \o <<Mov(Imm(0), Var("mutex"))>> \o StillLooping))

\* flag[self] is 0(%fx,%bx,4)
FlagOf(r) == Mem(0, "fx", r, 4)
Peterson ==
    [Locked(Program(<<[name |-> "flag", size |-> 2]>> \o Scalars(<<"turn", "count">>),
        <<Label("main"), Ins("lea", <<Var("flag"), Reg("fx")>>),
          Mov(bx, cx), Ins("neg", <<cx>>), Ins("add", <<Imm(1), cx>>),
          Label("acquire"), Mov(Imm(1), FlagOf("bx")), Mov(cx, Var("turn")),
          Label("spin1"), Mov(FlagOf("cx"), ax), Test(Imm(1), ax), Jump("jne", "fini"),
          Label("spin2"), Mov(Var("turn"), ax), Test(cx, ax), Jump("je", "spin1"),
          Label("fini")>>
        \o Increment
        \o <<Label("release"), Mov(Imm(0), FlagOf("bx")), Mov(cx, Var("turn")), Halt>>))
     EXCEPT !.loops = {}]

\* 26_Threads
ThreadLoop ==
    Program(<<>>, <<Label("main"), Label("top"), Ins("sub", <<Imm(1), Reg("dx")>>),
                    Test(Imm(0), Reg("dx")), Jump("jgte", "top"), Halt>>)
At2000(r) == Mem(2000, r, "zero", 1)
LoopingRace ==
    Program(<<>>, <<Label("main"), Label("top"), Mov(At2000("zero"), ax),
                    Ins("add", <<Imm(1), ax>>), Mov(ax, At2000("zero"))>> \o StillLooping)
SimpleRace ==
    Program(<<>>, <<Label("main"), Mov(At2000("bx"), ax), Ins("add", <<Imm(1), ax>>),
                    Mov(ax, At2000("bx")), Halt>>)
WaitForMe ==
    Program(<<>>, <<Label("main"), Test(Imm(1), ax), Jump("je", "signaller"),
                    Label("waiter"), Mov(At2000("zero"), cx), Test(Imm(1), cx),
                    Jump("jne", "waiter"), Halt,
                    Label("signaller"), Mov(Imm(1), At2000("zero")), Halt>>)
=============================================================================
