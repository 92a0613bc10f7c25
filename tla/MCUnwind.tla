------------------------------ MODULE MCUnwind ------------------------------
(* A program for Unwind: _start calls main, which calls f and a function   *)
(* of a library again and again; f returns early, calls a leaf, or calls   *)
(* itself; the library calls f back.                                       *)
EXTENDS Unwind

I(op, imm, to) == [op |-> op, imm |-> imm % 65536, to |-> to]

MCStart == 13
Main == 15
F == 27
Leaf == 41
LibFunction == 2

Library == << I("other", 0, 0), I("addiu", -2, 0), I("sw", 1, 0), I("call", 0, F),
              I("lw", 1, 0), I("other", 0, 0), I("addiu", 2, 0), I("jr", 0, 0) >>
Image == << I("addiu", -4, 0), I("call", 0, Main), I("hlt", 0, 0),
            \* main
            I("addiu", -2, 0), I("sw", 1, 0), I("branch", 0, 20), I("call", 0, F),
            I("branch", 0, 17), I("call", 0, LibFunction), I("branch", 0, 17),
            I("lw", 1, 0), I("other", 0, 0), I("addiu", 2, 0), I("jr", 0, 0), I("other", 0, 0),
            \* f, which sets up gp
            I("other", 0, 0), I("addiu", -3, 0), I("sw", 2, 0), I("branch", 0, 34),
            I("lw", 2, 0), I("addiu", 3, 0), I("jr", 0, 0),
            I("call", 0, Leaf), I("branch", 0, 37), I("call", 0, F),
            I("lw", 2, 0), I("other", 0, 0), I("addiu", 3, 0), I("jr", 0, 0),
            \* the leaf
            I("addiu", -1, 0), I("other", 0, 0), I("addiu", 1, 0), I("jr", 0, 0) >>

MCText == [a \in 2..9 \cup 12..44 |-> IF a < 12 THEN Library[a - 1] ELSE Image[a - 11]]

MCStack == 50..62
MCStackTop == 62
M(from, to, readable) == [vmStart |-> from, vmEnd |-> to, readable |-> readable]
MCLibMap == M(2, 10, TRUE)
MCImageMaps == {M(11, 12, FALSE), M(12, 45, TRUE), M(50, 63, TRUE)}

\* The functions of the program: the startup code, the library's, main, f and the leaf.
Fn(entry, first, last, size, saves) ==
  [entry |-> entry, first |-> first, last |-> last, size |-> size, saves |-> saves]
MCStartup == Fn(12, 12, 14, 4, 0)
MCFunctions == {Fn(LibFunction, 3, 9, 2, 1), Fn(Main, Main, 25, 2, 1), Fn(F, 28, 40, 3, 2),
                Fn(Leaf, Leaf, 44, 1, 0)}
=============================================================================
