---------------------------- MODULE MC_WasmHeap ----------------------------
(* The heap scaled down: 3 stack slots instead of 128, so that two nested *)
(* borrowing calls fill the stack and a third overflows it, and room for  *)
(* two slab slots.                                                         *)
EXTENDS WasmHeap

CONSTANTS o1, o2

MC_Objs == {o1, o2}
MC_STACK_TOP == 3
MC_MaxHeap == MC_STACK_TOP + 4 + 2
MC_MaxDepth == 3
MC_BorrowArgs == {<<o1>>, <<o2>>, <<o1, o2>>}

\* With JobMessageWrapper's three lent arguments (line 677) the drift of
\* stack_pointer after an 'out of js stack' passes SLAB_START.
MC_BorrowArgsJob == {<<o1>>, <<o1, o2, o1>>}
=============================================================================
