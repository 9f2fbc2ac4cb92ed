CONSTANTS
  o1 = o1
  o2 = o2
  Objs <- MC_Objs
  BorrowArgs <- MC_BorrowArgs
  STACK_TOP <- MC_STACK_TOP
  MaxHeap <- MC_MaxHeap
  MaxDepth <- MC_MaxDepth
SPECIFICATION Spec
INVARIANTS
  BorrowIntact
