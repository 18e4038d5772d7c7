---------------------------- MODULE MCAllocator -----------------------------
(***************************************************************************)
(* Instances of Allocator: a heap that two threads can exhaust.            *)
(***************************************************************************)
EXTENDS Allocator

MCRequests ==
  [op : {"alloc", "alloc_zeroed"}, size : {1, 2}, align : {1, 4}] \cup
  [op : {"realloc"}, size : {1, 2, 3}, align : {1, 4}] \cup
  [op : {"dealloc"}, size : {1, 2, 3}, align : {1, 4}]
=============================================================================
