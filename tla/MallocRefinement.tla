-------------------------- MODULE MallocRefinement --------------------------
(***************************************************************************)
(* The allocator implements HeapService: what is free is what its list     *)
(* holds.                                                                  *)
(***************************************************************************)
EXTENDS Malloc

Service == INSTANCE HeapService WITH avail <- FreeBytes

\* Seen through that mapping, every call is one of the service: blocks come out
\* of free memory and are aligned as asked, what is freed can be had again, and
\* NULL is returned only when "there was not enough memory available"
\* (include/cl_l1_malloc.h 48, 75) in one piece, with the 24 bytes that an
\* aligned block is searched with.
ImplementsHeap == Service!Spec

=============================================================================
