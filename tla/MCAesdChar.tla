----------------------------- MODULE MCAesdChar -----------------------------
(* Model constants for AesdChar.                                           *)
EXTENDS AesdChar

CONSTANTS x, nl

(* Writes of zero bytes, of a piece of an entry, of a newline that ends an *)
(* entry or is one, and of a newline that is not the last byte.            *)
MCChunks == {<<>>, <<x>>, <<nl>>, <<nl, x>>}

(* A write of zero bytes kills its caller with the lock held; the runs     *)
(* about what live processes do leave it out.                              *)
MCNonEmptyChunks == {<<x>>, <<x, nl>>}

(* Kernel addresses are interchangeable.                                   *)
PtrSymmetry == Permutations(Ptr)

(* So are the processes.                                                   *)
FullSymmetry == Permutations(Ptr) \cup Permutations(Proc)

=============================================================================
