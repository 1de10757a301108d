--------------------------- MODULE MCCoroutines ---------------------------
(* Coroutines on small instances.  Frames differ only in whether their       *)
(* promise may be borrowed, so they are interchangeable within each class.   *)
EXTENDS Coroutines

Sym == Permutations(Coro \ Borrowable) \cup Permutations(Borrowable)
============================================================================
