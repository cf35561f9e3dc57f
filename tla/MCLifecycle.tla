---------------------------- MODULE MCLifecycle ----------------------------
(***************************************************************************)
(* Model values for Lifecycle: two threads, two paths, either binding.     *)
(***************************************************************************)
EXTENDS Lifecycle

CONSTANTS t1, t2, pathA, pathB

TwoCallers == {t1, t2}
TwoPaths == {pathA, pathB}
BothBindings == {"ios", "jni"}

=============================================================================
