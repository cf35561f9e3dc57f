----------------------------- MODULE LogWindow -----------------------------
(***************************************************************************)
(* What the persistent ring promises: a log to which entries are appended, *)
(* of which a window of the newest entries can be read back.  An append    *)
(* may push the oldest entries out of the window, never the new one, and   *)
(* nothing else changes the window.  The consumer is given entries of the  *)
(* window, in the order they were appended, each at most once.             *)
(***************************************************************************)
EXTENDS Naturals, Sequences

CONSTANTS Contents

VARIABLES
    entries,        \* the contents appended so far
    window,         \* the entries that can be read back
    consumed        \* the entries given to the consumer, in order

logVars == <<entries, window, consumed>>

Init ==
    /\ entries = <<>>
    /\ window = {}
    /\ consumed = <<>>

Newest == Len(entries) + 1

AppendEntry ==
    /\ \E c \in Contents : entries' = Append(entries, c)
    /\ \E n \in 1 .. Newest :
          window' = {w \in window \cup {Newest} : w >= n}
    /\ UNCHANGED consumed

Consume ==
    /\ Len(consumed) <= Len(consumed')
    /\ \A k \in 1 .. Len(consumed) : consumed'[k] = consumed[k]
    /\ \A k \in Len(consumed) + 1 .. Len(consumed') : consumed'[k] \in window
    /\ \A j, k \in 1 .. Len(consumed') : j < k => consumed'[j] < consumed'[k]
    /\ UNCHANGED <<entries, window>>

Next == AppendEntry \/ Consume

Spec == Init /\ [][Next]_logVars

=============================================================================
