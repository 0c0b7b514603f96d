------------------------------ MODULE RowLocks ------------------------------
(***************************************************************************)
(* What the database does with transactions that wait for each other's row *)
(* locks: it finds those that wait in a circle and aborts one of them.     *)
(***************************************************************************)

\* waits holds <<y, z>> when y waits for z.  x waits for itself through others:
\* x is in every set that has whom x waits for, and whom its members wait for.
InCircle(x, txns, waits) ==
    \A S \in SUBSET txns :
        (\A w \in waits : w[1] \in S \union {x} => w[2] \in S) => x \in S
=============================================================================
