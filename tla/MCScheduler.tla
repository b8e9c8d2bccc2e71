----------------------------- MODULE MCScheduler -----------------------------
(* Small block trees for Scheduler. *)
EXTENDS Scheduler

CONSTANTS A, B, C, D, X, Y

\* A - B - C, with D competing with B.
ForkBlocks == {A, B, C, D}
ForkParent == A :> Genesis @@ B :> A @@ C :> B @@ D :> A

\* X is written along one branch and removed along the other; C reads it.
ForkKind ==
    A :> (X :> "write"  @@ Y :> "none") @@
    B :> (X :> "write"  @@ Y :> "write") @@
    C :> (X :> "read"   @@ Y :> "write") @@
    D :> (X :> "remove" @@ Y :> "read")

\* A - B - C on one resource: a writer, one that fails to write, a reader.
LineBlocks == {A, B, C}
LineParent == A :> Genesis @@ B :> A @@ C :> B
LineKind == A :> (X :> "write") @@ B :> (X :> "write") @@ C :> (X :> "read")

\* A - B - C on two resources: nothing, then one write each.
StepKind ==
    A :> (X :> "none"  @@ Y :> "none") @@
    B :> (X :> "write" @@ Y :> "none") @@
    C :> (X :> "none"  @@ Y :> "write")

\* A - B with D competing with B, on one resource.
FlipBlocks == {A, B, D}
FlipParent == A :> Genesis @@ B :> A @@ D :> A
FlipKind == A :> (X :> "write") @@ B :> (X :> "write") @@ D :> (X :> "remove")
=============================================================================
