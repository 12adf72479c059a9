--------------------------- MODULE MCCallbackInbox ---------------------------
(* Instances of CallbackInbox for TLC. *)
EXTENDS CallbackInbox, TLC

CONSTANTS w1, w2, s1, o1, u1

\* Workers are interchangeable.
WorkerSymmetry == Permutations(Workers)

\* A progress batch and a final one, one fact each.
MCPayloads == {[status |-> "running", count |-> 1],
               [status |-> "success", count |-> 1]}
=============================================================================
