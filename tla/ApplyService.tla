--------------------------- MODULE ApplyService ---------------------------
(***************************************************************************)
(* What an application worker promises to its owner, whatever threads,     *)
(* channels, batches and failures are behind it: entries are accepted in   *)
(* order while it is open, they become durable in the order of their       *)
(* acceptance and only while it is open, and whoever starts it again finds *)
(* all that was reported durable and nothing that was never accepted.      *)
(***************************************************************************)
EXTENDS Integers

VARIABLES open,       \* whether entries are accepted
          accepted,   \* the last entry accepted
          durable     \* the last entry reported durable

svars == <<open, accepted, durable>>

ServiceInit ==
    /\ open = TRUE
    /\ accepted \in Nat
    /\ durable = accepted

\* try_submit: the next entries, some more.
Accept ==
    /\ open
    /\ accepted' \in Nat /\ accepted < accepted'
    /\ UNCHANGED <<open, durable>>

\* durable_through: more of the accepted entries are applied.
Report ==
    /\ open
    /\ durable' \in Nat /\ durable < durable' /\ durable' <= accepted
    /\ UNCHANGED <<open, accepted>>

\* The service fails, or is shut down.
Close ==
    /\ open
    /\ open' = FALSE
    /\ UNCHANGED <<accepted, durable>>

\* It is started again on its store.
Reopen ==
    /\ ~open
    /\ open' = TRUE
    /\ durable' \in Nat /\ durable <= durable' /\ durable' <= accepted
    /\ accepted' = durable'

ServiceNext == Accept \/ Report \/ Close \/ Reopen

ServiceSpec == ServiceInit /\ [][ServiceNext]_svars

=============================================================================
