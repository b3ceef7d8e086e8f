---------------------------- MODULE MCModeration -----------------------------
(* Instances of Moderation and Erasure for TLC.  The admin's pages talk to  *)
(* a server that is not in the repository, the erasure tasks to none of     *)
(* them: they share no state, so a behaviour here moves in one of the two   *)
(* while the other stays as it began, the pages at the cards.               *)
EXTENDS Moderation, Erasure, TLC

CONSTANTS
    t1, t2,         \* two targets
    u1, u2,         \* two users, the first of whom asks to be erased
    r1,             \* the request
    o1, o2,         \* an order of each
    w1, w2          \* two workers

TheUser == r1 :> u1
TheBuyers == o1 :> u1 @@ o2 :> u2

InPages(A) == A /\ ErasureInit /\ UNCHANGED erasure
InTasks(A) == A /\ Init /\ page = "stats" /\ UNCHANGED vars

BothInit == Init /\ ErasureInit

PagesOrTasks ==
    /\ BothInit
    /\ [][InPages(Next) \/ InTasks(ErasureNext)]_<<vars, erasure>>
    /\ \A r \in Requests : WF_erasure(InTasks(EnqueueFanout(r)))
    /\ \A r \in Requests : WF_erasure(InTasks(Approach(r)))
    /\ \A w \in Executors : WF_erasure(InTasks(Works(w)))
    /\ WF_erasure(InTasks(CheckErasureSla))
    /\ WF_erasure(InTasks(OpenRetentionSweep))
    /\ \A r \in Requests : WF_erasure(InTasks(AnonymizeHistory(r)))
=============================================================================
