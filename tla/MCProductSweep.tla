--------------------------- MODULE MCProductSweep ---------------------------
(* Two runs over two products and two promotions, of which one has no PLIDs: *)
(* its links would be of the other.                                          *)
EXTENDS ProductSweep

CONSTANTS r1, r2, p1, p2, deals, offer

VARIABLE plan       \* the tasks the two runs are of

\* The clean-up has pages of two, so that its pool of one has a queue.
MCSize == [k \in Kind |-> IF k = "cleanup" THEN 2 ELSE 1]
MCOn   == [o \in Offer |-> IF o = deals THEN Plid ELSE {}]

\* Who is to read the rows of a table.
Readers(t) ==
    {r \in Run : IF t = "brand" THEN plan[r] = "brands"
                                ELSE plan[r] \in {"prices", "cleanup", "deals"}}

MCInit == Init /\ plan \in [Run -> Kinds]

\* The handlers insert what one of the runs reads: the others cannot tell.
MCNext ==
    /\ Next /\ UNCHANGED plan
    /\ product' # product => Readers("product") # {}
    /\ brands' # brands => Readers("brand") # {}
    /\ \A r \in Run : pc[r] # "idle" \/ pc'[r] = "idle" \/ kind'[r] = plan[r]

MCSpec == MCInit /\ [][MCNext]_<<plan, vars>> /\ Fairness
=============================================================================
