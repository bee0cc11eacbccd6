----------------------------- MODULE NameCache -----------------------------
(***************************************************************************)
(* What the resolver promises to the screen (domain.h): asking for the     *)
(* name of an address never waits; the address in text form is the answer  *)
(* until its name is known, and the name afterwards.  At most Capacity     *)
(* addresses are remembered, and only resolved ones are forgotten.         *)
(***************************************************************************)
EXTENDS Naturals, FiniteSets

CONSTANTS Addr, Capacity

VARIABLES
    known,      \* what is remembered of each address
    answer      \* the last answer: for which address, and in which form

vars == <<known, answer>>

Known  == {"absent", "resolving", "resolved"}
Answer == [of : Addr, form : {"text", "name"}]

Init ==
    /\ known = [a \in Addr |-> "absent"]
    /\ answer \in [of : Addr, form : {"text"}]

Ask(a) ==
    /\ answer' = [of |-> a, form |-> IF known[a] = "resolved" THEN "name" ELSE "text"]
    /\ UNCHANGED known

\* The first question about an address starts its resolution, for which a
\* resolved one may have to go.
Start(a, gone) ==
    /\ known[a] = "absent"
    /\ \A b \in gone : known[b] = "resolved"
    /\ answer' = [of |-> a, form |-> "text"]
    /\ known' = [b \in Addr |-> IF b = a THEN "resolving"
                                ELSE IF b \in gone THEN "absent" ELSE known[b]]
    /\ Cardinality({b \in Addr : known'[b] # "absent"}) <= Capacity

Finish(a) ==
    /\ known[a] = "resolving"
    /\ known' = [known EXCEPT ![a] = "resolved"]
    /\ UNCHANGED answer

Next == \E a \in Addr :
    \/ Ask(a)
    \/ Start(a, {}) \/ (\E b \in Addr : Start(a, {b}))
    \/ Finish(a)

Spec == Init /\ [][Next]_vars
=============================================================================
