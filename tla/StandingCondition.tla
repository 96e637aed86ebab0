-------------------------- MODULE StandingCondition --------------------------
(***************************************************************************)
(* What a reporter of standing conditions promises the reader of its        *)
(* journal: it looks, and every record it writes is true of its last look.  *)
(* A condition is raised only if that look saw it, and answered only if     *)
(* that look did not.  The journal may forget, and then it forgets all.     *)
(***************************************************************************)
CONSTANT Item

VARIABLES
    seen,   \* the conditions the last look found standing
    told    \* the conditions the journal last spoke of as standing

Init == seen = {} /\ told = {}

Look == /\ seen' \in SUBSET Item
        /\ UNCHANGED told

Raise(i) == /\ i \in seen
            /\ told' = told \cup {i}
            /\ UNCHANGED seen

Answer(i) == /\ i \notin seen
             /\ told' = told \ {i}
             /\ UNCHANGED seen

Forget == /\ told' = {}
          /\ UNCHANGED seen

Next == \/ Look
        \/ \E i \in Item : Raise(i) \/ Answer(i)
        \/ Forget

Spec == Init /\ [][Next]_<<seen, told>>
=============================================================================
