------------------------------ MODULE Mainline ------------------------------
(***************************************************************************)
(* What merging through windows promises about the protected branch,       *)
(* without locks, processes or files: the branch moves only to a tree that *)
(* a gate has judged green and that contains everything the branch already *)
(* had, and a spec is announced as shipped only once the branch has it.    *)
(* MergeWindow implements this specification.                              *)
(***************************************************************************)
EXTENDS Naturals

CONSTANTS
    Specs,   \* the specs of one project
    Exts     \* how many commits came from elsewhere, as far as counted

VARIABLES
    main,    \* the branch: the external commits and the specs it contains
    green,   \* trees judged green
    shipped  \* specs announced as shipped

Commit == [ext : Exts, merged : SUBSET Specs]

Init == main = [ext |-> 0, merged |-> {}] /\ green = {} /\ shipped = {}

\* A verdict, on any tree.
Verify(tree) ==
    /\ green' = green \cup {tree}
    /\ UNCHANGED <<main, shipped>>

\* The branch moves to a green tree built on what it contains now.
Land(tree) ==
    /\ tree \in green
    /\ tree.ext = main.ext /\ main.merged \subseteq tree.merged
    /\ main' = tree
    /\ UNCHANGED <<green, shipped>>

Announce(s) ==
    /\ s \in main.merged
    /\ shipped' = shipped \cup {s}
    /\ UNCHANGED <<main, green>>

External ==
    /\ main' = [main EXCEPT !.ext = @ + 1]
    /\ UNCHANGED <<green, shipped>>

Next ==
    \/ \E tree \in Commit : Verify(tree) \/ Land(tree)
    \/ \E s \in Specs : Announce(s)
    \/ External

Spec == Init /\ [][Next]_<<main, green, shipped>>
=============================================================================
