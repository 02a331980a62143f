---------------------------- MODULE MCTokenCache ----------------------------
(* Instances of TokenCache for TLC.                                         *)
EXTENDS TokenCache, TLC

CONSTANTS c1, c2

Symmetry == Permutations(Call)

Limit(ticks, tokens, ends) == [time |-> ticks, tokens |-> tokens, gone |-> ends]

(* The unlocked reads of "graph" leave no room for more.                    *)
MCBound == "azure" :> Limit(1, 2, 1) @@ "graph" :> Limit(1, 3, 0)
             @@ "custom" :> Limit(2, 3, 2) @@ "codex" :> Limit(2, 3, 1)

(* A token whose answer was late, and one whose expiry was not stated.      *)
MCSaved == {[left |-> 1, late |-> 1, dated |-> TRUE], [left |-> 2, late |-> 0, dated |-> FALSE]}

(* One operation of each form.                                              *)
MCExplored == "azure" :> {AzureHealth, AzureRead, AzureSearch} @@ "graph" :> {GraphSearch}
                @@ "custom" :> {Complete} @@ "codex" :> {Complete}

=============================================================================
