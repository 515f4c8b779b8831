------------------------------- MODULE Lists --------------------------------
(***************************************************************************)
(* Sequences as Python's lists are used in this code: a loop that carries  *)
(* a value along a list, a comprehension that drops elements, a sum.  They *)
(* rest on one recursive function, so that proofs can speak of them        *)
(* (module ListsProofs).                                                   *)
(***************************************************************************)
EXTENDS Naturals, Sequences

Elements(s) == {s[k] : k \in DOMAIN s}

(* The value op, a function of pairs, has made of base by the end of s.    *)
Reduce(op, base, s) ==
    LET so[n \in 0 .. Len(s)] == IF n = 0 THEN base ELSE op[<<so[n - 1], s[n]>>]
    IN  so[Len(s)]

(* [x for x in s if x in S] *)
Only(s, S) ==
    Reduce([p \in Seq(Elements(s)) \X Elements(s) |->
                IF p[2] \in S THEN Append(p[1], p[2]) ELSE p[1]], <<>>, s)

(* [x for x in s if x != e] *)
Without(s, e) == Only(s, Elements(s) \ {e})

(* for x in t: if x not in s: s.append(x) *)
Extended(s, t) ==
    Reduce([p \in Seq(Elements(s) \cup Elements(t)) \X Elements(t) |->
                IF p[2] \in Elements(p[1]) THEN p[1] ELSE Append(p[1], p[2])], s, t)

(* sum(weight[x] for x in s) *)
Sum(weight, s) == Reduce([p \in Nat \X Elements(s) |-> p[1] + weight[p[2]]], 0, s)

(* No element twice. *)
Distinct(s) == \A j, k \in DOMAIN s : s[j] = s[k] => j = k
=============================================================================
