------------------------------ MODULE Selection ------------------------------
(***************************************************************************)
(* The elements of a list that pass a test, in their order: what filter is *)
(* to the code.  It is SelectSeq, said of the positions that pass, so that *)
(* what it returns can be stated for every list and proved.                *)
(***************************************************************************)
EXTENDS Integers, Sequences

Selected(s, positions) ==
    LET kept[i \in 0..Len(s)] ==
          IF i = 0 THEN <<>>
          ELSE IF i \in positions THEN Append(kept[i - 1], s[i]) ELSE kept[i - 1]
    IN kept[Len(s)]

filter(s, test(_)) == Selected(s, {i \in DOMAIN s : test(s[i])})
=============================================================================
