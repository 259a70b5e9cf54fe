---------------------------------- MODULE Lists ----------------------------------
(****************************************************************************)
(* What the lists of the code are searched and cleaned for.                 *)
(****************************************************************************)
EXTENDS Naturals, Sequences

(* The elements of s that belong to S, in the order that they have in s     *)
(* (the loops that erase from a list what they do not want).                *)
Only(s, S) ==
    LET only[n \in 0..Len(s)] ==
            IF n = 0 THEN << >>
            ELSE IF s[n] \in S THEN Append(only[n - 1], s[n])
            ELSE only[n - 1]
    IN only[Len(s)]
=============================================================================
