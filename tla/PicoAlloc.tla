----------------------------- MODULE PicoAlloc -----------------------------
(***************************************************************************)
(* What the memory manager promises its callers: what it hands out lies    *)
(* inside of its block, overlaps nothing else that is handed out, and      *)
(* stays as it is until it is given back.                                  *)
(***************************************************************************)
EXTENDS Integers

CONSTANTS
  Block,  \* the size of the block
  NULL

VARIABLES
  regions,  \* what is handed out: records [adr, len]
  adr       \* what the last request returned

Apart(r, s) == r.adr + r.len <= s.adr \/ s.adr + s.len <= r.adr

Init == regions = {} /\ adr = NULL

Grant ==
  \E a \in 0 .. Block :
    /\ adr' = a
    /\ \E l \in 0 .. Block - a :
         LET r == [adr |-> a, len |-> l] IN
         /\ regions' = regions \cup {r}
         /\ \A s \in regions : Apart(r, s)

Refuse == adr' = NULL /\ UNCHANGED regions

Return == \E r \in regions : regions' = regions \ {r} /\ adr' = NULL

Next == Grant \/ Refuse \/ Return

Spec == Init /\ [][Next]_<<regions, adr>>
=============================================================================
