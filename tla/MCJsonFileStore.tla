--------------------------- MODULE MCJsonFileStore ---------------------------
(* How many calls each handle may have under way.  With three calls in all *)
(* one handle at most has two at a time, so it may as well be the first.   *)
EXTENDS JsonFileStore

OneSlot  == [h \in Handles |-> {1}]
TwoOnOne == [h \in Handles |-> IF h = CHOOSE g \in Handles : TRUE THEN {1, 2} ELSE {1}]
=============================================================================
