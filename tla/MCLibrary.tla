----------------------------- MODULE MCLibrary ------------------------------
EXTENDS Library
CONSTANTS a, b, oslo, nowhere, p1, ann, nobody, any, unsorted
MCFix == [i \in Item |-> IF i = a THEN oslo ELSE nowhere]
MCQuery == {[text |-> ann, place |-> unsorted, person |-> any]}
=============================================================================
