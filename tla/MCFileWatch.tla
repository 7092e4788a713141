----------------------------- MODULE MCFileWatch -----------------------------
(* Two sources, a file in an ignored directory, and one that lies too deep.    *)
EXTENDS FileWatch

CONSTANTS lib, main, target, deep

MCTree  == <<deep, lib, main, target>>
MCDepth == [f \in {lib, main, target, deep} |-> IF f = deep THEN 3 ELSE 2]
MCStamps == [f \in {lib, main, target, deep} |-> IF f = lib THEN {1, 2} ELSE {1}]
=============================================================================
