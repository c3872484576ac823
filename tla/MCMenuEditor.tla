---------------------------- MODULE MCMenuEditor ----------------------------
EXTENDS MenuEditor

CONSTANTS i1, i2

MCFirstRows == (i1 :> [version |-> 0, price |-> 1, pos |-> 0])
               @@ (i2 :> [version |-> 0, price |-> 1, pos |-> 1])
=============================================================================
