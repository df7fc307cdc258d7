--------------------------------- MODULE MCCart ---------------------------------
EXTENDS Cart, TLC

CONSTANTS a1, a2, a3, pen, cup

MCAdds == {a1, a2, a3}
MCProducts == {pen, cup}
MCProductOf == a1 :> pen @@ a2 :> pen @@ a3 :> cup
================================================================================
