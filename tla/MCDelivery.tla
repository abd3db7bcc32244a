------------------------------ MODULE MCDelivery ------------------------------
(* Delivery with two tasks.                                                    *)
EXTENDS Delivery

CONSTANTS w1, w2
===============================================================================
