------------------------------ MODULE MCBogon ------------------------------
(***************************************************************************)
(* A small instance of the bogon list: lists with the empty prefix, with a *)
(* prefix inside another and with a prefix of all the bits.                 *)
(***************************************************************************)
EXTENDS BogonInv

P(ip, len) == [ip |-> ip, len |-> len]

MCList == { <<>>,
            <<P(0, 0)>>,
            <<P(2, 1), P(3, 2)>>,
            <<P(1, 2), P(2, 2)>> }

\* The allocator hands out the lowest free object.
Lowest(S) == {t \in S : \A u \in S : t <= u}
=============================================================================
