---------------------------- MODULE MCGameRound ----------------------------
(* Two walls: in one every kind of kong comes up and the two others may    *)
(* rob the one made of a pung, in the other a kong is robbed after another *)
(* one was counted.                                                        *)
EXTENDS GameRound

MCStacks == { <<1, 1, 1, 2,  2, 3, 4, 4,  2, 3, 5, 5,  5, 1, 5, 2, 3, 3>>,
              <<5, 5, 1, 2,  1, 1, 5, 3,  2, 3, 4, 4,  2, 3, 2, 5, 3, 1>> }
=============================================================================
